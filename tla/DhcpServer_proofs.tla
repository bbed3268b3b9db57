-------------------------- MODULE DhcpServer_proofs --------------------------
(***************************************************************************)
(* Proofs about DhcpServer: its handlers, its reaper and its API touch the *)
(* store through the store's methods alone, so that every invariant of the *)
(* store is one of the server, and its variables keep their types.         *)
(*                                                                         *)
(* The argument runs in a circle that the inductive invariant closes: a    *)
(* step is a step of the store because the addresses in the handlers' local *)
(* variables are addresses, and they are because the store's types hold.   *)
(*                                                                         *)
(* On top of it, what the server promises its clients.  Those proofs speak *)
(* of a lease through AddressOf, the view of the store that LeaseLifecycle *)
(* has: a call to the store is the step of it that MemoryStore_proofs says *)
(* it refines.  The server handles one packet at a time, which is the      *)
(* hypothesis OneWorker; the promises to bound clients also need the       *)
(* orderly network that the run server assumes.                            *)
(***************************************************************************)
EXTENDS DhcpServer, MemoryStore_proofs

\* A handler past its first step has a message, and an address where the next
\* call to the store needs one.
Control ==
    \A w \in Workers :
        /\ d[w].pc # "idle" => d[w].msg \in Messages
        /\ d[w].pc \in {"allocate", "allocateNext", "renew"} => d[w].ip \in IPs

ServerInv == StoreInv /\ ServerTypeOK /\ Control

-----------------------------------------------------------------------------
(* Every step of the server is a step of its store *)

LEMMA WorkerID ==
    ASSUME ServerInv, NEW w \in Workers, d[w].pc # "idle"
    PROVE  /\ d[w].msg \in Messages
           /\ d[w].msg.mac \in MACs
           /\ PacketID[d[w].msg.mac] \in Clients
BY ServerAssumption DEF ServerInv, Control, Messages

LEMMA OfferStep ==
    ASSUME ServerInv, NEW w \in Workers, d[w].pc \in {"allocate", "allocateNext"}, OfferIP(w)
    PROVE  StoreNext
<1>1. d[w].ip \in IPs /\ PacketID[d[w].msg.mac] \in Clients
  BY WorkerID DEF ServerInv, Control
<1> QED
  BY <1>1 DEF OfferIP, StoreNext

LEMMA DispatchStep ==
    ASSUME ServerInv, NEW w \in Workers, Dispatch(w)
    PROVE  [StoreNext]_storeVars
<1>1. CASE \E mac \in MACs : \E m \in net[mac] : handlePacket(w, m)
  BY <1>1 DEF handlePacket, storeVars
<1>2. CASE Prefer(w)
  BY <1>2 DEF Prefer, storeVars
<1>3. CASE AllocatePreferred(w)
  BY <1>3, OfferStep DEF AllocatePreferred, storeVars
<1>4. CASE PickNext(w)
  BY <1>4 DEF PickNext, StoreNext, storeVars
<1>5. CASE AllocateNext(w)
  BY <1>5, OfferStep DEF AllocateNext, storeVars
<1>6. CASE GetForRequest(w)
  BY <1>6 DEF GetForRequest, storeVars
<1>7. CASE RenewForRequest(w)
  <2>1. d[w].ip \in IPs /\ PacketID[d[w].msg.mac] \in Clients
    BY <1>7, WorkerID DEF RenewForRequest, ServerInv, Control
  <2> QED
    BY <1>7, <2>1 DEF RenewForRequest, StoreNext, storeVars
<1>8. CASE handleRelease(w)
  <2>1. d[w].msg \in Messages /\ PacketID[d[w].msg.mac] \in Clients
    BY <1>8, WorkerID DEF handleRelease
  <2>2. d[w].msg.ciaddr # Nil => d[w].msg.ciaddr \in IPs
    BY <2>1 DEF Messages
  <2> QED
    BY <1>8, <2>1, <2>2 DEF handleRelease, StoreNext, storeVars
<1>9. CASE handleDecline(w)
  <2>1. d[w].msg \in Messages
    BY <1>9, WorkerID DEF handleDecline
  <2>2. DeclinedIP(d[w].msg) # Nil => DeclinedIP(d[w].msg) \in IPs
    BY <2>1 DEF Messages, DeclinedIP
  <2> QED
    BY <1>9, <2>2 DEF handleDecline, StoreNext, storeVars
<1> QED
  BY <1>1, <1>2, <1>3, <1>4, <1>5, <1>6, <1>7, <1>8, <1>9 DEF Dispatch

LEMMA StoreStep == ServerInv /\ [Next]_vars => [StoreNext]_storeVars
<1> SUFFICES ASSUME ServerInv, [Next]_vars
             PROVE  [StoreNext]_storeVars
  OBVIOUS
<1>1. ASSUME NEW mac \in MACs, ClientStep(mac)
      PROVE  [StoreNext]_storeVars
  BY <1>1 DEF ClientStep, SendDiscover, SendRequest, SendReboot, SendRenew, SendRelease,
              SendDecline, Send, Forget, Lose, storeVars
<1>2. ASSUME NEW w \in Workers, Dispatch(w)
      PROVE  [StoreNext]_storeVars
  BY <1>2, DispatchStep
<1>3. ASSUME NEW mac \in Devices, NEW ip \in IPs, AddDevice(mac, ip)
      PROVE  [StoreNext]_storeVars
  <2>1. DeviceID[mac] \in Clients
    BY ServerAssumption
  <2> QED
    BY <1>3, <2>1 DEF AddDevice, StoreNext, storeVars
<1>4. ASSUME NEW mac \in Devices, AddDynamicDevice(mac)
      PROVE  [StoreNext]_storeVars
  BY <1>4 DEF AddDynamicDevice, storeVars
<1>5. ASSUME NEW mac \in Devices, DeleteDevice(mac)
      PROVE  [StoreNext]_storeVars
  BY <1>5 DEF DeleteDevice, StoreNext, storeVars
<1>6. ASSUME NEW ip \in IPs, DeadlinePasses(ip)
      PROVE  [StoreNext]_storeVars
  BY <1>6 DEF DeadlinePasses, StoreNext
<1>7. CASE SweepExpired \/ SweepDeclined
  BY <1>7 DEF SweepExpired, SweepDeclined, StoreNext
<1>8. CASE UNCHANGED vars
  BY <1>8 DEF vars, storeVars
<1> QED
  BY <1>1, <1>2, <1>3, <1>4, <1>5, <1>6, <1>7, <1>8, ServerAssumption DEF Next

-----------------------------------------------------------------------------
(* Types and control of the handlers *)

Locals == [pc : PCs, msg : Messages \cup {Nil}, static : IPs \cup {Nil},
           ip : IPs \cup {Nil}, renewal : BOOLEAN]

\* The client side and the API: whatever leaves the handlers' variables alone
\* and keeps the types of the others.
LEMMA Environment ==
    ASSUME ServerInv, StoreInv', UNCHANGED d,
           devices' \in [MACs -> IPs \cup {Nil, Dynamic}],
           net' \in [MACs -> SUBSET Messages],
           client' \in [MACs -> [st : {"init", "offered", "bound"}, ip : IPs \cup {Nil}]]
    PROVE  ServerInv'
BY DEF ServerInv, StoreInv, ServerTypeOK, Control

\* A handler that steps to well-typed variables.
LEMMA HandlerStep ==
    ASSUME ServerInv, StoreInv', UNCHANGED devices,
           NEW w \in Workers, NEW x \in Locals,
           d' = [d EXCEPT ![w] = x],
           x.pc # "idle" => x.msg \in Messages,
           x.pc \in {"allocate", "allocateNext", "renew"} => x.ip \in IPs,
           net' \in [MACs -> SUBSET Messages],
           client' \in [MACs -> [st : {"init", "offered", "bound"}, ip : IPs \cup {Nil}]]
    PROVE  ServerInv'
<1>1. d' \in [Workers -> Locals]
  BY DEF ServerInv, ServerTypeOK, Locals
<1>2. ServerTypeOK'
  BY <1>1 DEF ServerInv, StoreInv, ServerTypeOK, Locals
<1>3. Control'
  BY DEF ServerInv, ServerTypeOK, Control
<1> QED
  BY <1>2, <1>3 DEF ServerInv

\* The three replies leave the clients well typed.
LEMMA Replies ==
    ASSUME ServerInv, NEW mac \in MACs, NEW ip \in IPs \cup {Nil},
           Ack(mac, ip) \/ Nak(mac, ip) \/ (ip \in IPs /\ Offer(mac, ip)) \/ UNCHANGED client
    PROVE  client' \in [MACs -> [st : {"init", "offered", "bound"}, ip : IPs \cup {Nil}]]
BY DEF ServerInv, ServerTypeOK, Ack, Nak, Offer, Unbound

LEMMA IdleType == Idle \in Locals /\ Idle.pc = "idle"
BY DEF Idle, Locals, PCs

\* A handler that ends, whatever its last reply.
LEMMA FinishInv ==
    ASSUME ServerInv, StoreInv', NEW w \in Workers, d[w].pc # "idle", Finish(w),
           UNCHANGED <<devices, net>>,
           NEW ip \in IPs \cup {Nil},
           \/ Ack(d[w].msg.mac, ip) \/ Nak(d[w].msg.mac, ip)
           \/ (ip \in IPs /\ Offer(d[w].msg.mac, ip)) \/ UNCHANGED client
    PROVE  ServerInv'
<1>1. d[w].msg.mac \in MACs
  BY WorkerID
<1>2. client' \in [MACs -> [st : {"init", "offered", "bound"}, ip : IPs \cup {Nil}]]
  BY <1>1, Replies
<1>3. net' \in [MACs -> SUBSET Messages]
  BY DEF ServerInv, ServerTypeOK
<1> QED
  BY <1>2, <1>3, IdleType, HandlerStep DEF Finish

LEMMA DispatchInv ==
    ASSUME ServerInv, StoreInv', NEW w \in Workers, Dispatch(w)
    PROVE  ServerInv'

<1>1. /\ d[w] \in Locals
      /\ net \in [MACs -> SUBSET Messages]
      /\ client \in [MACs -> [st : {"init", "offered", "bound"}, ip : IPs \cup {Nil}]]
  BY DEF ServerInv, ServerTypeOK, Locals
<1>2. ASSUME NEW mac \in MACs, NEW m \in net[mac], handlePacket(w, m)
      PROVE  ServerInv'
  <2> DEFINE pc == CASE m.type = "discover" -> "prefer"
                     [] m.type = "request"  -> "get"
                     [] OTHER               -> m.type
             x == [Idle EXCEPT !.msg = m, !.static = StaticIP(m.mac), !.pc = pc]
  <2>1. m \in Messages
    BY <1>1
  <2>2. m.mac \in MACs /\ m.type \in {"discover", "request", "release", "decline"}
    BY <2>1 DEF Messages
  <2>3. StaticIP(m.mac) \in IPs \cup {Nil}
    BY DEF StaticIP
  <2>4. pc \in {"prefer", "get", "release", "decline"}
    BY <2>2
  <2>5. x \in Locals /\ x.msg = m /\ x.pc = pc
    <3> HIDE DEF pc
    <3> QED
      BY <2>1, <2>3, <2>4 DEF Idle, Locals, PCs
  <2>6. d' = [d EXCEPT ![w] = x]
    BY <1>2 DEF handlePacket
  <2>7. net' \in [MACs -> SUBSET Messages] /\ UNCHANGED <<devices, client>>
    BY <1>1, <1>2 DEF handlePacket
  <2> HIDE DEF x, pc
  <2> QED
    BY <1>1, <2>1, <2>4, <2>5, <2>6, <2>7, HandlerStep
<1>3. CASE Prefer(w)
  <2> DEFINE m == d[w].msg
             known == GetByClient(PacketID[m.mac])
             mine == IF known # Nil /\ known.state \in {"reserved", "offered", "bound"}
                     THEN known.ip ELSE Nil
             ip == IF d[w].static # Nil THEN d[w].static
                   ELSE IF mine # Nil THEN mine
                   ELSE m.opt50
             next == IF ip = Nil THEN "next" ELSE "allocate"
             x == [d[w] EXCEPT !.ip = ip, !.pc = next]
  <2>1. m \in Messages /\ PacketID[m.mac] \in Clients
    BY <1>3, WorkerID DEF Prefer
  <2>2. known # Nil => known \in Leases
    BY <2>1 DEF GetByClient, ServerInv, StoreInv, TypeOK, ClientIDs
  <2>3. mine \in IPs \cup {Nil}
    BY <2>2 DEF Leases
  <2>4. m.opt50 \in IPs \cup {Nil} /\ d[w].static \in IPs \cup {Nil}
    BY <1>1, <2>1 DEF Messages, Locals
  <2>5. ip \in IPs \cup {Nil}
    BY <2>3, <2>4
  <2>6. next \in {"next", "allocate"} /\ (next = "allocate" => ip \in IPs)
    BY <2>5
  <2>7. d' = [d EXCEPT ![w] = x]
    BY <1>1, <1>3 DEF Prefer, ServerInv, ServerTypeOK
  <2>8. UNCHANGED <<devices, net, client>>
    BY <1>3 DEF Prefer
  <2>9. /\ x \in Locals
        /\ x.msg = m
        /\ x.ip = ip
        /\ x.pc = next
    <3> HIDE DEF ip, next
    <3> QED
      BY <1>1, <2>5, <2>6 DEF Locals, PCs
  <2> HIDE DEF x, ip, next, m
  <2> QED
    BY <1>1, <2>1, <2>6, <2>7, <2>8, <2>9, HandlerStep
<1>4. CASE AllocatePreferred(w)
  <2>1. CASE OfferIP(w)
    <3>1. d[w].ip \in IPs
      BY <1>4 DEF AllocatePreferred, ServerInv, Control
    <3> QED
      BY <1>4, <2>1, <3>1, FinishInv DEF AllocatePreferred, OfferIP
  <2>2. CASE Go(w, "next") /\ UNCHANGED <<devices, net, client>>
    <3>1. d[w].msg \in Messages
      BY <1>4, WorkerID DEF AllocatePreferred
    <3>2. [d[w] EXCEPT !.pc = "next"] \in Locals
      BY <1>1 DEF Locals, PCs
    <3>3. d' = [d EXCEPT ![w] = [d[w] EXCEPT !.pc = "next"]]
      BY <2>2 DEF Go, ServerInv, ServerTypeOK
    <3>4. [d[w] EXCEPT !.pc = "next"].msg = d[w].msg /\ [d[w] EXCEPT !.pc = "next"].pc = "next"
      BY <1>1 DEF Locals
    <3> QED
      BY <1>1, <2>2, <3>1, <3>2, <3>3, <3>4, HandlerStep
  <2> QED
    BY <1>4, <2>1, <2>2 DEF AllocatePreferred
<1>5. CASE PickNext(w)
  <2>1. CASE NextAvailable /\ d' = [d EXCEPT ![w].ip = Head(available), ![w].pc = "allocateNext"]
    <3> DEFINE x == [d[w] EXCEPT !.ip = Head(available), !.pc = "allocateNext"]
    <3>1. d[w].msg \in Messages
      BY <1>5, WorkerID DEF PickNext
    <3>2. Head(available) \in IPs
      BY <2>1 DEF NextAvailable, ServerInv, StoreInv, TypeOK
    <3>3. x \in Locals /\ x.msg = d[w].msg /\ x.ip = Head(available)
      BY <1>1, <3>2 DEF Locals, PCs
    <3>4. d' = [d EXCEPT ![w] = x]
      BY <1>1, <2>1 DEF ServerInv, ServerTypeOK
    <3>5. UNCHANGED <<devices, net, client>>
      BY <1>5 DEF PickNext
    <3> HIDE DEF x
    <3> QED
      BY <1>1, <3>1, <3>2, <3>3, <3>4, <3>5, HandlerStep
  <2>2. CASE Finish(w)
    BY <1>5, <2>2, FinishInv DEF PickNext
  <2> QED
    BY <1>5, <2>1, <2>2 DEF PickNext
<1>6. CASE AllocateNext(w)
  <2>1. CASE OfferIP(w)
    <3>1. d[w].ip \in IPs
      BY <1>6 DEF AllocateNext, ServerInv, Control
    <3> QED
      BY <1>6, <2>1, <3>1, FinishInv DEF AllocateNext, OfferIP
  <2>2. CASE Finish(w) /\ UNCHANGED <<devices, net, client>>
    BY <1>6, <2>2, FinishInv DEF AllocateNext
  <2> QED
    BY <1>6, <2>1, <2>2 DEF AllocateNext
<1>7. CASE GetForRequest(w)
  <2> DEFINE ip == RequestedIP(d[w].msg)
             seen == InState(ip, {"bound"})
             x == [d[w] EXCEPT !.ip = ip, !.pc = "renew", !.renewal = seen]
  <2>1. d[w].msg \in Messages
    BY <1>7, WorkerID DEF GetForRequest
  <2>2. ip \in IPs \cup {Nil}
    BY <2>1 DEF RequestedIP, Messages
  <2>3. CASE Finish(w) /\ (UNCHANGED client \/ Nak(d[w].msg.mac, ip))
    BY <1>7, <2>2, <2>3, FinishInv DEF GetForRequest
  <2>4. CASE ip # Nil /\ d' = [d EXCEPT ![w].ip = ip, ![w].pc = "renew", ![w].renewal = seen]
              /\ UNCHANGED client
    <3>1. seen \in BOOLEAN
      BY DEF InState
    <3>2. x \in Locals /\ x.msg = d[w].msg /\ x.ip = ip
      <4> HIDE DEF seen, ip
      <4> QED
        BY <1>1, <2>2, <3>1 DEF Locals, PCs
    <3>3. d' = [d EXCEPT ![w] = x]
      BY <1>1, <2>4 DEF ServerInv, ServerTypeOK
    <3>4. UNCHANGED <<devices, net>>
      BY <1>7 DEF GetForRequest
    <3> HIDE DEF x, ip
    <3> QED
      BY <1>1, <2>1, <2>2, <2>4, <3>2, <3>3, <3>4, HandlerStep
  <2> QED
    BY <1>7, <2>3, <2>4 DEF GetForRequest
<1>8. CASE RenewForRequest(w)
  <2>1. d[w].ip \in IPs
    BY <1>8 DEF RenewForRequest, ServerInv, Control
  <2> QED
    BY <1>8, <2>1, FinishInv DEF RenewForRequest
<1>9. CASE handleRelease(w)
  BY <1>9, FinishInv DEF handleRelease
<1>10. CASE handleDecline(w)
  BY <1>10, FinishInv DEF handleDecline
<1> QED
  BY <1>2, <1>3, <1>4, <1>5, <1>6, <1>7, <1>8, <1>9, <1>10 DEF Dispatch

LEMMA ServerNextInv == ServerInv /\ [Next]_vars => ServerInv'
<1> SUFFICES ASSUME ServerInv, [Next]_vars
             PROVE  ServerInv'
  OBVIOUS
<1> DEFINE Clean == [st : {"init", "offered", "bound"}, ip : IPs \cup {Nil}]
<1>1. StoreInv'
  BY StoreStep, NextInv DEF ServerInv
<1>2. /\ net \in [MACs -> SUBSET Messages]
      /\ devices \in [MACs -> IPs \cup {Nil, Dynamic}]
      /\ client \in [MACs -> Clean]
  BY DEF ServerInv, ServerTypeOK
<1>3. ASSUME NEW mac \in MACs, ClientStep(mac)
      PROVE  ServerInv'
  <2>1. ASSUME NEW m \in Messages, Send(mac, m)
        PROVE  net' \in [MACs -> SUBSET Messages] /\ UNCHANGED <<d, devices>>
    BY <1>2, <2>1 DEF Send
  <2>2. client[mac].ip \in IPs \cup {Nil}
    BY <1>2
  <2>3. ASSUME NEW hint \in Hints \cup {Nil}, SendDiscover(mac, hint)
        PROVE  ServerInv'
    <3>1. Message("discover", mac, Nil, hint, "none") \in Messages
      BY ServerAssumption DEF Message, Messages, ToServer
    <3> QED
      BY <1>1, <1>2, <2>1, <2>3, <3>1, Environment DEF SendDiscover
  <2>4. ASSUME NEW server \in {"this", "other"}, SendRequest(mac, server)
        PROVE  ServerInv'
    <3>1. Message("request", mac, Nil, client[mac].ip, server) \in Messages
      BY <2>2 DEF Message, Messages, ToServer
    <3> QED
      BY <1>1, <1>2, <2>1, <2>4, <3>1, Environment DEF SendRequest
  <2>5. ASSUME NEW ip \in Hints, SendReboot(mac, ip)
        PROVE  ServerInv'
    <3>1. Message("request", mac, Nil, ip, "none") \in Messages
      BY ServerAssumption DEF Message, Messages, ToServer
    <3>2. client' \in [MACs -> Clean]
      BY <1>2, <2>5, ServerAssumption DEF SendReboot
    <3> QED
      BY <1>1, <1>2, <2>1, <2>5, <3>1, <3>2, Environment DEF SendReboot
  <2>6. ASSUME SendRenew(mac)
        PROVE  ServerInv'
    <3>1. Message("request", mac, client[mac].ip, Nil, "this") \in Messages
      BY <2>2 DEF Message, Messages, ToServer
    <3> QED
      BY <1>1, <1>2, <2>1, <2>6, <3>1, Environment DEF SendRenew
  <2>7. ASSUME SendRelease(mac)
        PROVE  ServerInv'
    <3>1. Message("release", mac, client[mac].ip, Nil, "this") \in Messages
      BY <2>2 DEF Message, Messages, ToServer
    <3>2. client' \in [MACs -> Clean]
      BY <1>2, <2>7 DEF SendRelease, Unbound
    <3> QED
      BY <1>1, <1>2, <2>1, <2>7, <3>1, <3>2, Environment DEF SendRelease
  <2>8. ASSUME SendDecline(mac)
        PROVE  ServerInv'
    <3>1. Message("decline", mac, Nil, client[mac].ip, "this") \in Messages
      BY <2>2 DEF Message, Messages, ToServer
    <3>2. client' \in [MACs -> Clean]
      BY <1>2, <2>8 DEF SendDecline, Unbound
    <3> QED
      BY <1>1, <1>2, <2>1, <2>8, <3>1, <3>2, Environment DEF SendDecline
  <2>9. ASSUME Forget(mac)
        PROVE  ServerInv'
    <3>1. client' \in [MACs -> Clean]
      BY <1>2, <2>9 DEF Forget, Unbound
    <3> QED
      BY <1>1, <1>2, <2>9, <3>1, Environment DEF Forget
  <2>10. ASSUME Lose(mac)
         PROVE  ServerInv'
    <3>1. net' \in [MACs -> SUBSET Messages]
      BY <1>2, <2>10 DEF Lose
    <3> QED
      BY <1>1, <1>2, <2>10, <3>1, Environment DEF Lose
  <2> QED
    BY <1>3, <2>3, <2>4, <2>5, <2>6, <2>7, <2>8, <2>9, <2>10 DEF ClientStep
<1>4. ASSUME NEW w \in Workers, Dispatch(w)
      PROVE  ServerInv'
  BY <1>1, <1>4, DispatchInv
<1>5. ASSUME NEW mac \in Devices, NEW ip \in IPs, AddDevice(mac, ip)
      PROVE  ServerInv'
  <2>1. devices' \in [MACs -> IPs \cup {Nil, Dynamic}]
    BY <1>2, <1>5 DEF AddDevice
  <2> QED
    BY <1>1, <1>2, <1>5, <2>1, Environment DEF AddDevice
<1>6. ASSUME NEW mac \in Devices, AddDynamicDevice(mac) \/ DeleteDevice(mac)
      PROVE  ServerInv'
  <2>1. devices' \in [MACs -> IPs \cup {Nil, Dynamic}]
    BY <1>2, <1>6 DEF AddDynamicDevice, DeleteDevice
  <2> QED
    BY <1>1, <1>2, <1>6, <2>1, Environment DEF AddDynamicDevice, DeleteDevice
<1>7. ASSUME NEW ip \in IPs, DeadlinePasses(ip)
      PROVE  ServerInv'
  <2>1. client' \in [MACs -> Clean]
    BY <1>2, <1>7 DEF DeadlinePasses, Unbound
  <2> QED
    BY <1>1, <1>2, <1>7, <2>1, Environment DEF DeadlinePasses
<1>8. CASE SweepExpired \/ SweepDeclined \/ UNCHANGED vars
  BY <1>1, <1>2, <1>8, Environment DEF SweepExpired, SweepDeclined, vars
<1> QED
  BY <1>3, <1>4, <1>5, <1>6, <1>7, <1>8, ServerAssumption DEF Next

LEMMA ServerInitInv == Init => ServerInv
<1> SUFFICES ASSUME Init
             PROVE  ServerInv
  OBVIOUS
<1>1. StoreInv
  BY InitInv DEF Init
<1>2. d \in [Workers -> Locals] /\ \A w \in Workers : d[w].pc = "idle"
  BY IdleType DEF Init
<1>3. ServerTypeOK
  BY <1>1, <1>2 DEF Init, ServerTypeOK, StoreInv, Locals, Unbound
<1>4. Control
  BY <1>2 DEF Control
<1> QED
  BY <1>1, <1>3, <1>4 DEF ServerInv

-----------------------------------------------------------------------------
(* The theorems *)

LEMMA ServerInvariant == Spec => []ServerInv
BY ServerInitInv, ServerNextInv, PTL DEF Spec

\* The variables of the handlers, the network and the clients keep their types:
\* no handler calls the store without an address or a packet.
THEOREM ServerTypeCorrect == Spec => []ServerTypeOK
<1>1. ServerInv => ServerTypeOK
  BY DEF ServerInv
<1> QED
  BY <1>1, ServerInvariant, PTL

\* The server runs its store by the store's methods alone: with handlers,
\* network and clients hidden, every run of the server is one of the store.
THEOREM ServerImplementsStore == Spec => StoreSpec
<1>1. Init => StoreInit
  BY DEF Init
<1> QED
  BY <1>1, StoreStep, ServerInvariant, PTL DEF Spec, StoreSpec

\* However handlers, reaper and API interleave, the FIFO from which the server
\* picks an address for a DISCOVER holds no address that has a lease.
THEOREM ServerPoolDisjoint == Spec => []PoolDisjoint
BY ServerImplementsStore, StorePoolDisjoint

\* However they interleave, no call takes a lease from the client that has it
\* and gives it to another (the methods of MemoryStore, called one by one).
THEOREM ServerOwnerStable == Spec => OwnerStable
BY ServerImplementsStore, StoreOwnerStable

\* What the running server does to any one address is a walk along the life
\* cycle: the handlers, Reaper.run, AddDevice and DeleteDevice, call by call.
THEOREM ServerImplementsLifecycle == Spec => ImplementsLifecycle
BY ServerImplementsStore, StoreImplementsLifecycle

-----------------------------------------------------------------------------
(* The promises to the clients *)

\* The dispatch loop handles one packet at a time.
OneWorker == \A v, w \in Workers : v = w

-----------------------------------------------------------------------------
(* Leases seen as phases and holders *)

LEMMA InStateView ==
    ASSUME StoreInv, NEW ip \in IPs, NEW S \in SUBSET States
    PROVE  InState(ip, S) <=> AddressOf(ip).phase \in S
BY LeasedView DEF InState, States

LEMMA OwnedView ==
    ASSUME StoreInv, NEW ip \in IPs, NEW c
    PROVE  OwnedBy(ip, c) <=> AddressOf(ip).phase \notin {"idle", "free"} /\ AddressOf(ip).holder = c
BY LeasedView DEF OwnedBy

\* What the reaper, the API and the clock do to an address: they free it when
\* it is late or reserved, reserve it when it is vacant, or make it late.
LEMMA EnvironmentView ==
    ASSUME ServerInv, NEW ip \in IPs,
           \/ \E mac \in Devices, i \in IPs : AddDevice(mac, i)
           \/ \E mac \in Devices : AddDynamicDevice(mac) \/ DeleteDevice(mac)
           \/ \E i \in IPs : DeadlinePasses(i)
           \/ SweepExpired \/ SweepDeclined
           \/ \E mac \in MACs : ClientStep(mac)
           \/ UNCHANGED vars
    PROVE  \/ AddressOf(ip)' = AddressOf(ip)
           \/ AddressOf(ip)'.phase \in {"free", "reserved"}
           \/ /\ AddressOf(ip)'.phase = AddressOf(ip).phase
              /\ AddressOf(ip)'.holder = AddressOf(ip).holder
<1>0. StoreInv
  BY DEF ServerInv
<1>1. ASSUME UNCHANGED <<lease, byIP, byClient, available>>
      PROVE  AddressOf(ip)' = AddressOf(ip)
  BY <1>1, UnchangedView DEF Addresses
<1>2. ASSUME NEW mac \in Devices, NEW i \in IPs, AddDevice(mac, i)
      PROVE  AddressOf(ip)' = AddressOf(ip) \/ AddressOf(ip)'.phase = "reserved"
  <2>1. DeviceID[mac] \in Clients
    BY ServerAssumption
  <2>2. CASE Reserve(DeviceID[mac], i)
    BY <1>0, <2>1, <2>2, ReserveAt DEF ClientIDs
  <2> QED
    BY <1>1, <1>2, <2>2 DEF AddDevice
<1>3. ASSUME NEW mac \in Devices, DeleteDevice(mac)
      PROVE  AddressOf(ip)' = AddressOf(ip) \/ AddressOf(ip)'.phase = "free"
  <2>1. CASE devices[mac] \in IPs /\ Unreserve(devices[mac])
    BY <1>0, <2>1, UnreserveAt
  <2> QED
    BY <1>1, <1>3, <2>1 DEF DeleteDevice
<1>4. ASSUME NEW i \in IPs, DeadlinePasses(i)
      PROVE  /\ AddressOf(ip)'.phase = AddressOf(ip).phase
             /\ AddressOf(ip)'.holder = AddressOf(ip).holder
  BY <1>0, <1>4, ElapseAt DEF DeadlinePasses
<1>5. ASSUME SweepExpired \/ SweepDeclined
      PROVE  AddressOf(ip)' = AddressOf(ip) \/ AddressOf(ip)'.phase = "free"
  BY <1>0, <1>5, ReaperAt DEF SweepExpired, SweepDeclined
<1>6. ASSUME NEW mac \in Devices, AddDynamicDevice(mac)
      PROVE  AddressOf(ip)' = AddressOf(ip)
  BY <1>1, <1>6 DEF AddDynamicDevice
<1>7. ASSUME NEW mac \in MACs, ClientStep(mac)
      PROVE  AddressOf(ip)' = AddressOf(ip)
  BY <1>1, <1>7 DEF ClientStep, SendDiscover, SendRequest, SendReboot, SendRenew, SendRelease,
                    SendDecline, Send, Forget, Lose
<1>8. UNCHANGED vars => AddressOf(ip)' = AddressOf(ip)
  BY <1>1 DEF vars
<1> QED
  BY <1>2, <1>3, <1>4, <1>5, <1>6, <1>7, <1>8

\* The steps that are not a handler's leave the handlers alone.
LEMMA StepCases ==
    ASSUME [Next]_vars
    PROVE  \/ \E w \in Workers : Dispatch(w)
           \/ /\ UNCHANGED d
              /\ \/ \E mac \in Devices, i \in IPs : AddDevice(mac, i)
                 \/ \E mac \in Devices : AddDynamicDevice(mac) \/ DeleteDevice(mac)
                 \/ \E i \in IPs : DeadlinePasses(i)
                 \/ SweepExpired \/ SweepDeclined
                 \/ \E mac \in MACs : ClientStep(mac)
                 \/ UNCHANGED vars
BY ServerAssumption DEF Next, AddDevice, AddDynamicDevice, DeleteDevice, DeadlinePasses, SweepExpired, SweepDeclined,
       ClientStep, SendDiscover, SendRequest, SendReboot, SendRenew, SendRelease, SendDecline, Send,
       Forget, Lose, vars

LEMMA PacketTaken ==
    ASSUME ServerInv, NEW w \in Workers, NEW mac \in MACs, NEW m \in net[mac], handlePacket(w, m)
    PROVE  /\ m \in Messages /\ m.type \in {"discover", "request", "release", "decline"}
           /\ d'[w].msg = m /\ d'[w].static = StaticIP(m.mac)
           /\ m.type = "discover" => d'[w].pc = "prefer"
           /\ m.type = "request" => d'[w].pc = "get"
           /\ m.type \in {"release", "decline"} => d'[w].pc = m.type
<1>1. m \in Messages /\ d \in [Workers -> Locals]
  BY DEF ServerInv, ServerTypeOK, Locals
<1>2. m.type \in {"discover", "request", "release", "decline"}
  BY <1>1 DEF Messages
<1>3. d'[w] = [Idle EXCEPT !.msg = m, !.static = StaticIP(m.mac),
                           !.pc = CASE m.type = "discover" -> "prefer"
                                    [] m.type = "request"  -> "get"
                                    [] OTHER               -> m.type]
  BY <1>1 DEF handlePacket
<1> QED
  BY <1>1, <1>2, <1>3 DEF Idle

-----------------------------------------------------------------------------
(* The renewal flag *)

\* Between Get and Renew only the reaper, the API and the clock run: none of
\* them makes a bound lease of an offer, or an offer of a bound lease.
FlagInv ==
    \A w \in Workers :
        (d[w].pc = "renew" /\ AddressOf(d[w].ip).phase \in {"offered", "bound"})
        => (d[w].renewal <=> AddressOf(d[w].ip).phase = "bound")

LEMMA FlagNextInv ==
    ASSUME OneWorker, ServerInv, FlagInv, [Next]_vars
    PROVE  FlagInv'
<1>1. ASSUME NEW w \in Workers, Dispatch(w)
      PROVE  FlagInv'
  <2>1. \A v \in Workers : v = w
    BY DEF OneWorker
  <2>2. d \in [Workers -> Locals]
    BY DEF ServerInv, ServerTypeOK, Locals
  <2>3. CASE GetForRequest(w)
    <3>1. CASE d'[w].pc = "renew"
      <4>1. UNCHANGED <<lease, byIP, byClient, available>> /\ d[w] \in Locals
        BY <2>2, <2>3 DEF GetForRequest
      <4>2. Idle.pc # "renew"
        BY DEF Idle
      <4>3. /\ RequestedIP(d[w].msg) \in IPs
            /\ d' = [d EXCEPT ![w].ip = RequestedIP(d[w].msg), ![w].pc = "renew",
                              ![w].renewal = InState(RequestedIP(d[w].msg), {"bound"})]
        <5>1. d[w].msg \in Messages
          BY <2>3, WorkerID DEF GetForRequest
        <5> QED
          BY <2>2, <2>3, <3>1, <4>2, <5>1 DEF GetForRequest, Finish, RequestedIP, Messages, Locals
      <4>4. PICK ip \in IPs : ip = RequestedIP(d[w].msg)
        BY <4>3
      <4>5. d'[w].ip = ip /\ (d'[w].renewal <=> InState(ip, {"bound"}))
        BY <2>2, <4>1, <4>3, <4>4 DEF Locals
      <4>6. InState(ip, {"bound"}) <=> AddressOf(ip).phase = "bound"
        BY InStateView DEF ServerInv, States
      <4>7. AddressOf(ip)' = AddressOf(ip)
        BY <4>1, UnchangedView DEF Addresses
      <4> QED
        BY <2>1, <4>5, <4>6, <4>7 DEF FlagInv
    <3> QED
      BY <2>1, <3>1 DEF FlagInv
  <2>4. CASE ~GetForRequest(w)
    <3>1. d'[w].pc # "renew"
      <4>1. ASSUME NEW mac \in MACs, NEW m \in net[mac], handlePacket(w, m)
            PROVE  d'[w].pc # "renew"
        BY <4>1, PacketTaken
      <4>2. CASE Prefer(w)
        <5>1. PICK x : d' = [d EXCEPT ![w].ip = x,
                                      ![w].pc = IF x = Nil THEN "next" ELSE "allocate"]
          BY <4>2 DEF Prefer
        <5> QED
          BY <2>2, <5>1 DEF Locals
      <4>3. CASE AllocatePreferred(w) \/ AllocateNext(w)
        <5>1. OfferIP(w) => d'[w].pc = "idle"
          BY <2>2 DEF OfferIP, Finish, Idle
        <5> QED
          BY <2>2, <4>3, <5>1 DEF AllocatePreferred, AllocateNext, Go, Finish, Idle, Locals
      <4>4. CASE PickNext(w)
        BY <2>2, <4>4 DEF PickNext, Finish, Idle, Locals
      <4>5. CASE RenewForRequest(w) \/ handleRelease(w) \/ handleDecline(w)
        <5>1. Finish(w)
          BY <4>5 DEF RenewForRequest, handleRelease, handleDecline
        <5> QED
          BY <2>2, <5>1 DEF Finish, Idle
      <4> QED
        BY <1>1, <2>4, <4>1, <4>2, <4>3, <4>4, <4>5 DEF Dispatch
    <3> QED
      BY <2>1, <3>1 DEF FlagInv
  <2> QED
    BY <2>3, <2>4
<1>2. ASSUME UNCHANGED d,
             \A ip \in IPs :
                \/ AddressOf(ip)' = AddressOf(ip)
                \/ AddressOf(ip)'.phase \in {"free", "reserved"}
                \/ AddressOf(ip)'.phase = AddressOf(ip).phase
      PROVE  FlagInv'
  BY <1>2 DEF FlagInv, ServerInv, Control
<1> QED
  BY <1>1, <1>2, StepCases, EnvironmentView

\* With one handler at work, the event that follows an ACK tells a renewal from
\* a first assignment rightly: nothing that runs between Get and Renew turns an
\* offer into a bound lease or back.
THEOREM ServerRenewalFlagFresh == ASSUME OneWorker PROVE Spec => []RenewalFlagFresh
<1>1. Init => FlagInv
  BY DEF Init, FlagInv, Idle
<1>2. ServerInv /\ FlagInv /\ [Next]_vars => FlagInv'
  BY FlagNextInv
<1>3. ServerInv /\ FlagInv => RenewalFlagFresh
  <2> SUFFICES ASSUME ServerInv, FlagInv, NEW w \in Workers, d[w].pc = "renew",
                      RenewOK(PacketID[d[w].msg.mac], d[w].ip)
               PROVE  d[w].renewal <=> InState(d[w].ip, {"bound"})
    BY DEF RenewalFlagFresh
  <2>1. d[w].ip \in IPs
    BY DEF ServerInv, Control
  <2>2. InState(d[w].ip, {"offered", "bound"})
    BY DEF RenewOK
  <2> QED
    BY <2>1, <2>2, InStateView DEF FlagInv, ServerInv, States
<1> QED
  BY <1>1, <1>2, <1>3, ServerInvariant, PTL DEF Spec

-----------------------------------------------------------------------------
(* Reservations and device records *)

\* What a handler does to an address: it never makes a reservation, and alters
\* one only by an Allocate that takes the client's name off it.
LEMMA HandlerView ==
    ASSUME ServerInv, NEW w \in Workers, Dispatch(w), NEW ip \in IPs
    PROVE  \/ AddressOf(ip)' = AddressOf(ip)
           \/ AddressOf(ip)'.phase # "reserved"
           \/ AddressOf(ip)'.holder = NoID
<1>0. StoreInv
  BY DEF ServerInv
<1>1. ASSUME UNCHANGED <<lease, byIP, byClient, available>>
      PROVE  AddressOf(ip)' = AddressOf(ip)
  BY <1>1, UnchangedView DEF Addresses
<1>2. CASE \/ \E mac \in MACs : \E m \in net[mac] : handlePacket(w, m)
          \/ Prefer(w)
          \/ GetForRequest(w)
  BY <1>1, <1>2 DEF handlePacket, Prefer, GetForRequest
<1>3. CASE AllocatePreferred(w) \/ AllocateNext(w)
  <2>1. CASE OfferIP(w)
    <3>1. PICK c \in Clients, i \in IPs : Allocate(c, i)
      <4>1. d[w].pc \in {"allocate", "allocateNext"}
        BY <1>3 DEF AllocatePreferred, AllocateNext
      <4>2. d[w].ip \in IPs /\ PacketID[d[w].msg.mac] \in Clients
        BY <4>1, WorkerID DEF ServerInv, Control
      <4> QED
        BY <2>1, <4>2 DEF OfferIP
    <3>2. AddressOf(i)'.phase = "offered"
      BY <1>0, <3>1, AllocateAt
    <3> QED
      BY <1>0, <3>1, <3>2, AllocateAt
  <2> QED
    BY <1>1, <1>3, <2>1 DEF AllocatePreferred, AllocateNext
<1>4. CASE PickNext(w)
  <2>1. NextAvailable => AddressOf(ip)' = AddressOf(ip)
    BY <1>0, NextAvailableRefines DEF Addresses
  <2> QED
    BY <1>1, <1>4, <2>1 DEF PickNext
<1>5. CASE RenewForRequest(w)
  <2>1. d[w].ip \in IPs /\ PacketID[d[w].msg.mac] \in Clients
    BY <1>5, WorkerID DEF RenewForRequest, ServerInv, Control
  <2>2. CASE Renew(PacketID[d[w].msg.mac], d[w].ip)
    BY <1>0, <2>1, <2>2, RenewAt
  <2> QED
    BY <1>1, <1>5, <2>2 DEF RenewForRequest
<1>6. CASE handleRelease(w)
  <2>1. d[w].msg \in Messages /\ PacketID[d[w].msg.mac] \in Clients
    BY <1>6, WorkerID DEF handleRelease
  <2>2. CASE d[w].msg.ciaddr # Nil /\ Release(PacketID[d[w].msg.mac], d[w].msg.ciaddr)
    <3>1. d[w].msg.ciaddr \in IPs
      BY <2>1, <2>2 DEF Messages
    <3> QED
      BY <1>0, <2>1, <2>2, <3>1, ReleaseAt
  <2> QED
    BY <1>1, <1>6, <2>2 DEF handleRelease
<1>7. CASE handleDecline(w)
  <2>1. d[w].msg \in Messages
    BY <1>7, WorkerID DEF handleDecline
  <2>2. CASE DeclinedIP(d[w].msg) # Nil /\ Decline(DeclinedIP(d[w].msg))
    <3>1. DeclinedIP(d[w].msg) \in IPs
      BY <2>1, <2>2 DEF Messages, DeclinedIP
    <3> QED
      BY <1>0, <2>2, <3>1, DeclineAt
  <2> QED
    BY <1>1, <1>7, <2>2 DEF handleDecline
<1> QED
  BY <1>2, <1>3, <1>4, <1>5, <1>6, <1>7 DEF Dispatch

\* AddressOf(ip) is a reservation that a record of its owner asks for.
Recorded(ip) == \E mac \in MACs : devices[mac] = ip /\ DeviceID[mac] = AddressOf(ip).holder

LEMMA OrphanView ==
    ASSUME StoreInv, NEW ip \in IPs
    PROVE  /\ Orphan(ip) <=> AddressOf(ip).phase = "reserved" /\ ~Recorded(ip)
           /\ AddressOf(ip).phase = "reserved" => LeaseAt(ip).clientID = AddressOf(ip).holder
<1>1. InState(ip, {"reserved"}) <=> AddressOf(ip).phase = "reserved"
  BY InStateView DEF States
<1>2. AddressOf(ip).phase = "reserved" => LeaseAt(ip).clientID = AddressOf(ip).holder
  BY LeasedView
<1> QED
  BY <1>1, <1>2 DEF Orphan, Recorded

\* Whatever becomes or stays reserved by a step keeps its record, if it had one,
\* unless the step replaces the record or takes the name off the lease.
Replaced(ip) == \E mac \in MACs : devices[mac] = ip /\ devices'[mac] \notin {ip, Nil}

LEMMA RecordStep ==
    ASSUME ServerInv, [Next]_vars, NEW ip \in IPs, AddressOf(ip)'.phase = "reserved"
    PROVE  \/ Recorded(ip)' \/ Replaced(ip) \/ AddressOf(ip)'.holder = NoID
           \/ AddressOf(ip).phase = "reserved" /\ ~Recorded(ip)
<1>0. StoreInv /\ devices \in [MACs -> IPs \cup {Nil, Dynamic}]
  BY DEF ServerInv, ServerTypeOK
<1>1. ASSUME UNCHANGED devices,
             /\ AddressOf(ip)'.phase = AddressOf(ip).phase
             /\ AddressOf(ip)'.holder = AddressOf(ip).holder
      PROVE  Recorded(ip)' \/ (AddressOf(ip).phase = "reserved" /\ ~Recorded(ip))
  BY <1>1 DEF Recorded
<1>2. ASSUME NEW mac \in MACs, NEW to, devices' = [devices EXCEPT ![mac] = to], to # Nil,
             AddressOf(ip)' = AddressOf(ip)
      PROVE  \/ Recorded(ip)' \/ Replaced(ip)
             \/ AddressOf(ip).phase = "reserved" /\ ~Recorded(ip)
  <2> SUFFICES ASSUME NEW n \in MACs, devices[n] = ip, DeviceID[n] = AddressOf(ip).holder
               PROVE  Recorded(ip)' \/ Replaced(ip)
    BY <1>2 DEF Recorded
  <2>1. CASE n = mac /\ to # ip
    BY <1>0, <1>2, <2>1 DEF Replaced
  <2>2. CASE n # mac \/ to = ip
    BY <1>0, <1>2, <2>2 DEF Recorded
  <2> QED
    BY <2>1, <2>2
<1>3. ASSUME NEW w \in Workers, Dispatch(w)
      PROVE  \/ AddressOf(ip)'.holder = NoID
             \/ Recorded(ip)' \/ (AddressOf(ip).phase = "reserved" /\ ~Recorded(ip))
  <2>1. UNCHANGED devices
    BY <1>3 DEF Dispatch, handlePacket, Prefer, AllocatePreferred, OfferIP, PickNext, AllocateNext,
                GetForRequest, RenewForRequest, handleRelease, handleDecline
  <2> QED
    BY <1>1, <1>3, <2>1, HandlerView
<1>4. ASSUME NEW mac \in Devices, NEW i \in IPs, AddDevice(mac, i)
      PROVE  \/ Recorded(ip)' \/ Replaced(ip)
             \/ AddressOf(ip).phase = "reserved" /\ ~Recorded(ip)
  <2>1. mac \in MACs /\ DeviceID[mac] \in Clients /\ i # Nil
    BY ServerAssumption
  <2>2. devices' = [devices EXCEPT ![mac] = i] /\ devices'[mac] = i
    BY <1>0, <1>4, <2>1 DEF AddDevice
  <2>3. CASE Reserve(DeviceID[mac], i)
    <3>1. AddressOf(i)'.holder = DeviceID[mac] /\ (ip # i => AddressOf(ip)' = AddressOf(ip))
      BY <1>0, <2>1, <2>3, ReserveAt DEF ClientIDs
    <3>2. CASE ip = i
      BY <2>1, <2>2, <3>1, <3>2 DEF Recorded
    <3> QED
      BY <1>2, <2>1, <2>2, <3>1, <3>2
  <2>4. CASE UNCHANGED <<lease, byIP, byClient, available>>
    BY <1>2, <2>1, <2>2, <2>4, UnchangedView DEF Addresses
  <2> QED
    BY <1>4, <2>3, <2>4 DEF AddDevice
<1>5. ASSUME NEW mac \in Devices, AddDynamicDevice(mac)
      PROVE  \/ Recorded(ip)' \/ Replaced(ip)
             \/ AddressOf(ip).phase = "reserved" /\ ~Recorded(ip)
  <2>1. AddressOf(ip)' = AddressOf(ip) /\ mac \in MACs /\ Dynamic # Nil
    BY <1>5, UnchangedView, ServerAssumption DEF AddDynamicDevice, Addresses
  <2> QED
    BY <1>2, <1>5, <2>1 DEF AddDynamicDevice
<1>6. ASSUME NEW mac \in Devices, DeleteDevice(mac)
      PROVE  Recorded(ip)' \/ (AddressOf(ip).phase = "reserved" /\ ~Recorded(ip))
  <2>1. /\ mac \in MACs /\ Nil \notin IPs /\ Dynamic \notin IPs
        /\ devices' = [devices EXCEPT ![mac] = Nil]
    BY <1>6, ServerAssumption DEF DeleteDevice
  <2>2. devices[mac] # ip /\ AddressOf(ip)' = AddressOf(ip)
    <3>1. CASE devices[mac] \in IPs /\ Unreserve(devices[mac])
      BY <1>0, <3>1, UnreserveAt
    <3>2. CASE devices[mac] = Dynamic /\ UNCHANGED <<lease, byIP, byClient, available>>
      BY <2>1, <3>2, UnchangedView DEF Addresses
    <3> QED
      BY <1>6, <3>1, <3>2 DEF DeleteDevice
  <2>3. \A n \in MACs : devices[n] = ip => devices'[n] = ip
    BY <1>0, <2>1, <2>2
  <2> QED
    BY <2>2, <2>3 DEF Recorded
<1>7. ASSUME NEW i \in IPs, DeadlinePasses(i)
      PROVE  Recorded(ip)' \/ (AddressOf(ip).phase = "reserved" /\ ~Recorded(ip))
  BY <1>0, <1>1, <1>7, ElapseAt DEF DeadlinePasses
<1>8. CASE SweepExpired \/ SweepDeclined
  BY <1>0, <1>1, <1>8, ReaperAt DEF SweepExpired, SweepDeclined
<1>9. ASSUME UNCHANGED <<lease, byIP, byClient, available, devices>>
      PROVE  Recorded(ip)' \/ (AddressOf(ip).phase = "reserved" /\ ~Recorded(ip))
  BY <1>1, <1>9, UnchangedView DEF Addresses
<1>10. ASSUME NEW mac \in MACs, ClientStep(mac)
       PROVE  UNCHANGED <<lease, byIP, byClient, available, devices>>
  BY <1>10 DEF ClientStep, SendDiscover, SendRequest, SendReboot, SendRenew, SendRelease,
               SendDecline, Send, Forget, Lose
<1>11. UNCHANGED vars => UNCHANGED <<lease, byIP, byClient, available, devices>>
  BY DEF vars
<1> QED
  BY <1>3, <1>4, <1>5, <1>6, <1>7, <1>8, <1>9, <1>10, <1>11, ServerAssumption DEF Next

\* No call of a handler, of the reaper or of the API leaves a reservation
\* without its device record, but for the two that OrphanedOnlyByReplacing
\* names: AddDevice in the place of another record, and Allocate when the client
\* has two leases (memory.go:121).
THEOREM ServerOrphanedOnlyByReplacing == Spec => OrphanedOnlyByReplacing
<1> DEFINE View ==
      \A ip \in IPs :
         /\ Orphan(ip) <=> AddressOf(ip).phase = "reserved" /\ ~Recorded(ip)
         /\ AddressOf(ip).phase = "reserved" => LeaseAt(ip).clientID = AddressOf(ip).holder
<1>1. ServerInv => View
  BY OrphanView DEF ServerInv
<1>2. ServerInv' => View'
  BY <1>1, PTL
<1>3. ServerInv /\ ServerInv' /\ [Next]_vars =>
         \A ip \in IPs : (~Orphan(ip) /\ Orphan(ip)') =>
            \/ \E mac \in MACs : devices[mac] = ip /\ devices'[mac] \notin {ip, Nil}
            \/ LeaseAt(ip)'.clientID = NoID
  <2> SUFFICES ASSUME ServerInv, ServerInv', [Next]_vars, NEW ip \in IPs, ~Orphan(ip), Orphan(ip)'
               PROVE  Replaced(ip) \/ LeaseAt(ip)'.clientID = NoID
    BY DEF Replaced
  <2>1. ~(AddressOf(ip).phase = "reserved" /\ ~Recorded(ip))
    BY <1>1
  <2>2. /\ AddressOf(ip)'.phase = "reserved" /\ ~Recorded(ip)'
        /\ LeaseAt(ip)'.clientID = AddressOf(ip)'.holder
    BY <1>2
  <2> QED
    BY <2>1, <2>2, RecordStep
<1> QED
  BY <1>3, ServerInvariant, PTL DEF Spec, OrphanedOnlyByReplacing

-----------------------------------------------------------------------------
(* The promises to bound clients, on an orderly network *)

\* What the run server assumes of the clients and of the network.
Orderly == OneWorker /\ Window = 1 /\ Duplicates = FALSE /\ "decline" \notin Kinds

OnlyRequests(mac) == \A m \in net[mac] : m.type = "request"

\* At most one message of each client is under way, and it is its own.
TrafficInv ==
    \A mac \in MACs :
        /\ net[mac] = {} \/ \E m \in Messages : net[mac] = {m}
        /\ \A m \in net[mac] : m.mac = mac /\ m.type # "decline"

\* While the server answers a REQUEST, a client that still cares for the answer
\* has nothing but other REQUESTs under way.
HandInv ==
    \A w \in Workers :
        /\ d[w].pc # "decline"
        /\ (d[w].pc \in {"get", "renew"} /\ client[d[w].msg.mac].st # "init")
           => OnlyRequests(d[w].msg.mac)

Bound(mac) == [phase |-> "bound", holder |-> PacketID[mac], late |-> FALSE]

\* A bound client has its lease, and neither the network nor the server holds a
\* message of it that would cost it the lease.
BoundInv ==
    \A mac \in MACs : client[mac].st = "bound" =>
        /\ client[mac].ip \in IPs
        /\ AddressOf(client[mac].ip) = Bound(mac)
        /\ OnlyRequests(mac)
        /\ \A w \in Workers : d[w].msg.mac = mac => d[w].pc \in {"idle", "get", "renew"}

OrderlyInv == ServerInv /\ TrafficInv /\ HandInv /\ BoundInv

\* A client that sends has nothing else under way.
LEMMA SendAlone ==
    ASSUME Orderly, TrafficInv, ServerInv, NEW mac \in MACs, NEW m, Send(mac, m)
    PROVE  /\ net' = [net EXCEPT ![mac] = {m}]
           /\ m.type # "decline"
           /\ UNCHANGED <<lease, byIP, byClient, available, d, devices>>
<1>1. ASSUME NEW x \in Messages, net[mac] = {x}
      PROVE  FALSE
  <2>1. Cardinality(net[mac]) = 1
    BY <1>1, FS_Singleton
  <2> QED
    BY <2>1 DEF Send, Orderly
<1>2. net[mac] = {} /\ net \in [MACs -> SUBSET Messages]
  BY <1>1 DEF TrafficInv, ServerInv, ServerTypeOK
<1> QED
  BY <1>2 DEF Send, Orderly

\* What a client may do: stay, give up, or send; what it sends while it cares
\* for an address is a REQUEST.
LEMMA ClientMove ==
    ASSUME Orderly, OrderlyInv, NEW mac \in MACs, ClientStep(mac)
    PROVE  /\ UNCHANGED <<lease, byIP, byClient, available, d, devices>>
           /\ \A n \in MACs \ {mac} : client'[n] = client[n] /\ net'[n] = net[n]
           /\ \/ client'[mac] = client[mac]
              \/ client'[mac].st = "init"
              \/ client'[mac].st = "offered" /\ OnlyRequests(mac)'
           /\ \/ net'[mac] \subseteq net[mac]
              \/ \E m \in Messages :
                    /\ net'[mac] = {m}
                    /\ m.mac = mac /\ m.type # "decline"
                    /\ m.type = "request" \/ client'[mac].st = "init"
<1>0. /\ net \in [MACs -> SUBSET Messages]
      /\ client \in [MACs -> [st : {"init", "offered", "bound"}, ip : IPs \cup {Nil}]]
      /\ TrafficInv /\ ServerInv /\ Hints \subseteq IPs /\ client[mac].ip \in IPs \cup {Nil}
  BY ServerAssumption DEF OrderlyInv, ServerInv, ServerTypeOK
\* A client that sends.
<1>1. ASSUME NEW t \in {"discover", "request", "release", "decline"},
             NEW ci \in IPs \cup {Nil}, NEW o \in IPs \cup {Nil}, NEW s \in ToServer,
             Send(mac, Message(t, mac, ci, o, s)),
             t # "request" => client'[mac].st = "init"
      PROVE  /\ UNCHANGED <<lease, byIP, byClient, available, d, devices>>
             /\ \A n \in MACs \ {mac} : net'[n] = net[n]
             /\ \E m \in Messages : /\ net'[mac] = {m}
                                    /\ m.mac = mac /\ m.type # "decline"
                                    /\ m.type = "request" \/ client'[mac].st = "init"
             /\ t = "request" => OnlyRequests(mac)'
  <2> DEFINE m == Message(t, mac, ci, o, s)
  <2>1. m \in Messages /\ m.mac = mac /\ m.type = t
    BY DEF Message, Messages
  <2> HIDE DEF m
  <2>2. /\ net' = [net EXCEPT ![mac] = {m}] /\ t # "decline"
        /\ UNCHANGED <<lease, byIP, byClient, available, d, devices>>
    BY <1>0, <1>1, <2>1, SendAlone DEF m
  <2>3. net'[mac] = {m} /\ \A n \in MACs \ {mac} : net'[n] = net[n]
    BY <1>0, <2>2
  <2> QED
    BY <1>1, <2>1, <2>2, <2>3 DEF OnlyRequests
<1>2. ToServer = {"this", "other", "none"} /\ Unbound.st = "init"
  BY DEF ToServer, Unbound
<1>3. CASE \E hint \in Hints \cup {Nil} : SendDiscover(mac, hint)
  <2>1. PICK hint \in IPs \cup {Nil} : SendDiscover(mac, hint)
    BY <1>0, <1>3
  <2>2. client' = client /\ client'[mac].st = "init"
    BY <2>1 DEF SendDiscover
  <2> QED
    BY <1>1, <1>2, <2>1, <2>2 DEF SendDiscover
<1>4. CASE \E server \in {"this", "other"} : SendRequest(mac, server)
  BY <1>0, <1>1, <1>2, <1>4 DEF SendRequest
<1>5. CASE \E ip \in Hints : SendReboot(mac, ip)
  <2>1. PICK ip \in IPs : SendReboot(mac, ip)
    BY <1>0, <1>5
  <2>2. client' = [client EXCEPT ![mac] = [st |-> "offered", ip |-> ip]]
    BY <2>1 DEF SendReboot
  <2>3. client'[mac].st = "offered" /\ \A n \in MACs \ {mac} : client'[n] = client[n]
    BY <1>0, <2>2
  <2> QED
    BY <1>1, <1>2, <2>1, <2>3 DEF SendReboot
<1>6. CASE SendRenew(mac)
  BY <1>0, <1>1, <1>2, <1>6 DEF SendRenew
<1>7. CASE SendRelease(mac) \/ SendDecline(mac)
  <2>1. client' = [client EXCEPT ![mac] = Unbound]
    BY <1>7 DEF SendRelease, SendDecline
  <2>2. client'[mac].st = "init" /\ \A n \in MACs \ {mac} : client'[n] = client[n]
    BY <1>0, <1>2, <2>1
  <2> QED
    BY <1>0, <1>1, <1>2, <1>7, <2>2 DEF SendRelease, SendDecline
<1>8. CASE Forget(mac)
  <2>1. client'[mac].st = "init" /\ \A n \in MACs \ {mac} : client'[n] = client[n]
    BY <1>0, <1>2, <1>8 DEF Forget
  <2> QED
    BY <1>8, <2>1 DEF Forget
<1>9. CASE Lose(mac)
  BY <1>0, <1>9 DEF Lose
<1> QED
  BY <1>3, <1>4, <1>5, <1>6, <1>7, <1>8, <1>9 DEF ClientStep

LEMMA ClientKeeps ==
    ASSUME Orderly, OrderlyInv, NEW mac \in MACs, ClientStep(mac)
    PROVE  TrafficInv' /\ HandInv' /\ BoundInv'
<1>0. /\ net \in [MACs -> SUBSET Messages] /\ TrafficInv /\ HandInv /\ BoundInv /\ ServerInv
      /\ \A w \in Workers : d[w].pc # "idle" => d[w].msg.mac \in MACs
  BY WorkerID DEF OrderlyInv, ServerInv, ServerTypeOK
<1>1. /\ UNCHANGED d
      /\ \A n \in MACs \ {mac} : client'[n] = client[n] /\ net'[n] = net[n]
      /\ \/ client'[mac] = client[mac]
         \/ client'[mac].st = "init"
         \/ client'[mac].st = "offered" /\ OnlyRequests(mac)'
      /\ \/ net'[mac] \subseteq net[mac]
         \/ \E m \in Messages :
               /\ net'[mac] = {m}
               /\ m.mac = mac /\ m.type # "decline"
               /\ m.type = "request" \/ client'[mac].st = "init"
  BY ClientMove
<1>2. \A ip \in IPs : AddressOf(ip)' = AddressOf(ip)
  BY ClientMove, UnchangedView DEF Addresses
<1>3. TrafficInv'
  BY <1>0, <1>1 DEF TrafficInv
<1>4. client'[mac] = client[mac] /\ client[mac].st # "init" /\ OnlyRequests(mac)
      => OnlyRequests(mac)'
  BY <1>1 DEF OnlyRequests
<1>5. \A n \in MACs \ {mac} : OnlyRequests(n) => OnlyRequests(n)'
  BY <1>1 DEF OnlyRequests
<1>6. HandInv'
  BY <1>0, <1>1, <1>4, <1>5 DEF HandInv
<1>7. BoundInv'
  <2> SUFFICES ASSUME NEW n \in MACs, client'[n].st = "bound"
               PROVE  /\ client'[n] = client[n]
                      /\ OnlyRequests(n) => OnlyRequests(n)'
    BY <1>0, <1>1, <1>2 DEF BoundInv, Bound
  <2> QED
    BY <1>1, <1>4, <1>5
<1> QED
  BY <1>3, <1>6, <1>7

\* The server takes a message: none of that client is under way any more.
LEMMA TakeKeeps ==
    ASSUME Orderly, OrderlyInv, NEW w \in Workers,
           NEW mac \in MACs, NEW m \in net[mac], handlePacket(w, m)
    PROVE  TrafficInv' /\ HandInv' /\ BoundInv'
<1>0. /\ net \in [MACs -> SUBSET Messages] /\ TrafficInv /\ HandInv /\ BoundInv /\ ServerInv
      /\ \A v \in Workers : v = w
  BY DEF OrderlyInv, ServerInv, ServerTypeOK, Orderly, OneWorker
<1>1. m.mac = mac /\ m.type # "decline" /\ net[mac] = {m}
  BY <1>0 DEF TrafficInv
<1>2. net' = [net EXCEPT ![mac] = @ \ {m}] /\ UNCHANGED <<lease, byIP, byClient, available, client>>
  BY <1>1 DEF handlePacket, Orderly
<1>3. net'[mac] = {} /\ \A n \in MACs \ {mac} : net'[n] = net[n]
  BY <1>0, <1>1, <1>2
<1>4. /\ d'[w].msg = m /\ d'[w].pc # "decline"
      /\ d'[w].pc \in {"get", "renew"} => m.type = "request"
      /\ m.type = "request" => d'[w].pc = "get"
  BY <1>0, <1>1, PacketTaken
<1>5. TrafficInv'
  BY <1>0, <1>3 DEF TrafficInv
<1>6. \A n \in MACs : OnlyRequests(n) => OnlyRequests(n)'
  BY <1>3 DEF OnlyRequests
<1>7. HandInv'
  BY <1>0, <1>1, <1>3, <1>4 DEF HandInv, OnlyRequests
<1>8. \A ip \in IPs : AddressOf(ip)' = AddressOf(ip)
  BY <1>2, UnchangedView DEF Addresses
<1>9. BoundInv'
  BY <1>0, <1>1, <1>2, <1>4, <1>6, <1>8 DEF BoundInv, Bound, OnlyRequests
<1> QED
  BY <1>5, <1>7, <1>9

\* What the API, the reaper and the clock do leaves the lease of a bound client
\* alone: it is neither reserved nor late.
LEMMA OthersKeep ==
    ASSUME Orderly, OrderlyInv, UNCHANGED <<d, net>>,
           \/ \E mac \in Devices, i \in IPs : AddDevice(mac, i)
           \/ \E mac \in Devices : AddDynamicDevice(mac) \/ DeleteDevice(mac)
           \/ \E i \in IPs : DeadlinePasses(i)
           \/ SweepExpired \/ SweepDeclined
           \/ UNCHANGED vars
    PROVE  TrafficInv' /\ HandInv' /\ BoundInv'
<1>0. /\ StoreInv /\ TrafficInv /\ HandInv /\ BoundInv /\ ServerInv
      /\ client \in [MACs -> [st : {"init", "offered", "bound"}, ip : IPs \cup {Nil}]]
      /\ \A w \in Workers : d[w].pc # "idle" => d[w].msg.mac \in MACs
      /\ Unbound.st = "init"
  BY WorkerID DEF OrderlyInv, ServerInv, ServerTypeOK, Unbound
<1>1. TrafficInv'
  BY <1>0 DEF TrafficInv
<1>2. ASSUME \A mac \in MACs : client'[mac] = client[mac] \/ client'[mac].st = "init",
             \A ip \in IPs :
                \/ AddressOf(ip)' = AddressOf(ip)
                \/ \A mac \in MACs : client'[mac].st = "bound" => client[mac].ip # ip
      PROVE  HandInv' /\ BoundInv'
  <2>1. \A mac \in MACs : OnlyRequests(mac)' <=> OnlyRequests(mac)
    BY DEF OnlyRequests
  <2>2. HandInv'
    BY <1>0, <1>2, <2>1 DEF HandInv
  <2>3. BoundInv'
    BY <1>0, <1>2, <2>1 DEF BoundInv, Bound
  <2> QED
    BY <2>2, <2>3
\* No bound client has an address that is reserved, vacant or late.
<1>3. ASSUME NEW mac \in MACs, client[mac].st = "bound"
      PROVE  /\ AddressOf(client[mac].ip).phase = "bound"
             /\ AddressOf(client[mac].ip).holder = PacketID[mac]
             /\ ~AddressOf(client[mac].ip).late
  <2>1. AddressOf(client[mac].ip) = Bound(mac)
    BY <1>0, <1>3 DEF BoundInv
  <2>2. Bound(mac).phase = "bound" /\ Bound(mac).holder = PacketID[mac] /\ ~Bound(mac).late
    BY DEF Bound
  <2> QED
    BY <2>1, <2>2
<1>4. ASSUME UNCHANGED client,
             \A ip \in IPs : \/ AddressOf(ip)' = AddressOf(ip)
                            \/ AddressOf(ip).phase # "bound"
                            \/ AddressOf(ip).late
      PROVE  HandInv' /\ BoundInv'
  BY <1>2, <1>3, <1>4
<1>5. ASSUME NEW mac \in Devices, NEW i \in IPs, AddDevice(mac, i)
      PROVE  HandInv' /\ BoundInv'
  <2>1. DeviceID[mac] \in ClientIDs /\ UNCHANGED client
    BY <1>5, ServerAssumption DEF AddDevice, ClientIDs
  <2>2. CASE Reserve(DeviceID[mac], i)
    BY <1>0, <1>4, <2>1, <2>2, ReserveAt
  <2>3. CASE UNCHANGED <<lease, byIP, byClient, available>>
    BY <1>4, <2>1, <2>3, UnchangedView DEF Addresses
  <2> QED
    BY <1>5, <2>2, <2>3 DEF AddDevice
<1>6. ASSUME NEW mac \in Devices, DeleteDevice(mac)
      PROVE  HandInv' /\ BoundInv'
  <2>1. UNCHANGED client
    BY <1>6 DEF DeleteDevice
  <2>2. ASSUME NEW i \in IPs, Unreserve(i)
        PROVE  HandInv' /\ BoundInv'
    BY <1>0, <1>4, <2>1, <2>2, UnreserveAt
  <2>3. CASE UNCHANGED <<lease, byIP, byClient, available>>
    BY <1>4, <2>1, <2>3, UnchangedView DEF Addresses
  <2> QED
    BY <1>6, <2>2, <2>3 DEF DeleteDevice
<1>7. ASSUME NEW i \in IPs, DeadlinePasses(i)
      PROVE  HandInv' /\ BoundInv'
  <2>1. /\ Elapse(i)
        /\ \A ip \in IPs \ {i} : AddressOf(ip)' = AddressOf(ip)
    BY <1>0, <1>7, ElapseAt DEF DeadlinePasses
  <2>2. ASSUME NEW mac \in MACs
        PROVE  client'[mac] = client[mac] \/ client'[mac].st = "init"
    BY <1>0, <1>7 DEF DeadlinePasses
  <2>3. ASSUME NEW mac \in MACs, client'[mac].st = "bound", client[mac].ip = i
        PROVE  FALSE
    <3>1. client[mac].st = "bound" /\ client[mac] = [st |-> "bound", ip |-> i]
      BY <1>0, <2>2, <2>3
    <3>2. OwnedBy(i, PacketID[mac])
      BY <1>0, <1>3, <2>3, <3>1, OwnedView
    <3>3. client'[mac] = Unbound
      BY <1>7, <3>1, <3>2 DEF DeadlinePasses
    <3> QED
      BY <1>0, <2>3, <3>3
  <2> QED
    BY <1>2, <2>1, <2>2, <2>3
<1>8. CASE SweepExpired \/ SweepDeclined
  <2>1. UNCHANGED client /\ (Expired \/ Declined)
    BY <1>8 DEF SweepExpired, SweepDeclined
  <2> QED
    BY <1>0, <1>1, <1>4, <2>1, ReaperAt
<1>9. ASSUME UNCHANGED <<lease, byIP, byClient, available, client>>
      PROVE  HandInv' /\ BoundInv'
  BY <1>4, <1>9, UnchangedView DEF Addresses
<1> QED
  BY <1>1, <1>5, <1>6, <1>7, <1>8, <1>9 DEF AddDynamicDevice, vars

\* How a handler goes on: the DISCOVER's calls lead to the DISCOVER's calls,
\* and Get to Renew.
LEMMA HandlerMove ==
    ASSUME ServerInv, NEW w \in Workers,
           \/ Prefer(w) \/ AllocatePreferred(w) \/ PickNext(w) \/ AllocateNext(w)
           \/ GetForRequest(w) \/ RenewForRequest(w) \/ handleRelease(w) \/ handleDecline(w)
    PROVE  /\ UNCHANGED net
           /\ \/ d'[w].pc = "idle"
              \/ /\ d'[w].msg = d[w].msg
                 /\ \/ /\ d[w].pc \notin {"idle", "get", "renew"}
                       /\ d'[w].pc \in {"allocate", "next", "allocateNext"}
                    \/ d[w].pc = "get" /\ d'[w].pc = "renew" /\ UNCHANGED client
<1>0. d \in [Workers -> Locals] /\ Idle.pc = "idle"
  BY DEF ServerInv, ServerTypeOK, Locals, Idle
<1>1. UNCHANGED net
  BY DEF Prefer, AllocatePreferred, OfferIP, PickNext, AllocateNext,
         GetForRequest, RenewForRequest, handleRelease, handleDecline
<1>2. Finish(w) => d'[w].pc = "idle"
  BY <1>0 DEF Finish
<1>3. CASE Prefer(w)
  <2>1. PICK x : d' = [d EXCEPT ![w].ip = x,
                                ![w].pc = IF x = Nil THEN "next" ELSE "allocate"]
    BY <1>3 DEF Prefer
  <2>2. d'[w].msg = d[w].msg /\ d'[w].pc \in {"allocate", "next"}
    BY <1>0, <2>1 DEF Locals
  <2> QED
    BY <1>1, <1>3, <2>2 DEF Prefer
<1>4. CASE AllocatePreferred(w)
  <2>1. CASE OfferIP(w)
    BY <1>1, <1>2, <2>1 DEF OfferIP
  <2>2. CASE Go(w, "next")
    <3>1. d'[w].msg = d[w].msg /\ d'[w].pc = "next"
      BY <1>0, <2>2 DEF Go, Locals
    <3> QED
      BY <1>1, <1>4, <3>1 DEF AllocatePreferred
  <2> QED
    BY <1>4, <2>1, <2>2 DEF AllocatePreferred
<1>5. CASE PickNext(w)
  <2>1. CASE d' = [d EXCEPT ![w].ip = Head(available), ![w].pc = "allocateNext"]
    <3>1. d'[w].msg = d[w].msg /\ d'[w].pc = "allocateNext"
      BY <1>0, <2>1 DEF Locals
    <3> QED
      BY <1>1, <1>5, <3>1 DEF PickNext
  <2> QED
    BY <1>1, <1>2, <1>5, <2>1 DEF PickNext
<1>6. CASE AllocateNext(w)
  BY <1>1, <1>2, <1>6 DEF AllocateNext, OfferIP
<1>7. CASE GetForRequest(w)
  <2>1. \/ Finish(w)
        \/ /\ UNCHANGED client
           /\ d' = [d EXCEPT ![w].ip = RequestedIP(d[w].msg), ![w].pc = "renew",
                             ![w].renewal = InState(RequestedIP(d[w].msg), {"bound"})]
    BY <1>7 DEF GetForRequest
  <2>2. d[w].pc = "get"
    BY <1>7 DEF GetForRequest
  <2>3. CASE /\ UNCHANGED client
             /\ d' = [d EXCEPT ![w].ip = RequestedIP(d[w].msg), ![w].pc = "renew",
                               ![w].renewal = InState(RequestedIP(d[w].msg), {"bound"})]
    <3>1. d'[w].msg = d[w].msg /\ d'[w].pc = "renew"
      BY <1>0, <2>3 DEF Locals
    <3> QED
      BY <1>1, <2>2, <2>3, <3>1
  <2> QED
    BY <1>1, <1>2, <2>1, <2>2, <2>3
<1>8. CASE RenewForRequest(w) \/ handleRelease(w) \/ handleDecline(w)
  BY <1>1, <1>2, <1>8 DEF RenewForRequest, handleRelease, handleDecline
<1> QED
  BY <1>3, <1>4, <1>5, <1>6, <1>7, <1>8

\* The answer to a REQUEST: an ACK binds the client that asked, and a client
\* that was bound keeps its lease.
LEMMA RenewBinds ==
    ASSUME Orderly, OrderlyInv, NEW w \in Workers, RenewForRequest(w),
           NEW n \in MACs, client'[n].st = "bound"
    PROVE  /\ \E ip \in IPs : client'[n].ip = ip /\ AddressOf(ip)' = Bound(n)
           /\ client[n].st = "bound" \/ (n = d[w].msg.mac /\ client[n].st # "init")
<1>0. /\ StoreInv /\ BoundInv /\ ServerInv
      /\ client \in [MACs -> [st : {"init", "offered", "bound"}, ip : IPs \cup {Nil}]]
      /\ Unbound.st = "init"
  BY DEF OrderlyInv, ServerInv, ServerTypeOK, Unbound
<1>1. PICK mac \in MACs : mac = d[w].msg.mac
  BY <1>0, WorkerID DEF RenewForRequest
<1>2. PICK i \in IPs : i = d[w].ip
  BY <1>0 DEF RenewForRequest, ServerInv, Control
<1>3. PacketID[mac] \in Clients
  BY ServerAssumption
<1>4. ASSUME client[n].st = "bound"
      PROVE  client[n].ip \in IPs /\ AddressOf(client[n].ip) = Bound(n)
  BY <1>0, <1>4 DEF BoundInv
<1>5. CASE Renew(PacketID[mac], i) /\ Ack(mac, i)
  <2>1. /\ AddressOf(i).holder = PacketID[mac]
        /\ AddressOf(i)' = Bound(mac)
        /\ \A ip \in IPs \ {i} : AddressOf(ip)' = AddressOf(ip)
    BY <1>0, <1>3, <1>5, RenewAt DEF Bound
  <2>2. \/ client' = client
        \/ /\ client[mac].st # "init" /\ client[mac].ip = i
           /\ client' = [client EXCEPT ![mac].st = "bound"]
    BY <1>5 DEF Ack
  <2>3. ASSUME client'[n] = client[n]
        PROVE  \E ip \in IPs : client'[n].ip = ip /\ AddressOf(ip)' = Bound(n)
    <3>1. PICK ip \in IPs : ip = client[n].ip /\ AddressOf(ip) = Bound(n)
      BY <1>4, <2>3
    <3>2. ip = i => n = mac
      <4>1. Bound(n).holder = PacketID[n]
        BY DEF Bound
      <4> QED
        BY <2>1, <3>1, <4>1, ServerAssumption DEF IsInjective
    <3> QED
      BY <2>1, <2>3, <3>1, <3>2
  <2>4. CASE client' = client
    BY <2>3, <2>4
  <2>5. CASE /\ client[mac].st # "init" /\ client[mac].ip = i
             /\ client' = [client EXCEPT ![mac].st = "bound"]
    <3>1. CASE n = mac
      <4>1. client'[n].ip = i
        BY <1>0, <2>5, <3>1
      <4> QED
        BY <1>1, <2>1, <2>5, <3>1, <4>1
    <3>2. CASE n # mac
      BY <1>0, <2>3, <2>5, <3>2
    <3> QED
      BY <3>1, <3>2
  <2> QED
    BY <2>2, <2>4, <2>5
<1>6. CASE Nak(mac, i) /\ UNCHANGED <<lease, byIP, byClient, available>>
  <2>1. client'[n] = client[n]
    BY <1>0, <1>6 DEF Nak
  <2>2. PICK ip \in IPs : ip = client[n].ip /\ AddressOf(ip) = Bound(n)
    BY <1>4, <2>1
  <2>3. AddressOf(ip)' = AddressOf(ip)
    BY <1>6, UnchangedView DEF Addresses
  <2> QED
    BY <2>1, <2>2, <2>3
<1> QED
  BY <1>1, <1>2, <1>5, <1>6 DEF RenewForRequest

\* Every other call of a handler: a bound client is another client than the one
\* the handler serves, or the handler only looks.
LEMMA OtherCallsKeep ==
    ASSUME Orderly, OrderlyInv, NEW w \in Workers,
           \/ Prefer(w) \/ AllocatePreferred(w) \/ PickNext(w) \/ AllocateNext(w)
           \/ GetForRequest(w) \/ handleRelease(w) \/ handleDecline(w),
           NEW n \in MACs, client'[n].st = "bound"
    PROVE  /\ \E ip \in IPs : client'[n].ip = ip /\ AddressOf(ip)' = Bound(n)
           /\ client[n].st = "bound"
<1>0. /\ StoreInv /\ BoundInv /\ ServerInv /\ HandInv
      /\ client \in [MACs -> [st : {"init", "offered", "bound"}, ip : IPs \cup {Nil}]]
      /\ Unbound.st = "init"
  BY DEF OrderlyInv, ServerInv, ServerTypeOK, Unbound
<1>1. client'[n] = client[n]
  <2>1. UNCHANGED client \/ \E mac, ip : Offer(mac, ip) \/ Nak(mac, ip)
    BY DEF Prefer, AllocatePreferred, OfferIP, PickNext, AllocateNext, GetForRequest,
           handleRelease, handleDecline
  <2>2. ASSUME NEW mac, NEW ip, Offer(mac, ip) \/ Nak(mac, ip)
        PROVE  client'[n] = client[n]
    BY <1>0, <2>2 DEF Offer, Nak
  <2> QED
    BY <2>1, <2>2
<1>2. PICK ip \in IPs : ip = client[n].ip /\ AddressOf(ip) = Bound(n)
  BY <1>0, <1>1 DEF BoundInv
<1>3. AddressOf(ip).phase = "bound" /\ AddressOf(ip).holder = PacketID[n]
  BY <1>2 DEF Bound
<1>4. d[w].msg.mac = n => d[w].pc \in {"idle", "get", "renew"}
  BY <1>0, <1>1 DEF BoundInv
<1>5. ASSUME d[w].pc \notin {"idle", "get", "renew"}
      PROVE  PacketID[d[w].msg.mac] # AddressOf(ip).holder
  BY <1>0, <1>3, <1>4, <1>5, WorkerID, ServerAssumption DEF IsInjective
<1>6. ASSUME UNCHANGED <<lease, byIP, byClient, available>>
      PROVE  AddressOf(ip)' = AddressOf(ip)
  BY <1>6, UnchangedView DEF Addresses
<1>7. ASSUME AddressOf(ip)' = AddressOf(ip)
      PROVE  /\ \E i \in IPs : client'[n].ip = i /\ AddressOf(i)' = Bound(n)
             /\ client[n].st = "bound"
  BY <1>1, <1>2, <1>7
<1>8. CASE Prefer(w) \/ GetForRequest(w)
  BY <1>6, <1>7, <1>8 DEF Prefer, GetForRequest
<1>9. CASE PickNext(w)
  <2>1. NextAvailable => AddressOf(ip)' = AddressOf(ip)
    BY <1>0, NextAvailableRefines DEF Addresses
  <2> QED
    BY <1>6, <1>7, <1>9, <2>1 DEF PickNext
<1>10. CASE AllocatePreferred(w) \/ AllocateNext(w)
  <2>1. CASE OfferIP(w)
    <3>1. d[w].pc \in {"allocate", "allocateNext"}
      BY <1>10 DEF AllocatePreferred, AllocateNext
    <3>2. PICK c \in Clients, i \in IPs : c = PacketID[d[w].msg.mac] /\ Allocate(c, i)
      BY <1>0, <2>1, <3>1, WorkerID DEF OfferIP, ServerInv, Control
    <3>3. c # AddressOf(ip).holder
      BY <1>5, <3>1, <3>2
    <3>4. AddressOf(ip)' = AddressOf(ip)
      BY <1>0, <1>3, <3>2, <3>3, AllocateAt
    <3> QED
      BY <1>7, <3>4
  <2> QED
    BY <1>6, <1>7, <1>10, <2>1 DEF AllocatePreferred, AllocateNext
<1>11. CASE handleRelease(w)
  <2>1. CASE d[w].msg.ciaddr # Nil /\ Release(PacketID[d[w].msg.mac], d[w].msg.ciaddr)
    <3>1. d[w].pc = "release" /\ d[w].msg \in Messages
      BY <1>0, <1>11, WorkerID DEF handleRelease
    <3>2. PICK c \in Clients, i \in IPs : c = PacketID[d[w].msg.mac] /\ Release(c, i)
      BY <1>0, <2>1, <3>1, WorkerID DEF Messages
    <3>3. c # AddressOf(ip).holder
      BY <1>5, <3>1, <3>2
    <3>4. AddressOf(ip)' = AddressOf(ip)
      BY <1>0, <3>2, <3>3, ReleaseAt
    <3> QED
      BY <1>7, <3>4
  <2> QED
    BY <1>6, <1>7, <1>11, <2>1 DEF handleRelease
<1>12. CASE handleDecline(w)
  BY <1>0, <1>12 DEF handleDecline, HandInv
<1> QED
  BY <1>8, <1>9, <1>10, <1>11, <1>12

LEMMA HandlerKeeps ==
    ASSUME Orderly, OrderlyInv, NEW w \in Workers, Dispatch(w)
    PROVE  TrafficInv' /\ HandInv' /\ BoundInv'
<1>0. /\ TrafficInv /\ HandInv /\ BoundInv /\ ServerInv
      /\ \A v \in Workers : v = w
      /\ d[w].pc # "idle" => d[w].msg.mac \in MACs
  BY WorkerID DEF OrderlyInv, Orderly, OneWorker
<1>1. CASE \E mac \in MACs : \E m \in net[mac] : handlePacket(w, m)
  BY <1>1, TakeKeeps
<1>2. CASE \/ Prefer(w) \/ AllocatePreferred(w) \/ PickNext(w) \/ AllocateNext(w)
           \/ GetForRequest(w) \/ RenewForRequest(w) \/ handleRelease(w) \/ handleDecline(w)
  <2>1. /\ UNCHANGED net
        /\ \/ d'[w].pc = "idle"
           \/ /\ d'[w].msg = d[w].msg
              /\ \/ /\ d[w].pc \notin {"idle", "get", "renew"}
                    /\ d'[w].pc \in {"allocate", "next", "allocateNext"}
                 \/ d[w].pc = "get" /\ d'[w].pc = "renew" /\ UNCHANGED client
    BY <1>0, <1>2, HandlerMove
  <2>2. TrafficInv'
    BY <1>0, <2>1 DEF TrafficInv
  <2>3. \A mac \in MACs : OnlyRequests(mac)' <=> OnlyRequests(mac)
    BY <2>1 DEF OnlyRequests
  <2>4. HandInv'
    BY <1>0, <2>1, <2>3 DEF HandInv
  <2>5. ASSUME NEW n \in MACs, client'[n].st = "bound"
        PROVE  /\ \E ip \in IPs : client'[n].ip = ip /\ AddressOf(ip)' = Bound(n)
               /\ client[n].st = "bound"
                  \/ (RenewForRequest(w) /\ n = d[w].msg.mac /\ client[n].st # "init")
    BY <1>2, <2>5, RenewBinds, OtherCallsKeep
  <2>6. ASSUME NEW n \in MACs, client'[n].st = "bound"
        PROVE  OnlyRequests(n)'
    BY <1>0, <2>3, <2>5, <2>6 DEF BoundInv, HandInv, RenewForRequest
  <2>7. ASSUME NEW n \in MACs, client'[n].st = "bound", d'[w].msg.mac = n
        PROVE  d'[w].pc \in {"idle", "get", "renew"}
    BY <1>0, <2>1, <2>5, <2>7 DEF BoundInv, RenewForRequest
  <2>8. BoundInv'
    BY <1>0, <2>5, <2>6, <2>7 DEF BoundInv, Bound
  <2> QED
    BY <2>2, <2>4, <2>8
<1> QED
  BY <1>1, <1>2 DEF Dispatch

LEMMA OrderlyNextInv ==
    ASSUME Orderly, OrderlyInv, [Next]_vars
    PROVE  TrafficInv' /\ HandInv' /\ BoundInv'
<1>1. ASSUME NEW w \in Workers, Dispatch(w)
      PROVE  TrafficInv' /\ HandInv' /\ BoundInv'
  BY <1>1, HandlerKeeps
<1>2. ASSUME NEW mac \in MACs, ClientStep(mac)
      PROVE  TrafficInv' /\ HandInv' /\ BoundInv'
  BY <1>2, ClientKeeps
<1>3. ASSUME \/ \E mac \in Devices, i \in IPs : AddDevice(mac, i)
             \/ \E mac \in Devices : AddDynamicDevice(mac) \/ DeleteDevice(mac)
             \/ \E i \in IPs : DeadlinePasses(i)
             \/ SweepExpired \/ SweepDeclined
             \/ UNCHANGED vars
      PROVE  TrafficInv' /\ HandInv' /\ BoundInv'
  <2>1. UNCHANGED <<d, net>>
    BY <1>3 DEF AddDevice, AddDynamicDevice, DeleteDevice, DeadlinePasses, SweepExpired,
                SweepDeclined, vars
  <2> QED
    BY <1>3, <2>1, OthersKeep
<1> QED
  BY <1>1, <1>2, <1>3, ServerAssumption DEF Next

LEMMA OrderlyInvariant == ASSUME Orderly PROVE Spec => []OrderlyInv
<1>1. Init => TrafficInv /\ HandInv /\ BoundInv
  BY DEF Init, TrafficInv, HandInv, BoundInv, Idle, Unbound
<1>2. /\ ServerInv /\ ServerInv' /\ TrafficInv /\ HandInv /\ BoundInv /\ [Next]_vars
      => TrafficInv' /\ HandInv' /\ BoundInv'
  BY OrderlyNextInv DEF OrderlyInv
<1> QED
  BY <1>1, <1>2, ServerInvariant, PTL DEF Spec, OrderlyInv

\* On an orderly network a client that holds an ACK, and neither let it go nor
\* outlived it, has the lease in the store, bound and under its identifier: no
\* order of handler calls, sweeps and API calls takes it away.
THEOREM ServerAckedIsBound == ASSUME Orderly PROVE Spec => []AckedIsBound
<1>1. OrderlyInv => AckedIsBound
  <2> SUFFICES ASSUME OrderlyInv, NEW mac \in MACs, client[mac].st = "bound"
               PROVE  /\ OwnedBy(client[mac].ip, PacketID[mac])
                      /\ InState(client[mac].ip, {"bound"})
    BY DEF AckedIsBound
  <2>1. PICK ip \in IPs : ip = client[mac].ip /\ AddressOf(ip) = Bound(mac)
    BY DEF OrderlyInv, BoundInv
  <2>2. AddressOf(ip).phase = "bound" /\ AddressOf(ip).holder = PacketID[mac]
    BY <2>1 DEF Bound
  <2> QED
    BY <2>1, <2>2, OwnedView, InStateView DEF OrderlyInv, ServerInv, States
<1> QED
  BY <1>1, OrderlyInvariant, PTL

\* On an orderly network the Renew that follows a bound client's Get succeeds,
\* so the client is not refused and stays bound.
THEOREM ServerBoundNeverNaked == ASSUME Orderly PROVE Spec => BoundNeverNaked
<1>1. OrderlyInv /\ [Next]_vars => [AnswersRenewal]_vars
  <2> SUFFICES ASSUME OrderlyInv, [Next]_vars,
                      NEW w \in Workers, d[w].pc = "renew", d'[w].pc = "idle",
                      client[d[w].msg.mac] = [st |-> "bound", ip |-> d[w].ip]
               PROVE  client'[d[w].msg.mac] = client[d[w].msg.mac]
    BY DEF AnswersRenewal
  <2>0. /\ ServerInv /\ StoreInv /\ BoundInv /\ \A v \in Workers : v = w
        /\ d \in [Workers -> Locals]
        /\ client \in [MACs -> [st : {"init", "offered", "bound"}, ip : IPs \cup {Nil}]]
    BY DEF OrderlyInv, ServerInv, ServerTypeOK, Locals, Orderly, OneWorker
  <2>1. PICK mac \in MACs : mac = d[w].msg.mac
    BY <2>0, WorkerID
  <2>2. PICK ip \in IPs : ip = d[w].ip
    BY <2>0 DEF ServerInv, Control
  <2>3. RenewOK(PacketID[mac], ip)
    <3>1. AddressOf(ip) = Bound(mac)
      BY <2>0, <2>1, <2>2 DEF BoundInv
    <3>2. AddressOf(ip).phase = "bound" /\ AddressOf(ip).holder = PacketID[mac]
      BY <3>1 DEF Bound
    <3> QED
      BY <2>0, <3>2, OwnedView, InStateView DEF RenewOK, States
  <2>4. RenewForRequest(w)
    <3>1. Dispatch(w)
      BY <2>0, StepCases
    <3> QED
      BY <3>1 DEF Dispatch, handlePacket, Prefer, AllocatePreferred, PickNext, AllocateNext,
                  GetForRequest, handleRelease, handleDecline
  <2>5. Ack(mac, ip)
    BY <2>1, <2>2, <2>3, <2>4 DEF RenewForRequest
  <2> QED
    BY <2>0, <2>1, <2>2, <2>5 DEF Ack
<1> QED
  BY <1>1, OrderlyInvariant, PTL DEF BoundNeverNaked, Spec

=============================================================================
