---------------------------- MODULE SubnetManager ----------------------------
(***************************************************************************)
(* The set of active subnets (internal/subnet/manager.go) under everything *)
(* that holds a store beyond the manager's lock: the packet in the dispatch *)
(* loop, the ztp manager between SubnetForIP and Reserve, and the reapers. *)
(*                                                                         *)
(* Add makes a new store and Remove drops the table's reference to one;    *)
(* who looked the store up before goes on using it.  A store is abstracted *)
(* to the phase of each address, and to whether its deadline has passed;   *)
(* MemoryStore has the rest.  A network is its base address and its size,  *)
(* and contains the addresses that agree with the base above the mask.     *)
(***************************************************************************)
EXTENDS Integers, FiniteSets

CONSTANTS Names,      \* names of subnets
          Networks,   \* the networks that subnets are given
          Addresses,  \* IPv4 addresses
          MACs,       \* hardware addresses of devices
          StaticIPs,  \* the addresses that device records ask for
          Stores,     \* bound: lease stores that Add may create
          ApiAdds,    \* does the API add subnets once the server runs
          Nil

VARIABLES table,      \* [Names -> [net, store], or Nil]
          leases,     \* [Stores -> [Addresses -> phase and lateness]]
          unused,     \* the stores that do not exist yet
          reaped,     \* the stores whose reaper goroutine runs
          starting,   \* the names that Run has still to start a reaper for
          running,    \* has Run listed the subnets
          pkt,        \* the packet in the dispatch loop
          op,         \* the ztp operation that holds the manager's lock
          static      \* [MACs -> StaticIP of the record, or Nil]

vars == <<table, leases, unused, reaped, starting, running, pkt, op, static>>

Contains(n, ip) == ip \div n.size = n.base \div n.size

ASSUME NilAssumption == Nil \notin {"discover", "request", "release", "decline"}

\* What net.ParseCIDR gives: networks that nest or are apart.
ASSUME NetworkAssumption ==
    /\ IsFiniteSet(Addresses)
    /\ StaticIPs \subseteq Addresses
    /\ Networks \subseteq [base : Addresses, size : Nat \ {0}]
    /\ \A m, n \in Networks :
          (\E ip \in Addresses : Contains(m, ip) /\ Contains(n, ip))
          => Contains(m, n.base) \/ Contains(n, m.base)
    /\ \A n \in Networks : Contains(n, n.base)

Phases == {"free", "reserved", "offered", "bound", "declined"}
Held(p) == [phase |-> p, late |-> FALSE]
NewStore == [ip \in Addresses |-> Held("free")]

Phase(s, ip) == leases[s][ip].phase
Late(s, ip) == leases[s][ip].late
OccupiedCount(s) ==
    Cardinality({ip \in Addresses : Phase(s, ip) \in {"reserved", "offered", "bound"}})

Active == {n \in Names : table[n] # Nil}
InTable(s) == \E n \in Active : table[n].store = s

NoPacket == [pc |-> "idle", type |-> Nil, store |-> Nil]
NoOp == [pc |-> "idle", mac |-> Nil, ip |-> Nil, store |-> Nil]

-----------------------------------------------------------------------------
(* Add and Remove, each under the write lock *)

\* Faulty: sees only a new network inside an old one.
overlapsOneWay(a, b) == Contains(a, b.base)

overlaps(a, b) == Contains(a, b.base) \/ Contains(b, a.base)

\* Faulty: hands the same store out again.
AddSharesStore(name, net) ==
    /\ table[name] = Nil
    /\ \A n \in Active : ~overlaps(table[n].net, net)
    /\ \E s \in unused : table' = [table EXCEPT ![name] = [net |-> net, store |-> s]]
    /\ UNCHANGED <<leases, unused, reaped, starting, running, pkt, op, static>>

Add(name, net) ==
    /\ table[name] = Nil
    /\ \A n \in Active : ~overlaps(table[n].net, net)
    /\ \E s \in unused :
          /\ table' = [table EXCEPT ![name] = [net |-> net, store |-> s]]
          /\ unused' = unused \ {s}
    /\ UNCHANGED <<leases, reaped, starting, running, pkt, op, static>>

\* Faulty: does not count the offers.
RemoveOffered(name) ==
    /\ table[name] # Nil
    /\ \A ip \in Addresses : Phase(table[name].store, ip) \notin {"reserved", "bound"}
    /\ table' = [table EXCEPT ![name] = Nil]
    /\ UNCHANGED <<leases, unused, reaped, starting, running, pkt, op, static>>

Remove(name) ==
    /\ table[name] # Nil
    /\ OccupiedCount(table[name].store) = 0
    /\ table' = [table EXCEPT ![name] = Nil]
    /\ UNCHANGED <<leases, unused, reaped, starting, running, pkt, op, static>>

\* The two callers of Add: the process, which loads its configuration before it
\* serves, and the API.
Load(name, net) ==
    /\ ~running
    /\ Add(name, net)

addSubnet(name, net) ==
    /\ ApiAdds
    /\ Add(name, net)

-----------------------------------------------------------------------------
(* Run: list the subnets, look each up again, start its reaper *)

List ==
    /\ ~running
    /\ running' = TRUE
    /\ starting' = Active
    /\ UNCHANGED <<table, leases, unused, reaped, pkt, op, static>>

\* Faulty: starts a reaper that ends at once.
StartNothing(name) ==
    /\ name \in starting
    /\ starting' = starting \ {name}
    /\ UNCHANGED <<table, leases, unused, reaped, running, pkt, op, static>>

Start(name) ==
    /\ name \in starting
    /\ starting' = starting \ {name}
    /\ reaped' = IF table[name] # Nil THEN reaped \cup {table[name].store} ELSE reaped
    /\ UNCHANGED <<table, leases, unused, running, pkt, op, static>>

\* Every reaper runs until the process ends.
Sweep(s) ==
    /\ s \in reaped
    /\ \E ip \in Addresses : Late(s, ip)
    /\ leases' = [leases EXCEPT ![s] =
                    [ip \in Addresses |-> IF @[ip].late THEN Held("free") ELSE @[ip]]]
    /\ UNCHANGED <<table, unused, reaped, starting, running, pkt, op, static>>

Elapse(s, ip) ==
    /\ Phase(s, ip) \in {"offered", "bound", "declined"}
    /\ ~Late(s, ip)
    /\ leases' = [leases EXCEPT ![s][ip].late = TRUE]
    /\ UNCHANGED <<table, unused, reaped, starting, running, pkt, op, static>>

-----------------------------------------------------------------------------
(* A packet: ForPacket, then LookupForPacket, then the handler *)

\* The subnets whose network contains ip: Go's map order decides among them.
Matches(ip) == {n \in Active : Contains(table[n].net, ip)}

ForPacket(type, lookup) ==
    /\ running /\ starting = {}
    /\ pkt.pc = "idle"
    /\ \/ \E n \in Matches(lookup) :
             pkt' = [pc |-> "device", type |-> type, store |-> table[n].store]
       \/ Matches(lookup) = {} /\ UNCHANGED pkt
    /\ UNCHANGED <<table, leases, unused, reaped, starting, running, op, static>>

\* The look-up of the device waits for the ztp manager's lock.
LookupForPacket ==
    /\ pkt.pc = "device"
    /\ op.pc = "idle"
    /\ pkt' = [pkt EXCEPT !.pc = "handle"]
    /\ UNCHANGED <<table, leases, unused, reaped, starting, running, op, static>>

\* The handler moves one address of the store it was given, or none.
Move(ip, from, to) ==
    /\ Phase(pkt.store, ip) \in from
    /\ leases' = [leases EXCEPT ![pkt.store][ip] = Held(to)]

\* An Allocate of a vacant address also drops the lease, old, that the client
\* had in this store; with old = ip, none.
Offer(ip, old) ==
    /\ Phase(pkt.store, ip) \in {"free", "reserved", "offered"}
    /\ old # ip => Phase(pkt.store, ip) = "free"
    /\ leases' = [leases EXCEPT ![pkt.store] =
                    [@ EXCEPT ![old] = Held("free"), ![ip] = Held("offered")]]

Handle(ip) ==
    /\ pkt.pc = "handle"
    /\ pkt' = NoPacket
    /\ \/ pkt.type = "discover" /\ \E old \in Addresses : Offer(ip, old)
       \/ pkt.type = "request"  /\ Move(ip, {"offered", "bound"}, "bound")
       \/ pkt.type = "release"  /\ Move(ip, Phases \ {"free"}, "free")
       \/ pkt.type = "decline"  /\ Move(ip, Phases \ {"free"}, "declined")
       \/ UNCHANGED leases
    /\ UNCHANGED <<table, unused, reaped, starting, running, op, static>>

-----------------------------------------------------------------------------
(* AddDevice and DeleteDevice hold the ztp manager's lock throughout, but  *)
(* the subnet manager's for the look-up only.                              *)

AddDevice(mac, ip) ==
    /\ op.pc = "idle"
    /\ \E n \in Matches(ip) :
          op' = [pc |-> "reserve", mac |-> mac, ip |-> ip, store |-> table[n].store]
    /\ UNCHANGED <<table, leases, unused, reaped, starting, running, pkt, static>>

\* Reserve fails on a lease of another client, and then nothing is written.
AddDeviceReserve ==
    /\ op.pc = "reserve"
    /\ \/ /\ Phase(op.store, op.ip) = "free"
          /\ leases' = [leases EXCEPT ![op.store][op.ip] = Held("reserved")]
          /\ static' = [static EXCEPT ![op.mac] = op.ip]
       \/ /\ Phase(op.store, op.ip) # "free"
          /\ static' \in {static, [static EXCEPT ![op.mac] = op.ip]}
          /\ UNCHANGED leases
    /\ op' = NoOp
    /\ UNCHANGED <<table, unused, reaped, starting, running, pkt>>

\* A record whose address is in no subnet any more is deleted alone.
DeleteDevice(mac) ==
    /\ op.pc = "idle"
    /\ static[mac] # Nil
    /\ IF Matches(static[mac]) = {}
       THEN /\ static' = [static EXCEPT ![mac] = Nil]
            /\ UNCHANGED op
       ELSE /\ \E n \in Matches(static[mac]) :
                  op' = [pc |-> "unreserve", mac |-> mac, ip |-> static[mac],
                         store |-> table[n].store]
            /\ UNCHANGED static
    /\ UNCHANGED <<table, leases, unused, reaped, starting, running, pkt>>

DeleteDeviceUnreserve ==
    /\ op.pc = "unreserve"
    /\ IF Phase(op.store, op.ip) = "reserved"
       THEN /\ leases' = [leases EXCEPT ![op.store][op.ip] = Held("free")]
            /\ static' = [static EXCEPT ![op.mac] = Nil]
       ELSE UNCHANGED <<leases, static>>
    /\ op' = NoOp
    /\ UNCHANGED <<table, unused, reaped, starting, running, pkt>>

-----------------------------------------------------------------------------
Init ==
    /\ table = [n \in Names |-> Nil]
    /\ leases = [s \in Stores |-> NewStore]
    /\ unused = Stores
    /\ reaped = {}
    /\ starting = {}
    /\ running = FALSE
    /\ pkt = NoPacket
    /\ op = NoOp
    /\ static = [mac \in MACs |-> Nil]

Dispatch ==
    \/ \E type \in {"discover", "request", "release", "decline"}, ip \in Addresses :
          ForPacket(type, ip)
    \/ LookupForPacket
    \/ \E ip \in Addresses : Handle(ip)

Next ==
    \/ \E name \in Names, net \in Networks : Load(name, net) \/ addSubnet(name, net)
    \/ \E name \in Names : Remove(name) \/ Start(name)
    \/ List
    \/ \E s \in Stores : Sweep(s)
    \/ \E s \in Stores, ip \in Addresses : Elapse(s, ip)
    \/ Dispatch
    \/ \E mac \in MACs, ip \in StaticIPs : AddDevice(mac, ip)
    \/ AddDeviceReserve
    \/ \E mac \in MACs : DeleteDevice(mac)
    \/ DeleteDeviceUnreserve

Spec == Init /\ [][Next]_vars

\* A reaper that has something to sweep ticks; Run finishes its loop.
FairSpec ==
    /\ Spec
    /\ \A s \in Stores : WF_vars(Sweep(s))
    /\ \A name \in Names : WF_vars(Start(name))
    /\ WF_vars(List)

-----------------------------------------------------------------------------
(* What the subnet manager promises *)

TableTypeOK ==
    /\ table \in [Names -> [net : Networks, store : Stores] \cup {Nil}]
    /\ leases \in [Stores -> [Addresses -> [phase : Phases, late : BOOLEAN]]]
    /\ unused \subseteq Stores
    /\ reaped \subseteq Stores \ unused
    /\ starting \subseteq Names
    /\ running \in BOOLEAN
    /\ pkt \in [pc : {"idle", "device", "handle"}, store : (Stores \ unused) \cup {Nil},
                type : {"discover", "request", "release", "decline", Nil}]
    /\ op \in [pc : {"idle", "reserve", "unreserve"}, mac : MACs \cup {Nil},
               ip : Addresses \cup {Nil}, store : (Stores \ unused) \cup {Nil}]
    /\ static \in [MACs -> Addresses \cup {Nil}]

\* No address is in two active subnets, so ForPacket and SubnetForIP do not
\* depend on the order in which Go ranges over the map.
LookupUnique ==
    \A ip \in Addresses : \A m, n \in Matches(ip) : m = n

\* A bound lease is in the store of an active subnet: no subnet goes while the
\* handler that is about to acknowledge still holds its store.
BoundInTable ==
    \A s \in Stores, ip \in Addresses : Phase(s, ip) = "bound" => InTable(s)

\* A lease of an active subnet that is past its deadline is swept or restarted.
LateEnds ==
    \A s \in Stores, ip \in Addresses :
        (InTable(s) /\ Late(s, ip)) ~> ~(InTable(s) /\ Late(s, ip))

=============================================================================
