---------------------------- MODULE LeaseLifecycle ----------------------------
(***************************************************************************)
(* What a lease store promises about each address, without maps, pointers *)
(* or queues: the life cycle of internal/lease/lease.go and of the store's *)
(* callers.  An address is vacant (free: in the pool; idle: not in it) or  *)
(* in one of the lease states with a holder, and each call moves it along *)
(* an edge.  MemoryStore implements this specification.                    *)
(***************************************************************************)
EXTENDS Naturals

CONSTANTS IPs,       \* addresses of the subnet
          Pool,      \* the addresses that are free at the start
          Clients,   \* client identifiers
          NoID,      \* the holder of a lease that has lost its client
          Nil        \* the holder of a vacant address

VARIABLE address     \* [IPs -> phase, holder, and whether the deadline passed]

Phases == {"idle", "free", "reserved", "offered", "bound", "declined"}

Vacant(ip) == address[ip].phase \in {"idle", "free"}
HeldBy(ip, c) == ~Vacant(ip) /\ address[ip].holder = c
Late(ip) == address[ip].late

Held(p, c) == [phase |-> p, holder |-> c, late |-> FALSE]
Free == [phase |-> "free", holder |-> Nil, late |-> FALSE]
Idle == [phase |-> "idle", holder |-> Nil, late |-> FALSE]

-----------------------------------------------------------------------------
Init == address = [ip \in IPs |-> IF ip \in Pool THEN Free ELSE Idle]

Reserve(c, ip) ==
    /\ Vacant(ip)
    /\ address' = [address EXCEPT ![ip] = Held("reserved", c)]

Unreserve(ip) ==
    /\ address[ip].phase = "reserved"
    /\ address' = [address EXCEPT ![ip] = Free]

\* An offer of a vacant address, of the client's own reservation, or again.
Offer(c, ip) ==
    /\ Vacant(ip) \/ (HeldBy(ip, c) /\ address[ip].phase \in {"reserved", "offered"})
    /\ address' = [address EXCEPT ![ip] = Held("offered", c)]

\* An offer of a vacant address that costs the client another address, which
\* becomes idle whatever phase it was in: it does not return to the pool.
OfferAndAbandon(c, ip, other) ==
    /\ Vacant(ip)
    /\ HeldBy(other, c)
    /\ address' = [address EXCEPT ![ip] = Held("offered", c), ![other] = Idle]

\* An offer of the client's reservation that disowns another of its leases.
OfferAndDisown(c, ip, other) ==
    /\ ip # other
    /\ HeldBy(ip, c)
    /\ address[ip].phase = "reserved"
    /\ HeldBy(other, c)
    /\ address' = [address EXCEPT ![ip] = Held("offered", c), ![other].holder = NoID]

Bind(c, ip) ==
    /\ HeldBy(ip, c)
    /\ address[ip].phase \in {"offered", "bound"}
    /\ address' = [address EXCEPT ![ip] = Held("bound", c)]

Release(c, ip) ==
    /\ HeldBy(ip, c)
    /\ address' = [address EXCEPT ![ip] = Free]

Decline(ip) ==
    /\ ~Vacant(ip)
    /\ address' = [address EXCEPT ![ip] = Held("declined", @.holder)]

Lapse(ip) ==
    /\ address[ip].phase \in {"offered", "bound", "declined"}
    /\ address' = [address EXCEPT ![ip] = [phase |-> @.phase, holder |-> @.holder, late |-> TRUE]]

\* The reaper frees late addresses: those with a client, or those declined.
Sweep(gone) ==
    /\ gone # {}
    /\ \A ip \in gone : Late(ip)
    /\ \/ \A ip \in gone : address[ip].phase \in {"offered", "bound"}
       \/ \A ip \in gone : address[ip].phase = "declined"
    /\ address' = [ip \in IPs |-> IF ip \in gone THEN Free ELSE address[ip]]

Next ==
    \/ \E c \in Clients, ip \in IPs :
          \/ Reserve(c, ip)
          \/ Offer(c, ip)
          \/ Bind(c, ip)
          \/ Release(c, ip)
          \/ \E other \in IPs : OfferAndAbandon(c, ip, other) \/ OfferAndDisown(c, ip, other)
    \/ \E ip \in IPs : Unreserve(ip) \/ Decline(ip) \/ Lapse(ip)
    \/ \E gone \in SUBSET IPs : Sweep(gone)

Spec == Init /\ [][Next]_address

=============================================================================
