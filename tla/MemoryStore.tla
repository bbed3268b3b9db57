----------------------------- MODULE MemoryStore -----------------------------
(***************************************************************************)
(* The in-memory lease store of one subnet, internal/store/memory.go.      *)
(*                                                                         *)
(* Every method of the Go type runs under the store's mutex from its first *)
(* line to its last, so one method is one action.  The two maps hold       *)
(* POINTERS to leases: an allocated lease is an element of Refs, and what  *)
(* it contains is lease[r].  Both maps may point at one lease, a lease may *)
(* be in one map only, and a lease no map points at is garbage, which      *)
(* Commit collects; that is what makes the agreement of the two maps a     *)
(* question.                                                               *)
(*                                                                         *)
(* Time is abstracted to one bit per lease: due says that the deadline of  *)
(* the lease's present state (ExpiresAt, or DeclinedAt plus the cooldown)  *)
(* has passed.  Elapse sets it at any moment; the methods that write a     *)
(* timestamp clear it.                                                     *)
(***************************************************************************)
EXTENDS Integers, Sequences, FiniteSets, SequencesExt

CONSTANTS IPs,          \* addresses of the subnet, in the range or not
          RangeStart, RangeEnd,  \* the dynamic range handed to NewMemoryStore
          Clients,      \* client identifiers that callers pass
          NoID,         \* the empty identifier that Allocate leaves behind
          Refs,         \* heap cells for leases
          Nil           \* a missing map entry, an empty cell

ASSUME AddressAssumption ==
    /\ IPs \subseteq Nat
    /\ IsFiniteSet(IPs)
    /\ RangeStart \in Nat
    /\ RangeEnd \in Nat
    /\ RangeStart .. RangeEnd \subseteq IPs

VARIABLES lease,        \* [Refs -> a lease, or Nil]: what the pointers point at
          byIP,         \* [IPs -> Refs or Nil]
          byClient,     \* [ClientIDs -> Refs or Nil]
          available     \* the FIFO of free addresses

storeVars == <<lease, byIP, byClient, available>>

ClientIDs == Clients \cup {NoID}
States    == {"reserved", "offered", "bound", "declined"}
Leases    == [ip : IPs, clientID : ClientIDs, state : States, due : BOOLEAN]

ASSUME NilAssumption == Nil \notin Refs /\ Nil \notin Leases

NewLease(c, ip, s) == [ip |-> ip, clientID |-> c, state |-> s, due |-> FALSE]

-----------------------------------------------------------------------------
(* Reading the store *)

Leased(ip) == byIP[ip] # Nil
LeaseAt(ip) == lease[byIP[ip]]
InState(ip, S) == Leased(ip) /\ LeaseAt(ip).state \in S
OwnedBy(ip, c) == Leased(ip) /\ LeaseAt(ip).clientID = c
InPool(ip) == ip \in ToSet(available)

\* Get and GetByClient return a copy of the lease, or nothing.
Get(ip) == IF Leased(ip) THEN LeaseAt(ip) ELSE Nil
GetByClient(c) == IF byClient[c] # Nil THEN lease[byClient[c]] ELSE Nil

Occupied == {ip \in IPs : InState(ip, {"reserved", "offered", "bound"})}
OccupiedCount == Cardinality(Occupied)

\* The addresses whose lease the next sweep of the reaper takes.
\* Faulty: sweeps leases before their deadline.
ExpiredIPsEarly == {ip \in IPs : InState(ip, {"offered", "bound"})}

ExpiredIPs  == {ip \in IPs : InState(ip, {"offered", "bound"}) /\ LeaseAt(ip).due}
DeclinedIPs == {ip \in IPs : InState(ip, {"declined"}) /\ LeaseAt(ip).due}

-----------------------------------------------------------------------------
(* Writing the store *)

Fresh == {r \in Refs : lease[r] = Nil}

\* Faulty: leaves the address in the queue.
removeNothing(s, ip) == s

removeIP(s, ip) == RemoveFirst(s, ip)

\* Install the two maps and the heap, less the leases neither map points at.
Commit(heap, ips, clients) ==
    /\ byIP' = ips
    /\ byClient' = clients
    /\ lease' = [r \in Refs |->
                   IF (\E ip \in IPs : ips[ip] = r) \/ (\E c \in ClientIDs : clients[c] = r)
                   THEN heap[r] ELSE Nil]

\* Faulty: forgets to clean byClient.
FreeKeepsIndex(gone) ==
    /\ \E order \in SetToSeqs(gone) : available' = available \o order
    /\ Commit(lease, [ip \in IPs |-> IF ip \in gone THEN Nil ELSE byIP[ip]], byClient)

\* Faulty: queues the addresses in front.
FreeInFront(gone) ==
    /\ \E order \in SetToSeqs(gone) : available' = order \o available
    /\ Commit(lease,
              [ip \in IPs |-> IF ip \in gone THEN Nil ELSE byIP[ip]],
              [c \in ClientIDs |->
                 IF \E ip \in gone : OwnedBy(ip, c) /\ byClient[c] = byIP[ip]
                 THEN Nil ELSE byClient[c]])

\* Delete the leases of the addresses in gone from byIP, from byClient where
\* it still points at that very lease, and queue the addresses in some order
\* (Expired and Declined range over a Go map).
Free(gone) ==
    /\ \E order \in SetToSeqs(gone) : available' = available \o order
    /\ Commit(lease,
              [ip \in IPs |-> IF ip \in gone THEN Nil ELSE byIP[ip]],
              [c \in ClientIDs |->
                 IF \E ip \in gone : OwnedBy(ip, c) /\ byClient[c] = byIP[ip]
                 THEN Nil ELSE byClient[c]])

\* Put the lease of ip in state s and restart its deadline.
SetState(ip, s) ==
    /\ lease' = [lease EXCEPT ![byIP[ip]] = [@ EXCEPT !.state = s, !.due = FALSE]]
    /\ UNCHANGED <<byIP, byClient, available>>

-----------------------------------------------------------------------------
(* The methods.  A call that returns an error, or finds nothing to do,     *)
(* changes nothing: each action below is enabled exactly when the call     *)
(* writes.                                                                 *)

\* Faulty: enumerates one address too many.
NewMemoryStoreOneTooMany ==
    /\ lease = [r \in Refs |-> Nil]
    /\ byIP = [ip \in IPs |-> Nil]
    /\ byClient = [c \in ClientIDs |-> Nil]
    /\ available = [i \in 1 .. (RangeEnd + 2 - RangeStart) |-> RangeStart + i - 1]

NewMemoryStore ==
    /\ lease = [r \in Refs |-> Nil]
    /\ byIP = [ip \in IPs |-> Nil]
    /\ byClient = [c \in ClientIDs |-> Nil]
    /\ available = [i \in 1 .. (RangeEnd + 1 - RangeStart) |-> RangeStart + i - 1]

\* Reserve also succeeds, and writes nothing, on a lease of the same client.
ReserveOK(c, ip) == ~Leased(ip) \/ OwnedBy(ip, c)

Reserve(c, ip) ==
    /\ ~Leased(ip)
    /\ available' = removeIP(available, ip)
    /\ \E l \in Fresh :
          Commit([lease EXCEPT ![l] = NewLease(c, ip, "reserved")],
                 [byIP EXCEPT ![ip] = l],
                 [byClient EXCEPT ![c] = l])

\* Faulty: takes any lease for a reservation.
UnreserveAnyState(ip) ==
    /\ Leased(ip)
    /\ Free({ip})

Unreserve(ip) ==
    /\ InState(ip, {"reserved"})
    /\ Free({ip})

\* The reservation becomes an offer; if the client was indexed under another
\* lease, that lease loses its identifier and stays in byIP.
AllocateReserved(c, ip) ==
    /\ InState(ip, {"reserved"})
    /\ OwnedBy(ip, c)
    /\ LET l == byIP[ip] IN
       Commit([r \in Refs |->
                 IF r = l THEN [lease[r] EXCEPT !.state = "offered", !.due = FALSE]
                 ELSE IF r = byClient[c] THEN [lease[r] EXCEPT !.clientID = NoID]
                 ELSE lease[r]],
              byIP,
              [byClient EXCEPT ![c] = l])
    /\ UNCHANGED available

AllocateOffered(c, ip) ==
    /\ InState(ip, {"offered"})
    /\ OwnedBy(ip, c)
    /\ SetState(ip, "offered")

\* Faulty: overwrites the lease that the address has.
AllocateNewSteals(c, ip) ==
    /\ available' = removeIP(available, ip)
    /\ \E l \in Fresh :
          Commit([lease EXCEPT ![l] = NewLease(c, ip, "offered")],
                 [i \in IPs |-> IF i = ip THEN l
                                ELSE IF byClient[c] # Nil /\ i = lease[byClient[c]].ip THEN Nil
                                ELSE byIP[i]],
                 [byClient EXCEPT ![c] = l])

\* A new offer.  The lease byClient held for the client is deleted from byIP,
\* last, under its own address; nothing puts that address back in the FIFO.
AllocateNew(c, ip) ==
    /\ ~Leased(ip)
    /\ available' = removeIP(available, ip)
    /\ \E l \in Fresh :
          Commit([lease EXCEPT ![l] = NewLease(c, ip, "offered")],
                 [i \in IPs |-> IF byClient[c] # Nil /\ i = lease[byClient[c]].ip THEN Nil
                                ELSE IF i = ip THEN l
                                ELSE byIP[i]],
                 [byClient EXCEPT ![c] = l])

Allocate(c, ip) ==
    \/ AllocateReserved(c, ip)
    \/ AllocateOffered(c, ip)
    \/ AllocateNew(c, ip)

\* Allocate returns no error exactly when one of its branches writes.
AllocateOK(c, ip) ==
    \/ ~Leased(ip)
    \/ InState(ip, {"reserved", "offered"}) /\ OwnedBy(ip, c)

\* Faulty: renews offers only.
RenewOKOffered(c, ip) == OwnedBy(ip, c) /\ InState(ip, {"offered"})

RenewOK(c, ip) == OwnedBy(ip, c) /\ InState(ip, {"offered", "bound"})

Renew(c, ip) ==
    /\ RenewOK(c, ip)
    /\ SetState(ip, "bound")

\* Faulty: loses the address.
ReleaseForgets(c, ip) ==
    /\ OwnedBy(ip, c)
    /\ Commit(lease, [byIP EXCEPT ![ip] = Nil],
              [byClient EXCEPT ![c] = IF @ = byIP[ip] THEN Nil ELSE @])
    /\ UNCHANGED available

\* Release asks for the identifier only: any state goes back to the FIFO.
Release(c, ip) ==
    /\ OwnedBy(ip, c)
    /\ Free({ip})

\* Decline asks for nothing but an entry.
Decline(ip) ==
    /\ Leased(ip)
    /\ SetState(ip, "declined")

\* Returns the front of the FIFO and moves it to the back.
NextAvailable ==
    /\ available # <<>>
    /\ available' = Append(Tail(available), Head(available))
    /\ UNCHANGED <<lease, byIP, byClient>>

Expired ==
    /\ ExpiredIPs # {}
    /\ Free(ExpiredIPs)

Declined ==
    /\ DeclinedIPs # {}
    /\ Free(DeclinedIPs)

\* The deadline of the lease at ip passes.
Elapse(ip) ==
    /\ InState(ip, {"offered", "bound", "declined"})
    /\ ~LeaseAt(ip).due
    /\ lease' = [lease EXCEPT ![byIP[ip]] = [@ EXCEPT !.due = TRUE]]
    /\ UNCHANGED <<byIP, byClient, available>>

-----------------------------------------------------------------------------
StoreInit == NewMemoryStore

StoreNext ==
    \/ \E c \in Clients, ip \in IPs :
          \/ Reserve(c, ip)
          \/ Allocate(c, ip)
          \/ Renew(c, ip)
          \/ Release(c, ip)
    \/ \E ip \in IPs :
          \/ Unreserve(ip)
          \/ Decline(ip)
          \/ Elapse(ip)
    \/ NextAvailable
    \/ Expired
    \/ Declined

StoreSpec == StoreInit /\ [][StoreNext]_storeVars

-----------------------------------------------------------------------------
(* What the store promises *)

\* Every variable holds values of its type.
TypeOK ==
    /\ lease \in [Refs -> Leases \cup {Nil}]
    /\ byIP \in [IPs -> Refs \cup {Nil}]
    /\ byClient \in [ClientIDs -> Refs \cup {Nil}]
    /\ available \in Seq(IPs)

\* The two maps agree: an entry of byIP points at a lease for that address,
\* and an entry of byClient points at a lease that carries that identifier and
\* that byIP still holds under the lease's own address.  No method that edits
\* one map may leave a stale pointer in the other.
Coherent ==
    /\ \A ip \in IPs : Leased(ip) =>
          /\ lease[byIP[ip]] # Nil
          /\ LeaseAt(ip).ip = ip
    /\ \A c \in ClientIDs : byClient[c] # Nil =>
          /\ lease[byClient[c]] # Nil
          /\ lease[byClient[c]].clientID = c
          /\ byIP[lease[byClient[c]].ip] = byClient[c]

\* The FIFO holds no address twice and none that has a lease: NextAvailable
\* never hands out an address that is reserved, offered, bound or declined.
PoolDisjoint ==
    /\ IsInjective(available)
    /\ \A ip \in IPs : Leased(ip) => ~InPool(ip)

\* What a step leaves of the leases: while byIP keeps an entry for an address it
\* is the same lease, of the same client, or one whose identifier Allocate took
\* away when it moved the client's index to a reservation it turns into an offer.
KeepsOwner ==
    \A ip \in IPs : (Leased(ip) /\ byIP'[ip] # Nil) =>
        LET old == LeaseAt(ip)
            new == lease'[byIP'[ip]]
        IN  /\ byIP'[ip] = byIP[ip]
            /\ \/ new.clientID = old.clientID
               \/ /\ new.clientID = NoID
                  /\ \E other \in IPs \ {ip} :
                        /\ OwnedBy(other, old.clientID)
                        /\ InState(other, {"reserved"})
                        /\ byClient'[old.clientID] = byIP[other]

\* What a step loses: an address whose lease goes and that is not in the FIFO
\* after it was the client's old one when Allocate gave it another.
LosesByMoving ==
    \A ip \in IPs : (Leased(ip) /\ byIP'[ip] = Nil /\ ip \notin Range(available')) =>
        LET c == LeaseAt(ip).clientID IN
        /\ byClient[c] = byIP[ip]
        /\ byClient'[c] \notin {Nil, byIP[ip]}
        /\ lease'[byClient'[c]].state = "offered"
        /\ lease'[byClient'[c]].ip # ip

\* No method hands a lease to another client, or puts another lease in place of
\* one that an address has; the loss of the identifier in Allocate is the only
\* change of owner.
OwnerStable == [][KeepsOwner]_storeVars

\* An address that loses its lease is in the FIFO when the method returns,
\* except in one place: Allocate drops the lease byClient held for its client.
LostOnlyByMoving == [][LosesByMoving]_storeVars

\* The queue t keeps the order of s: whatever stands in t before an element of s
\* stood before it in s.
KeepsOrder(s, t) ==
    \A k, m \in DOMAIN t : k < m =>
        \A j \in DOMAIN s : s[j] = t[m] => \E i \in DOMAIN s : i < j /\ s[i] = t[k]

Rotates == available # <<>> /\ available' = Append(Tail(available), Head(available))

\* The FIFO reuses addresses in the order they came free: a method either
\* rotates the whole queue (NextAvailable), or keeps the order of what stays
\* and puts what it adds behind it.
PoolFIFO == [][Rotates \/ KeepsOrder(available, available')]_storeVars

-----------------------------------------------------------------------------
(* The store as a life cycle per address *)

AddressOf(ip) ==
    IF Leased(ip)
    THEN [phase |-> LeaseAt(ip).state, holder |-> LeaseAt(ip).clientID, late |-> LeaseAt(ip).due]
    ELSE [phase |-> IF InPool(ip) THEN "free" ELSE "idle", holder |-> Nil, late |-> FALSE]

Lifecycle == INSTANCE LeaseLifecycle
             WITH Pool <- RangeStart .. RangeEnd,
                  address <- [ip \in IPs |-> AddressOf(ip)]

\* Every run of the store is a run of the life cycle: with pointers, indexes
\* and queue hidden, no method moves an address along an edge that is not one
\* of LeaseLifecycle, and none moves two addresses where one is allowed.
ImplementsLifecycle == Lifecycle!Spec

=============================================================================
