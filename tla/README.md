# Verification of mydhcp

TLA+ models of mydhcp, a DHCPv4 server with zero-touch provisioning: modules
translated from the Go source, TLC runs over small instances, and TLAPS proofs
for all instances.  Paths are relative to the repository root (`src/`); `:n`
is a line.

## 1. Inventory of the system

| Component | State | Operations | Interacts with |
|---|---|---|---|
| Lease store `internal/store/memory.go` | two maps of pointers to leases (by address, by client), a FIFO of free addresses, one mutex | Reserve, Unreserve, Allocate, Renew, Release, Decline, NextAvailable, Expired, Declined, reads | called by the handlers, the reaper, the ztp manager and the API |
| DHCP server `internal/dhcp/server.go`, `handler.go` | none of its own; a handler's local variables | handlePacket, Dispatch, one handler per message type | reads subnet and ztp managers, calls the store several times per packet, emits plugin events |
| Reaper `internal/dhcp/server.go:165` | one ticker goroutine per subnet of the configuration | sweep: Expired, then Declined | store, plugins |
| Subnet manager `internal/subnet/manager.go` | map name -> (configuration, store), a lock | Add, Remove, lookups by address or name | DHCP server, ztp manager, API, TFTP |
| ZTP manager `internal/ztp/manager.go`, `memory.go`, `device.go`, `profile.go` | device records, vendor profiles, a lock over both | AddDevice, DeleteDevice, AddProfile, DeleteProfile, lookups | subnet manager, store (reservations), DHCP and TFTP servers |
| TFTP server `internal/ztp/tftp.go` | one goroutine per read request | handleRRQ, streamTFTPData | ztp manager |
| Relay `internal/relay/relay.go` | one goroutine per interface, one per forwarded packet | forwardToServer, forwardToClient | clients, DHCP server |
| Plugins `internal/plugin`, `plugins/auditlog`, `plugins/dashboard` | registry list; an open file under a mutex; a map of stream channels under a read-write lock | EmitLeaseEvent, OnLeaseEvent, Shutdown | DHCP server, reaper, `serve` |
| HTTP API `internal/api` | none | subnets, leases, devices, profiles | managers |
| Packet codec `internal/dhcp/packet.go`, `options.go` | none | Parse, Serialize, option accessors | handlers, relay, test client |
| Configuration `internal/config` | none | Load, validate | `serve`, `runRelay` |
| Test client `cmd/dhcpclient` | its transaction | DORA, release, renew, decline, flood | DHCP server |
| Process `cmd/mydhcp` | contexts, error channel | serve, runRelay, shutdown | everything |

What is hard: the store's mutex is free between the store calls of one
handler, so the reaper and the API run inside a handler; two maps hold
pointers to one lease; the device record and the reservation it stands for are
kept under two locks; identity is option 61 in packets and the hardware
address in device records; events leave in goroutines of their own.

What makes each component correct:

* store: no address is leased twice or queued while leased, the two maps never
  disagree, and an address leaves the pool and returns to it along a life cycle;
* server, reaper and ztp manager together: an acknowledged client keeps its
  address, is not refused a renewal, and a reservation has its device record
  unless that was replaced;
* subnet manager: an address is in one subnet, no subnet goes under a bound
  lease, every lease past its deadline is swept;
* TFTP: what arrives is one whole rendering of one configuration;
* plugins: no stream holds up another, none misses an event silently, the
  process can stop;
* relay: what a server answers reaches the client, and no forwarded packet
  leaves something behind for ever;
* codec and client: Parse inverts Serialize; a transaction gets its own replies.

`PROJECT.json` lists, under "hazards", the lines where these can go wrong.

## 2. Plan

What is there, in the order it was built: `MemoryStore` with its abstract
specification `LeaseLifecycle`; `DhcpServer`, which composes the store with
handlers, reaper, device operations, clients and network; `SubnetManager`;
`PluginEvents`; `Tftp`; `Wire` and `Relay`, which compose several networks,
relays and the replies of the server; `FloodClient`.  Each has a module of proofs
of its own (`..._proofs`).  They build on each other as the models do:
`DhcpServer_proofs` takes what a store call does from the refinement of
`LeaseLifecycle` in `MemoryStore_proofs`, and `Relay_proofs` takes what a packet
says from the codec's round trip in `Wire_proofs`.

What would come next:

* what an event says (it shares the receive buffer with the next packet,
  `handler.go:222`), which needs a statement of what it ought to say;
* the arithmetic of ranges on w-bit addresses: `NewMemoryStore`'s loop
  (`memory.go:49`), broadcast addresses and masks;
* the configuration file: defaults and `validate`.

## 3. Modules

Each module names the Go functions in its comments, and `PROJECT.json` maps
every definition to the lines it stands for.  Actions have the names of the
functions they model.  Definitions marked "Faulty" are planted errors; no
specification uses them, and a run in which one of them replaces the
definition it is named after must fail.

### MemoryStore, LeaseLifecycle

`byIP`, `byClient` and `available` are the fields of the Go struct.  The maps
hold pointers to leases that may be shared, so leases are cells of a heap
(`lease`, over `Refs`), and `Commit` drops the cells that no map points at.
A method runs under the mutex from first to last line and is one action,
enabled exactly when the call writes; calls that return an error write
nothing, and `ReserveOK`, `AllocateOK`, `RenewOK` say when they do not.  A
deadline is one bit (`due`) that `Elapse` sets at any moment and that every
write of a timestamp clears: no property depends on how long a lease is, only
on whether it is over when the reaper looks.  Expired and Declined range over a
map, so they queue what they free in any order.

`StoreSpec` lets callers make any call at any time.  `LeaseLifecycle` is what
the callers rely on: per address, vacant or held, and the edges between.  It
has an edge for each thing the store really does, the two side effects of
Allocate included: the client's other address is abandoned, or disowned.
`AddressOf` is the refinement mapping: a leased address shows its lease, another
one whether it is in the queue.

### DhcpServer

`d[w]` holds the local variables of the goroutine in `Dispatch`; a handler is
split at its store calls (`Prefer`, `AllocatePreferred`, `PickNext`,
`AllocateNext`; `GetForRequest`, `RenewForRequest`), because the store's mutex
is free between them.  The reaper's two calls, the API's device operations and
the passing of deadlines come between any two.  AddDevice is one step: the ztp
manager's lock keeps the look-ups of packets out, and nobody else reads the
records.  It may come again for the same MAC and then replaces the record, by one
with an address (of `StaticIPs`) or without (`Dynamic`); as in the code, the
reservation of the old address is left as it is.  Clients believe they are in
`init`, `offered` or `bound`, send what `cmd/dhcpclient` sends in those states, and may forget at any time.  A request
may be lost, overtaken or, if `Duplicates`, handled twice; a reply arrives at
once or never.  Address and identifier of a client are constants
(`PacketID`, `DeviceID`): `Packet.ClientID` prefers option 61,
`DeviceRecord.ClientID` knows the hardware address only.

### SubnetManager

`table` maps a name to network and store.  Stores exist apart from the table,
since a packet (`pkt`), a device operation (`op`) and a reaper (`reaped`) hold
one beyond the lock under which they found it.  A store is reduced to a phase
per address; `Handle` moves any one address, and an offer may also drop another
one, the former lease of the client, as Allocate does (`memory.go:147`).  Stores
do not record whose lease is whose here, so the handlers do no more than that.  `Load` and `addSubnet` are the two callers of `Add`, the process
before it serves and the API while it does.  `List` and `Start` are the loop at the beginning of `Run`.
Networks are what `net.ParseCIDR` yields: they nest or are apart.

### PluginEvents

One goroutine per event and plugin (`audit`, `dash`), one per stream (`sse`).
The read-write lock of the dashboard is not a variable: it is read-locked while
a broadcast is `sending`, and a stream in `subscribing` or `unsubscribing` is a
waiting writer, which keeps new readers out as Go's RWMutex does.  A browser
reads, stalls or leaves as it likes.  `main` is the goroutine of `serve`, which
shuts down the dashboard, in time or `overdue`, and then the audit log under one
deadline.  What must happen in the end is stated of all events and streams at once
(`[]<>`): what is handled, or forgotten, stays so, and there are finitely many.

### Tftp

`buf` is the one buffer of ServeTFTP, read by the goroutines it starts: what a
goroutine finds is the last request read, or a mixture (`Torn`) while another
request is being received.  A configuration is the pair of device and template
version, rendered once per transfer; a template may also fail to render, and a
stream to read or write (`StreamError`).  `record` is the set of devices that have a
configuration: a record without static address or profile serves TFTP no better
than none.  Block numbers are taken modulo `Numbers`
(2^16 in the code).  The client is not part of the repository: it follows
RFC 1350 and asks once.

### Wire, Relay

A packet under way is a record whose options are a map, and every reader of it
reads what `ParseOptions` makes of some byte string that `Serialize` may have
written (`Readings`): any order of the codes, as a Go map is ranged over in any order.  Bytes
are below `Base`, and codes are chosen so that the values of options contain
End, pad and other codes.

`net` holds packets at places: a port 67 (`RelayAt`, `Server`, `Other`), the
socket of one forwarded packet (`Socket`), a network (`Link`) or an address
(`Host`).  `from` remembers the network of a client's broadcast; no action
reads it but to say which clients can hear.  `handlePacket` is the server from
`ForPacket` to `sendReply`, with the handler as one step: what it gives, and from
which subnet's store.  `forwardToServer` and `forwardToClient` are the two
directions of `mydhcp relay`.  Relays of other makes forward replies, as the
protocol wants; the server of `Others` answers the socket that a packet came
from, which is where mydhcp's relay waits.  A client that moves, among the networks
of `Roams`, takes what it believes along.  A device with a static address moves
like any other, and the handler prefers that address on any network
(`handler.go:69`); Allocate takes an address its store knows nothing of (`Absent`),
and when the lease ends the address is in that store's queue (`Vacant`), for any
client of that network.  `OwnSubnet` names this exception, and `RepliesGoBack` the
`ciaddr` that `sendReply` trusts on the server's own network (`server.go:133`).

### FloodClient

`readLoop`'s one buffer is represented by what has become of the packets parsed
from it: `fresh` is false once a later packet was read, a reply or anything else.  The header of a packet was
copied, its options were not, so a stale packet has any type and names any
server.  `reader` is readLoop between reading, looking up and delivering; `chan`
the channels, `waiters` the table; `pc` follows `dora` and the goroutine around
it.  A send that fails is a deadline that passes at once.  The server is any
process that answers a message once or not at all, and acknowledges only what
was asked for; replies that are not read are lost.
`counts` are the counters that the summary prints.

## 4. Runs

| Run | Shows | Bounds |
|---|---|---|
| `store` | `Coherent`, `PoolDisjoint`, `OwnerStable`, `LostOnlyByMoving`, `PoolFIFO`, and that the store implements `LeaseLifecycle`, under callers without protocol | 2 clients and the empty identifier; 2 addresses in the range, 1 reserved-only address outside; 3 heap cells |
| `server` | `AckedIsBound`, `BoundNeverNaked`, `OrphanedOnlyByReplacing` | 2 clients, one a device, whose record is added, replaced by one without an address, and deleted; 2 addresses, 1 of them static; 1 request per client under way; no DECLINE, no duplicates, no hint of an address in a DISCOVER |
| `server_faults` | `RenewalFlagFresh` | 1 client with option 61; 1 address; 3 requests under way, lost, reordered, duplicated; all message types, hints and requests after a reboot; records replaced |
| `subnets` | `LookupUnique`, `BoundInTable` | 2 names, 3 networks that nest or are apart, 2 addresses, 2 stores, 1 device whose record asks for one address (`StaticIPs`) |
| `subnets_reaped` | `LateEnds`, with no subnets added by the API | the same without device |
| `plugins` | `NothingMissed`, `EventsHandled`, `DepartedForgotten`, `ShutdownEnds` | 2 events, 2 streams, channels of 1 |
| `relay` | `OwnSubnet`, `RepliesGoBack`, `Understood` | 4 networks (the server's; two with relays in a row; one whose relay forwards to another server), 1 address each; 2 clients: one moves between three networks, the other is a device with a static address that has been moved to the server's network and never sets the broadcast flag (`Roams`, `Flags`); 1 packet under way; 8 byte values |
| `tftp` | `Intact`, `SuccessMeansReceived`, `Answered` | 2 devices, files of 2 and 1 blocks, 2 block numbers, 2 template versions |
| `flood` | `Subscribed`, `ReportsAcked`, `FloodEnds` | 2 clients that draw from 2 numbers, so equal or not; channels of 1; replies lost and reordered, not duplicated |

Each also checks the module's type invariant.  Why these bounds are enough:

* Heap: a cell is referenced through one of the addresses, so a store of three
  addresses never needs more than three cells (in the server, two addresses
  and two cells).  The proofs do not depend on it.
* Three addresses and two clients let one client hold two leases and a third
  address be idle; no method looks at more than two leases of one client.
* One worker: the server handles a packet to the end before it reads the next.
* `Hints` are the addresses that a DISCOVER may ask for and that a client may
  remember from before a reboot (`SendReboot`).  `server` has none, since they only
  change which address is tried first; `server_faults` has them, and the theorems
  about `server` hold for any hints.  One address is enough in `server_faults`:
  `RenewalFlagFresh` speaks of the lease of the address that the request names.
* One static address in `server` lets a record be replaced by one that asks for no
  address, which leaves a reservation without a record.  The other exception of
  `OrphanedOnlyByReplacing`, Allocate taking the name off a reservation, needs a
  client with two of them, hence two static addresses; the theorem covers it.
* One static address in `subnets`: the device operation can reach one subnet's
  store or find none, according to the networks in the table, whichever address
  it asks for.
* `Window` = 1 keeps the network orderly in `server`.  It has to be: a RELEASE
  or REQUEST that arrives late takes effect on the lease of a client that has
  gone on, and DECLINE asks for no owner at all, so `AckedIsBound` does not hold
  under those and is not claimed.  `server_faults` has both, for the property
  that needs no order.
* `Capacity` = 1 fills a channel with one event, 32 in the code.
* `Numbers` = 2 makes the number wrap inside a file; a file with more blocks
  than there are numbers (32 MB) is excluded by `TftpAssumption`.
* 4 networks are one for each way a packet can reach a server: directly,
  through mydhcp's relay, through another relay and then mydhcp's, and through
  mydhcp's relay to another server.  A network of one address makes every
  client compete for it.  A device away from its network is all it takes to bring
  an address of one network into the store of another, and one packet under way
  at a time is enough, since `OwnSubnet` and `RepliesGoBack` speak of one packet and
  of what stores and clients remember; the theorems bound neither.  8 byte values are as few as the codes and types need.
* 2 clients in `flood` are all that can share a number or a buffer; a channel of
  1 (4 in the code) overflows with the second reply.  A duplicated OFFER that is
  read late can pass for an ACK, so `ReportsAcked` is not claimed of a network
  that duplicates.
* Two stores let a name be removed and added again under a packet that holds
  the first one.

### Disagreements

Three runs end in a counterexample: a document says one thing and the code does
another.

| Run | Said | Done |
|---|---|---|
| `server_static_kept` | design.md:323: Release and the reaper look for a reservation before they free an address | neither does (`memory.go:197`): a device's static address goes to the pool when its lease ends |
| `relay_replies` | design.md:600: the relay forwards a reply that arrives at `giaddr` | the listening socket drops what is not a request (`relay.go:93`), and the server answers there; only a server that answers the packet's source address is heard |
| `tftp_own_config` | design.md:468: the file name of the request decides whose configuration is sent | goroutines read the shared buffer after the loop has read the next request into it |

Known and without a run of their own:

* design.md:394 and :518: a reservation has its device record, always; but
  design.md:508 lets AddDevice update a record, and then nothing unreserves the
  old address (`manager.go:94`), which stays reserved without a record.
  `OrphanedOnlyByReplacing` says that nothing else does that, but for an
  Allocate that takes the client's name off the other of two reservations
  (`memory.go:121`);
* design.md:45 promises a client behind a relay the same exchange; its renewal is
  sent past the relay, so `handlePacket` (`server.go:98`) takes the server's own
  subnet, where the lease is not, and refuses it (`SendRenew` in Relay);
* `runFlood` counts a result as failed when its line ends in FAIL
  (`main.go:246`), and lines end in the error: the summary counts every failure as
  a success (`Ending` and `Collect` in FloodClient);
* design.md:319: a declined address returns to the pool after its cooldown; but
  Allocate (`memory.go:147`) drops a declined lease of its client and queues the
  address nowhere (`LostOnlyByMoving` has the exception);
* handler_test.go:474: a second DISCOVER is offered the same address.  Once the
  lease is bound it is not: Allocate refuses the address to its own client;
* design.md:332: a reaper starts when a subnet is added and stops when it is
  removed.  `addSubnet` starts none (`StartReaper` has no caller), hence the
  condition of `subnets_reaped`, and none stops;
* design.md:207 and :242: plugins are called synchronously after the reply.
  `EmitLeaseEvent` starts goroutines before it;
* design.md:114: with no relay and no broadcast flag a reply goes to the offered
  address.  `sendReply` sends it to the `ciaddr` of the request, or broadcasts it
  if there is none (as the comment at `server.go:130` explains); a client that has
  moved is not at its `ciaddr`;
* design.md:53: INFORM is answered with options.  The answer has the message type
  and the server's identifier only (`handler.go:249`, `:275`);
* design.md:400: a check of the static address against the range, which AddDevice
  does not make; a device that is moved is offered its static address on any
  network (`handler.go:69`); one client can have two reservations, of which `byClient` knows
  only the last.

## 5. Fairness

`StoreSpec`, the server's `Spec` and all safety runs assume none: everything may
stop anywhere.

* `SubnetManager!FairSpec`: a reaper with something to sweep ticks (`WF` on
  `Sweep`; the ticker never stops), and the loop of Run goes on (`WF` on `List`
  and `Start`).  Nothing about packets or API calls.
* `PluginEvents!FairSpec`: each goroutine that can go on does (one `WF` per
  goroutine, whatever step it is at), the scheduler being Go's; `SF` on `Return`, since `select` picks at random among
  ready cases and so cannot pass over a done context for ever; the shutdown
  deadline passes.  A write to a browser that has left ends.  Nothing about
  browsers that are connected, nor that events or signals come.
* `Tftp!FairSpec`: loop, goroutines and the device's client act on packets that
  are there.  The network is not assumed to deliver anything: `Answered` is
  excused as soon as a packet was lost or duplicated or a stream failed (`faulted`).

* `FloodClient!FairSpec`: the exchanges' goroutines run, their deadlines pass
  (`time.After`), and `runFlood` collects.  Nothing about readLoop, the server or
  the network: `FloodEnds` holds if no reply ever comes.

CHECK_DEADLOCK is off in `plugins`, where the process exits, and in `flood`, which
ends.

## 6. Proofs

| Theorem | Inductive invariant | Why it is needed |
|---|---|---|
| `StoreTypeCorrect`, `StoreCoherent`, `StorePoolDisjoint` | `StoreInv` = the three together | Coherent tells Free which index to clear; with the types it makes a new cell distinct from every cell in use; the pool stays disjoint because an entry is only made for an address that is taken out of the pool, and only freed addresses are queued |
| `StoreOwnerStable`, `StoreLostOnlyByMoving` | `StoreInv` | per method: the cell of an address changes only where the method writes, and two addresses never share one |
| `StorePoolFIFO` | `StoreInv` | the order of a queue is kept by taking one element out wherever it is, by adding addresses that are not in it at the end, and by the two in a row; that they are not in it is `PoolDisjoint` |
| `StoreImplementsLifecycle` | `StoreInv` | per method, which address moves and where to, and that every other keeps its lease or its place in or out of the queue (the lemmas `ReserveAt` ... `AllocateAt`) |
| `ServerTypeCorrect`, `ServerImplementsStore`, and from it `ServerPoolDisjoint`, `ServerOwnerStable`, `ServerImplementsLifecycle` | `ServerInv` = `StoreInv`, `ServerTypeOK`, `Control` | a handler's step is a store step because the addresses in its variables are addresses (`Control`), and they are because what it read from the store is well typed |
| `ServerRenewalFlagFresh` | `ServerInv`, `FlagInv` | under `OneWorker`: between Get and Renew the lease can only end or be reserved, never be bound anew |
| `ServerOrphanedOnlyByReplacing` | `ServerInv` | per step, from what it does to `AddressOf`: a reservation is made together with its record, or keeps its owner, and only AddDevice and DeleteDevice write records |
| `ServerAckedIsBound`, `ServerBoundNeverNaked` | `OrderlyInv` = `ServerInv`, `TrafficInv`, `HandInv`, `BoundInv` | under `Orderly`, see below |
| `TableTypeCorrect`, `TableLookupUnique`, `TableBoundInTable` | `TableInv` = types, `Apart`, `InUse`, `InFlight`, `BoundInTable` | a packet may hold a store that has left the table; `InFlight` says that a REQUEST then finds nothing to acknowledge, since Remove saw no occupied lease and only the one packet in hand could add one |
| `EventTypeCorrect`, `StreamMissesNothing` | `EventInv` = types, `Delivered` | a broadcast under way has passed the streams that are no longer in its `todo`; a stream cannot subscribe meanwhile |
| `RoundTrip`, `ParsesOrRefuses` (no behaviour) | along the bytes, see below | |
| `RelayTypeCorrect`, `AnswersOwnSubnet`, `AnswersGoBack`, `PacketsUnderstood` | `PathInv` = a claim on every packet under way (`Good`), `LeasesHome`, `Located`, `ClientsTyped` | a broadcast has either no giaddr and is where it was sent, or the giaddr of the relay there and is anywhere upstream; a store has leases of its own network and of static addresses only |
| `TftpTypeCorrect`, `TransferIntact`, `SuccessIsReceipt` | `TftpInv` = types and, per device, `TransferInv` | the server is at most one block ahead of the device, and every packet under way is a block sent or an acknowledgement of one received; block numbers are injective in files of at most `Numbers` blocks |
| `FloodTypeCorrect`, `FloodSubscribed`, `FloodReportsAcked` | `FloodInv` = types, `Subscribed`, `Routed`, `Written`, `ReportsAcked` and, per client with a number of its own, `Exchange` | see below |

They hold for every value of the constants under the named assumptions:
`AddressAssumption` (finitely many addresses, natural numbers, the range among
them), `NilAssumption`, `ServerAssumption` (identifiers are injective, hints are
addresses; any number of workers, any window), `NetworkAssumption`,
`CapacityAssumption`, `WireAssumption` (at least eight byte values; `Nil`, the
result of a failed parse, is not a map of options), `RelayAssumption` (options fit
their length byte, devices with a static address have one), `TftpAssumption`,
`FloodAssumption`.  TLC evaluates each in the runs of its module.

The promises to bound clients.  `Orderly` is what the run `server` has: one
handler at a time, one message of each client under way and none handled twice,
no DECLINE.  The code has the first (one receive loop); the others are the
network's and the clients', and the promises fail without them: a late REQUEST
or RELEASE acts on a lease the client has left behind.  The proof never looks into the
store: it speaks of `AddressOf`, and takes each call from the lemma about it in
`MemoryStore_proofs`.  `BoundInv` strengthens `AckedIsBound`: while a client
believes it is bound, its lease is bound and in time, and neither the network
nor the server holds a message of it other than a REQUEST, so that nothing can
move the lease but its own renewal.  That has to be so already when the ACK is
sent: `HandInv` says that the client has nothing else under way while the
server works on its REQUEST, and `TrafficInv` that there is at most one message
to be careful about.

The codec.  `ParseOptions` is a function that calls itself at the next option.
The induction rules of the library take a predicate as a parameter, which the
provers cannot instantiate, so `Wire_proofs` does its inductions over sets: a set
of natural numbers that is not empty has a least element (`LeastElement`, from
the well-foundedness of < on Nat), hence `Upward` and `Downward`, which say that a set
with one end of an interval and closed under steps holds the interval.  That a
function obeys the definition of `ParseOptions` follows backwards from the end of
the data, as each byte looks only at later ones (`StepLooksAhead`,
`ReaderExists`).  `RoundTrip` goes along the places at which `Serialize` put the
options (`FlattenPlaces`): from the last one backwards, what is read there is the
map of the codes from there on (`ReadsBack`).  `WellFormed` is what handlers and
relays put into packets: codes other than pad and End, values shorter than
`Base`.  `SerializeSome` says that every such map has a byte string, so `RoundTrip`
is not about nothing.  `OptionsWellFormed` says that the options of every packet
of `Relay` are well-formed: the theorems about Relay need no hypothesis about bytes.

The flood.  A client whose number is its own (`OwnXid`) gets nothing but replies with
that number in its channel (`Routed`), but their options are slices of the
shared buffer, so it may read any type in them.  What protects it is the copied
header.  `Exchange` counts what is under way with its number: nothing before the
DISCOVER and again before the REQUEST, one message or answer in between
(`Alone`), because a message is answered once.  So whatever arrives while the client
waits for its ACK answers the REQUEST, and brings the acknowledged address or none
(`Settled`).  `Written` only says that what dora reads has been assigned.

Only model-checked: the liveness properties (`LateEnds`, `EventsHandled`,
`DepartedForgotten`, `ShutdownEnds`, `Answered`, `FloodEnds`), which are out of the
prover's reach.  Every safety property of a passing run is a theorem; only
`AckedIsBound`, `BoundNeverNaked` (`Orderly`) and `RenewalFlagFresh` (`OneWorker`)
need a condition, one that their runs have as well.

## 7. Not modelled

What events and log lines say; the HTTP layer, which only calls what the models
have (JSON, status codes, lists); the configuration file, flags and construction
of the process; the arithmetic behind an address range; the web page and the
container files.  Of packets, the fixed header is a record, and options that
only configure a client are represented by one, the name servers, whose length
varies.  How many goroutines and sockets the relay leaves waiting is not
counted.  Durations are not modelled anywhere: a timer is a step that may come
at any moment after it was set.
