-------------------------------- MODULE Tftp --------------------------------
(***************************************************************************)
(* The embedded TFTP server: ServeTFTP reads every request into one        *)
(* buffer and starts a goroutine that looks the device up in ztp.Manager,  *)
(* renders its configuration once and streams it in numbered blocks, one   *)
(* ACK at a time, without timeouts.  The API changes device records and    *)
(* the vendor profile meanwhile.                                           *)
(*                                                                         *)
(* One profile stands for all; a configuration is a device and the version *)
(* of the template it was rendered from.  The client is not in this        *)
(* repository; it follows RFC 1350 and asks once, for its own file.        *)
(***************************************************************************)
EXTENDS Naturals, Sequences

CONSTANTS
    Devices,    \* each device asks for the file named after its MAC
    Size,       \* [Devices -> DATA blocks of its file, the short last one included]
    Numbers,    \* how many block numbers there are: 2^16 in the code
    Versions,   \* bound: versions of the template
    Nil, Torn   \* Torn: a file name of which only parts were in the buffer

\* A file of more than Numbers blocks (32 MB) is not considered.
ASSUME TftpAssumption ==
    /\ Numbers \in Nat \ {0} /\ Versions \in Nat
    /\ Size \in [Devices -> 1 .. Numbers]
    /\ Nil \notin Devices /\ Torn \notin Devices

VARIABLES
    record,     \* the devices whose record has a static address and a profile; a
                \* device without such a record has one of another kind, or none
    profile,    \* the version of the profile's template, Nil when there is no profile
    added,      \* how many versions there have been
    inbox,      \* the devices whose RRQ is in the server's socket
    buf,        \* the RRQ in the shared buffer
    pc,         \* the goroutine that serves each device
    doc,        \* the configuration it streams
    block,      \* the block it has sent and waits for
    net,        \* DATA, ACK and ERROR packets under way for each device
    client,     \* the state of each device's transfer
    got,        \* the blocks each device has received
    faulted     \* the network has lost or duplicated a packet, or a stream has failed

tables == <<record, profile, added>>
server == <<inbox, buf, pc, doc, block>>
clients == <<client, got>>
vars == <<tables, server, net, clients, faulted>>

Docs == Devices \X (1 .. Versions)
Packets ==
    [kind : {"data"}, num : 0 .. Numbers - 1, doc : Docs, index : Nat, last : BOOLEAN]
    \cup [kind : {"ack"}, num : 0 .. Numbers - 1]
    \cup [kind : {"error"}]

\* The type of Block of the packet is uint16.
NumberUnbounded(n) == n  \* Faulty: wide integers.
Number(n) == n % Numbers

Init ==
    /\ record = {}
    /\ profile = Nil
    /\ added = 0
    /\ inbox = {}
    /\ buf = Nil
    /\ pc = [d \in Devices |-> "none"]
    /\ doc = [d \in Devices |-> Nil]
    /\ block = [d \in Devices |-> 0]
    /\ net = [d \in Devices |-> {}]
    /\ client = [d \in Devices |-> "idle"]
    /\ got = [d \in Devices |-> <<>>]
    /\ faulted = FALSE

-----------------------------------------------------------------------------
(* The API.  AddDevice replaces a record and wants the profile it names to   *)
(* exist; DeleteProfile does not look at the records.                        *)

AddDevice(d) ==
    /\ \/ profile # Nil /\ record' = record \cup {d}
       \/ record' = record \ {d}
    /\ UNCHANGED <<profile, added, server, net, clients, faulted>>

DeleteDevice(d) ==
    /\ d \in record
    /\ record' = record \ {d}
    /\ UNCHANGED <<profile, added, server, net, clients, faulted>>

AddProfile ==
    /\ added < Versions
    /\ added' = added + 1
    /\ profile' = added'
    /\ UNCHANGED <<record, server, net, clients, faulted>>

DeleteProfile ==
    /\ profile # Nil
    /\ profile' = Nil
    /\ UNCHANGED <<record, added, server, net, clients, faulted>>

-----------------------------------------------------------------------------
(* The network.  A packet is delivered, or it is lost, or it is delivered    *)
(* and stays under way as a duplicate.                                       *)

Deliver(d, p, replies) ==
    \E left \in {net[d], net[d] \ {p}} :
        /\ net' = [net EXCEPT ![d] = left \cup replies]
        /\ faulted' = (faulted \/ p \in left)

Lose(d) ==
    /\ \/ \E p \in net[d] :
             /\ net' = [net EXCEPT ![d] = @ \ {p}]
             /\ UNCHANGED inbox
       \/ /\ d \in inbox
          /\ inbox' = inbox \ {d}
          /\ UNCHANGED net
    /\ faulted' = TRUE
    /\ UNCHANGED <<tables, buf, pc, doc, block, clients>>

-----------------------------------------------------------------------------
(* The server *)

\* ReadFromUDP overwrites the buffer that the goroutines of earlier requests
\* may not have looked at yet.
Read(d) ==
    /\ d \in inbox
    /\ inbox' = inbox \ {d}
    /\ buf' = d
    /\ pc' = [pc EXCEPT ![d] = "started"]
    /\ UNCHANGED <<tables, doc, block, net, clients, faulted>>

\* LookupForTFTP finds a static address and a profile that exists.
Configured(name) == name \in record /\ profile # Nil

Packet(config, n) ==
    [kind |-> "data", num |-> Number(n), doc |-> config, index |-> n, last |-> n = Size[config[1]]]

\* Faulty: the template is rendered again for each block.
DataRendered(config, n) ==
    Packet(IF profile = Nil THEN config ELSE <<config[1], profile>>, n)

\* Faulty: a block that fills the file to the end is taken for the last.
DataNoShortBlock(config, n) ==
    [Packet(config, n) EXCEPT !.last = FALSE]

Data(config, n) == Packet(config, n)

\* handleRRQ up to the first block.  What the goroutine finds in the buffer
\* is the last request read, or a mixture while the next one is copied in.
\* A template that does not render is refused as well.
HandleRRQ(d) ==
    /\ pc[d] = "started"
    /\ \E name \in {buf} \cup (IF inbox = {} THEN {} ELSE {Torn}) :
          \/ /\ Configured(name)
             /\ doc' = [doc EXCEPT ![d] = <<name, profile>>]
             /\ block' = [block EXCEPT ![d] = 1]
             /\ pc' = [pc EXCEPT ![d] = "wait"]
             /\ net' = [net EXCEPT ![d] = @ \cup {Data(<<name, profile>>, 1)}]
          \/ /\ pc' = [pc EXCEPT ![d] = "refused"]
             /\ net' = [net EXCEPT ![d] = @ \cup {[kind |-> "error"]}]
             /\ UNCHANGED <<doc, block>>
    /\ UNCHANGED <<tables, inbox, buf, clients, faulted>>

\* Faulty: the number of the ACK is not compared.
AcceptsAny(d, num) == TRUE
Accepts(d, num) == num = Number(block[d])

Finished(d) == block[d] = Size[doc[d][1]]

ReadAck(d) ==
    /\ pc[d] = "wait"
    /\ \E p \in net[d] :
          /\ p.kind = "ack"
          /\ \/ /\ Accepts(d, p.num) /\ ~Finished(d)
                /\ block' = [block EXCEPT ![d] = @ + 1]
                /\ Deliver(d, p, {Data(doc[d], block[d] + 1)})
                /\ UNCHANGED pc
             \/ /\ Accepts(d, p.num) /\ Finished(d)
                /\ pc' = [pc EXCEPT ![d] = "done"]
                /\ Deliver(d, p, {})
                /\ UNCHANGED block
             \/ /\ ~Accepts(d, p.num)
                /\ pc' = [pc EXCEPT ![d] = "failed"]
                /\ Deliver(d, p, {})
                /\ UNCHANGED block
    /\ UNCHANGED <<tables, inbox, buf, doc, clients>>

\* The socket reports an error, or brings what is no ACK.
StreamError(d) ==
    /\ pc[d] = "wait"
    /\ pc' = [pc EXCEPT ![d] = "failed"]
    /\ faulted' = TRUE
    /\ UNCHANGED <<tables, inbox, buf, doc, block, net, clients>>

-----------------------------------------------------------------------------
(* The client: it takes the block it waits for and acknowledges that and any *)
(* it has already.                                                           *)

Ask(d) ==
    /\ client[d] = "idle"
    /\ client' = [client EXCEPT ![d] = "asking"]
    /\ inbox' = inbox \cup {d}
    /\ UNCHANGED <<tables, buf, pc, doc, block, net, got, faulted>>

ReceiveData(d) ==
    /\ client[d] = "asking"
    /\ \E p \in net[d] :
          /\ p.kind = "data"
          /\ Deliver(d, p, {[kind |-> "ack", num |-> p.num]})
          /\ \/ /\ p.num = Number(Len(got[d]) + 1)
                /\ got' = [got EXCEPT ![d] = Append(@, <<p.doc, p.index>>)]
                /\ client' = [client EXCEPT ![d] = IF p.last THEN "complete" ELSE @]
             \/ /\ p.num # Number(Len(got[d]) + 1)
                /\ UNCHANGED clients
    /\ UNCHANGED <<tables, server>>

ReceiveError(d) ==
    /\ client[d] = "asking"
    /\ \E p \in net[d] : p.kind = "error" /\ Deliver(d, p, {})
    /\ client' = [client EXCEPT ![d] = "refused"]
    /\ UNCHANGED <<tables, server, got>>

-----------------------------------------------------------------------------

Next ==
    \/ AddProfile \/ DeleteProfile
    \/ \E d \in Devices :
          \/ AddDevice(d) \/ DeleteDevice(d)
          \/ Read(d) \/ HandleRRQ(d) \/ ReadAck(d) \/ StreamError(d)
          \/ Ask(d) \/ ReceiveData(d) \/ ReceiveError(d) \/ Lose(d)

Spec == Init /\ [][Next]_vars

\* The loop and the goroutines go on when there is a packet for them, and so
\* does the client; nothing is assumed of a packet that was lost.
Fairness ==
    \A d \in Devices :
        /\ WF_vars(Read(d)) /\ WF_vars(HandleRRQ(d)) /\ WF_vars(ReadAck(d))
        /\ WF_vars(ReceiveData(d)) /\ WF_vars(ReceiveError(d))

FairSpec == Spec /\ Fairness

-----------------------------------------------------------------------------
(* Properties *)

TftpTypeOK ==
    /\ record \subseteq Devices
    /\ profile \in (1 .. Versions) \cup {Nil}
    /\ added \in 0 .. Versions
    /\ inbox \subseteq Devices
    /\ buf \in Devices \cup {Nil}
    /\ pc \in [Devices -> {"none", "started", "wait", "done", "failed", "refused"}]
    /\ doc \in [Devices -> Docs \cup {Nil}]
    /\ block \in [Devices -> 0 .. Numbers]
    /\ net \in [Devices -> SUBSET Packets]
    /\ client \in [Devices -> {"idle", "asking", "complete", "refused"}]
    /\ got \in [Devices -> Seq(Docs \X Nat)]
    /\ faulted \in BOOLEAN

\* streamTFTPData: whatever the API changes and the network does to packets
\* and ACKs, a device has received the first blocks, in order, of one
\* rendering of one configuration, and all of them when it believes so.
Intact ==
    \A d \in Devices :
        /\ \A i \in 1 .. Len(got[d]) : got[d][i] = <<doc[d], i>>
        /\ client[d] = "complete" => Len(got[d]) = Size[doc[d][1]]

\* streamTFTPData returns nil only when the device has the whole file.
SuccessMeansReceived ==
    \A d \in Devices : pc[d] = "done" => client[d] = "complete"

\* ServeTFTP: over a network that loses and duplicates nothing, and with sockets
\* that work, a request is answered with a whole file or an error, although nobody
\* retransmits.
Answered ==
    \A d \in Devices :
        client[d] = "asking" ~> client[d] \in {"complete", "refused"} \/ faulted

\* design.md:468, 'RRQ arrives for "aabbccddeeff.cfg"', and 470: what is
\* looked up and streamed is the configuration of the MAC in that file name.
OwnConfig ==
    \A d \in Devices : client[d] = "complete" => doc[d][1] = d

=============================================================================
