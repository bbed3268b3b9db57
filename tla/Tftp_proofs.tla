----------------------------- MODULE Tftp_proofs -----------------------------
(***************************************************************************)
(* Proofs about Tftp, for any devices, file sizes and number of block      *)
(* numbers: what a device receives is intact, and the server reports       *)
(* success only for files that have arrived.                               *)
(*                                                                         *)
(* Both follow from the lock step: the server is at most one block ahead   *)
(* of the device, and every packet under way is a block that was sent or   *)
(* an acknowledgement of one that was received.                            *)
(***************************************************************************)
EXTENDS Tftp, TLAPS

Streams == {"wait", "done", "failed"}

Sent(d) == {Packet(doc[d], n) : n \in 1 .. block[d]}
Acked(d) == {[kind |-> "ack", num |-> Number(i)] : i \in 1 .. Len(got[d])}
Errors(d) == IF pc[d] = "refused" THEN {[kind |-> "error"]} ELSE {}

LockStep(d) ==
    /\ doc[d] \in Docs
    /\ block[d] \in 1 .. Size[doc[d][1]]
    /\ Len(got[d]) \in {block[d] - 1, block[d]}
    /\ client[d] = "complete" <=> Len(got[d]) = Size[doc[d][1]]
    /\ pc[d] = "done" => client[d] = "complete"

TransferInv(d) ==
    /\ d \in inbox \/ client[d] = "idle" => pc[d] = "none"
    /\ client[d] = "idle" => d \notin inbox
    /\ net[d] \subseteq Sent(d) \cup Acked(d) \cup Errors(d)
    /\ pc[d] \notin Streams => block[d] = 0 /\ got[d] = <<>> /\ client[d] # "complete"
    /\ pc[d] \in Streams => LockStep(d)
    /\ \A i \in 1 .. Len(got[d]) : got[d][i] = <<doc[d], i>>

TftpInv == TftpTypeOK /\ \A d \in Devices : TransferInv(d)

-----------------------------------------------------------------------------
LEMMA NumberType == ASSUME NEW n \in Nat PROVE Number(n) \in 0 .. Numbers - 1
BY TftpAssumption DEF Number

\* Within a file of at most Numbers blocks a number names one block.
LEMMA NumberInjective ==
    ASSUME NEW i \in 1 .. Numbers, NEW j \in 1 .. Numbers, Number(i) = Number(j)
    PROVE  i = j
<1>1. \A k \in 1 .. Numbers : Number(k) = IF k = Numbers THEN 0 ELSE k
  <2> SUFFICES ASSUME NEW k \in 1 .. Numbers
               PROVE  Number(k) = IF k = Numbers THEN 0 ELSE k
    OBVIOUS
  <2>1. CASE k = Numbers
    BY <2>1, TftpAssumption DEF Number
  <2>2. CASE k # Numbers
    BY <2>2, TftpAssumption DEF Number
  <2> QED
    BY <2>1, <2>2
<1> QED
  BY <1>1, TftpAssumption

LEMMA PacketType ==
    ASSUME NEW c \in Docs, NEW n \in Nat
    PROVE  /\ Packet(c, n) \in Packets
           /\ Packet(c, n).kind = "data"
           /\ Packet(c, n).num = Number(n)
           /\ Packet(c, n).doc = c
           /\ Packet(c, n).index = n
           /\ Packet(c, n).last = (n = Size[c[1]])
BY NumberType DEF Packet, Packets

\* A step that leaves a transfer alone, but for losing or taking in packets.
LEMMA Frame ==
    ASSUME TftpInv, NEW d \in Devices,
           d \in inbox' => d \in inbox,
           pc'[d] = pc[d], doc'[d] = doc[d], block'[d] = block[d],
           client'[d] = client[d], got'[d] = got[d], net'[d] \subseteq net[d]
    PROVE  TransferInv(d)'
BY DEF TftpInv, TransferInv, LockStep, Sent, Acked, Errors

LEMMA InitTftp == Init => TftpInv
<1> SUFFICES ASSUME Init PROVE TftpInv
  OBVIOUS
<1>1. TftpTypeOK
  <2>1. got \in [Devices -> Seq(Docs \X Nat)]
    BY DEF Init
  <2>2. added \in 0 .. Versions /\ block \in [Devices -> 0 .. Numbers]
    BY TftpAssumption DEF Init
  <2> QED
    BY <2>1, <2>2 DEF Init, TftpTypeOK
<1>2. ASSUME NEW d \in Devices PROVE TransferInv(d)
  BY DEF Init, TransferInv, Streams
<1> QED
  BY <1>1, <1>2 DEF TftpInv

-----------------------------------------------------------------------------
(* One lemma per kind of step; each step is about one device. *)

LEMMA TablesStep ==
    ASSUME TftpInv, UNCHANGED <<server, net, clients, faulted>>,
           AddProfile \/ DeleteProfile \/ (\E d \in Devices : AddDevice(d) \/ DeleteDevice(d))
    PROVE  TftpInv'
<1>1. TftpTypeOK'
  <2>1. /\ record' \subseteq Devices
        /\ profile' \in (1 .. Versions) \cup {Nil}
        /\ added' \in 0 .. Versions
    <3>1. CASE AddProfile
      BY <3>1, TftpAssumption DEF TftpInv, TftpTypeOK, AddProfile
    <3>2. CASE DeleteProfile
      BY <3>2 DEF TftpInv, TftpTypeOK, DeleteProfile
    <3>3. CASE \E d \in Devices : AddDevice(d) \/ DeleteDevice(d)
      BY <3>3 DEF TftpInv, TftpTypeOK, AddDevice, DeleteDevice
    <3> QED
      BY <3>1, <3>2, <3>3
  <2> QED
    BY <2>1 DEF TftpInv, TftpTypeOK, server, clients
<1>2. ASSUME NEW d \in Devices PROVE TransferInv(d)'
  BY Frame DEF server, clients
<1> QED
  BY <1>1, <1>2 DEF TftpInv

LEMMA LoseStep ==
    ASSUME TftpInv, NEW d \in Devices, Lose(d)
    PROVE  TftpInv'
<1>1. TftpTypeOK'
  BY DEF TftpInv, TftpTypeOK, Lose, tables, clients
<1>2. ASSUME NEW e \in Devices PROVE TransferInv(e)'
  <2>1. net'[e] \subseteq net[e] /\ inbox' \subseteq inbox
    <3>1. net \in [Devices -> SUBSET Packets]
      BY DEF TftpInv, TftpTypeOK
    <3>2. CASE UNCHANGED net /\ inbox' = inbox \ {d}
      BY <3>2
    <3>3. ASSUME NEW p \in net[d], net' = [net EXCEPT ![d] = @ \ {p}], UNCHANGED inbox
          PROVE  net'[e] \subseteq net[e] /\ inbox' \subseteq inbox
      BY <3>1, <3>3
    <3> QED BY <3>2, <3>3 DEF Lose
  <2> QED
    BY <2>1, Frame DEF Lose, clients
<1> QED
  BY <1>1, <1>2 DEF TftpInv

LEMMA AskStep ==
    ASSUME TftpInv, NEW d \in Devices, Ask(d)
    PROVE  TftpInv'
<1>1. TftpTypeOK'
  BY DEF TftpInv, TftpTypeOK, Ask, tables
<1>2. ASSUME NEW e \in Devices PROVE TransferInv(e)'
  <2>1. CASE e = d
    BY <2>1 DEF TftpInv, TftpTypeOK, TransferInv, LockStep, Sent, Acked, Errors, Streams, Ask
  <2>2. CASE e # d
    BY <2>2, Frame DEF TftpInv, TftpTypeOK, Ask
  <2> QED
    BY <2>1, <2>2
<1> QED
  BY <1>1, <1>2 DEF TftpInv

LEMMA ReadStep ==
    ASSUME TftpInv, NEW d \in Devices, Read(d)
    PROVE  TftpInv'
<1>1. TftpTypeOK'
  BY DEF TftpInv, TftpTypeOK, Read, tables, clients
<1>2. ASSUME NEW e \in Devices PROVE TransferInv(e)'
  <2>1. CASE e = d
    <3>1. pc[d] = "none" /\ pc'[d] = "started" /\ d \notin inbox'
      BY DEF TftpInv, TftpTypeOK, TransferInv, Read
    <3>2. UNCHANGED <<doc, block, net, client, got>>
      BY DEF Read, clients
    <3>3. /\ Sent(d)' = Sent(d) /\ Acked(d)' = Acked(d)
          /\ Errors(d) = {}
      BY <3>1, <3>2 DEF Sent, Acked, Errors
    <3>4. d \in inbox /\ TransferInv(d)
      BY DEF TftpInv, Read
    <3>5. client[d] # "idle"
      BY <3>4, <3>1 DEF TransferInv
    <3> QED
      BY <2>1, <3>1, <3>2, <3>3, <3>4, <3>5 DEF TransferInv, Streams
  <2>2. CASE e # d
    BY <2>2, Frame DEF TftpInv, TftpTypeOK, Read, clients
  <2> QED
    BY <2>1, <2>2
<1> QED
  BY <1>1, <1>2 DEF TftpInv

\* The goroutine finds some device's file, or refuses.
LEMMA HandleStep ==
    ASSUME TftpInv, NEW d \in Devices, HandleRRQ(d)
    PROVE  TftpInv'
<1>1. PICK name \in Devices \cup {Nil, Torn} :
         \/ /\ Configured(name)
            /\ doc' = [doc EXCEPT ![d] = <<name, profile>>]
            /\ block' = [block EXCEPT ![d] = 1]
            /\ pc' = [pc EXCEPT ![d] = "wait"]
            /\ net' = [net EXCEPT ![d] = @ \cup {Packet(<<name, profile>>, 1)}]
         \/ /\ pc' = [pc EXCEPT ![d] = "refused"]
            /\ net' = [net EXCEPT ![d] = @ \cup {[kind |-> "error"]}]
            /\ UNCHANGED <<doc, block>>
  <2>1. buf \in Devices \cup {Nil}
    BY DEF TftpInv, TftpTypeOK
  <2>2. PICK name \in {buf} \cup (IF inbox = {} THEN {} ELSE {Torn}) :
          \/ /\ Configured(name)
             /\ doc' = [doc EXCEPT ![d] = <<name, profile>>]
             /\ block' = [block EXCEPT ![d] = 1]
             /\ pc' = [pc EXCEPT ![d] = "wait"]
             /\ net' = [net EXCEPT ![d] = @ \cup {Packet(<<name, profile>>, 1)}]
          \/ /\ pc' = [pc EXCEPT ![d] = "refused"]
             /\ net' = [net EXCEPT ![d] = @ \cup {[kind |-> "error"]}]
             /\ UNCHANGED <<doc, block>>
    BY DEF HandleRRQ, Data
  <2>3. name \in Devices \cup {Nil, Torn}
    BY <2>1, <2>2
  <2> QED
    BY <2>2, <2>3
<1>2. /\ pc[d] = "started"
      /\ UNCHANGED <<inbox, buf, client, got, faulted, tables>>
  BY DEF HandleRRQ, clients
<1>3. /\ TransferInv(d) /\ TftpTypeOK
      /\ block[d] = 0 /\ got[d] = <<>> /\ client[d] # "complete"
      /\ net[d] = {} /\ d \notin inbox /\ client[d] # "idle"
  <2>1. TransferInv(d) /\ TftpTypeOK
    BY DEF TftpInv
  <2>2. block[d] = 0 /\ got[d] = <<>> /\ client[d] # "complete" /\ d \notin inbox /\ client[d] # "idle"
    BY <2>1, <1>2 DEF TransferInv, Streams
  <2>3. Sent(d) = {} /\ Acked(d) = {} /\ Errors(d) = {}
    BY <2>2, <1>2 DEF Sent, Acked, Errors
  <2> QED
    BY <2>1, <2>2, <2>3 DEF TransferInv
<1>4. TftpTypeOK' /\ TransferInv(d)'
  <2>1. CASE pc' = [pc EXCEPT ![d] = "wait"]
    <3> DEFINE c == <<name, profile>>
    <3>1. /\ Configured(name)
          /\ doc' = [doc EXCEPT ![d] = c]
          /\ block' = [block EXCEPT ![d] = 1]
          /\ net' = [net EXCEPT ![d] = @ \cup {Packet(c, 1)}]
      BY <1>1, <1>3, <2>1 DEF TftpTypeOK
    <3>2. c \in Docs /\ Size[c[1]] \in 1 .. Numbers
      BY <3>1, <1>3, TftpAssumption DEF Configured, TftpTypeOK, Docs
    <3>3. Packet(c, 1) \in Packets
      BY <3>2, PacketType
    <3> HIDE DEF c
    <3>4. TftpTypeOK'
      BY <1>2, <1>3, <2>1, <3>1, <3>2, <3>3, TftpAssumption DEF TftpTypeOK, tables
    <3>5. /\ pc'[d] = "wait" /\ doc'[d] = c /\ block'[d] = 1 /\ net'[d] = {Packet(c, 1)}
          /\ got'[d] = <<>> /\ client'[d] # "complete" /\ client'[d] # "idle" /\ d \notin inbox'
      BY <1>2, <1>3, <2>1, <3>1 DEF TftpTypeOK
    <3>6. net'[d] \subseteq Sent(d)'
      BY <3>5 DEF Sent
    <3>7. LockStep(d)'
      BY <3>2, <3>5, TftpAssumption DEF LockStep
    <3> QED
      BY <3>4, <3>5, <3>6, <3>7 DEF TransferInv, Streams
  <2>2. CASE pc' # [pc EXCEPT ![d] = "wait"]
    <3>1. /\ pc' = [pc EXCEPT ![d] = "refused"]
          /\ net' = [net EXCEPT ![d] = @ \cup {[kind |-> "error"]}]
          /\ UNCHANGED <<doc, block>>
      BY <1>1, <2>2
    <3>2. TftpTypeOK'
      BY <1>2, <1>3, <3>1 DEF TftpTypeOK, tables, Packets
    <3>3. pc'[d] = "refused" /\ net'[d] = {[kind |-> "error"]}
      BY <1>3, <3>1 DEF TftpTypeOK
    <3>4. net'[d] \subseteq Errors(d)'
      BY <3>3 DEF Errors
    <3> QED
      BY <1>2, <1>3, <3>1, <3>2, <3>3, <3>4 DEF TransferInv, Streams
  <2> QED
    BY <2>1, <2>2
<1>5. ASSUME NEW e \in Devices, e # d PROVE TransferInv(e)'
  BY <1>1, <1>2, <1>3, <1>5, Frame DEF TftpTypeOK
<1> QED
  BY <1>4, <1>5 DEF TftpInv

\* The number that is accepted is that of the block waited for, which the
\* device has therefore received.
LEMMA AckStep ==
    ASSUME TftpInv, NEW d \in Devices, ReadAck(d)
    PROVE  TftpInv'
<1>1. PICK p \in net[d] :
         /\ p.kind = "ack"
         /\ \/ /\ p.num = Number(block[d]) /\ block[d] # Size[doc[d][1]]
               /\ block' = [block EXCEPT ![d] = @ + 1]
               /\ Deliver(d, p, {Packet(doc[d], block[d] + 1)})
               /\ UNCHANGED pc
            \/ /\ p.num = Number(block[d]) /\ block[d] = Size[doc[d][1]]
               /\ pc' = [pc EXCEPT ![d] = "done"]
               /\ Deliver(d, p, {})
               /\ UNCHANGED block
            \/ /\ pc' = [pc EXCEPT ![d] = "failed"]
               /\ Deliver(d, p, {})
               /\ UNCHANGED block
  BY DEF ReadAck, Accepts, Finished, Data
<1>2. /\ pc[d] = "wait"
      /\ UNCHANGED <<inbox, buf, doc, client, got, tables>>
  BY DEF ReadAck, clients
<1>3. /\ TransferInv(d) /\ TftpTypeOK /\ LockStep(d)
      /\ doc[d] \in Docs /\ Size[doc[d][1]] \in 1 .. Numbers
      /\ block[d] \in 1 .. Size[doc[d][1]]
      /\ Len(got[d]) \in Nat /\ Errors(d) = {}
      /\ d \notin inbox /\ client[d] # "idle"
  <2>1. TransferInv(d) /\ TftpTypeOK /\ Errors(d) = {} /\ Len(got[d]) \in Nat
    BY <1>2 DEF TftpInv, TftpTypeOK, Errors
  <2>2. LockStep(d) /\ d \notin inbox /\ client[d] # "idle"
    BY <1>2, <2>1 DEF TransferInv, Streams
  <2>3. doc[d][1] \in Devices
    BY <2>2 DEF LockStep, Docs
  <2> QED
    BY <2>1, <2>2, <2>3, TftpAssumption DEF LockStep
<1>4. PICK i \in 1 .. Len(got[d]) : p.num = Number(i)
  <2>1. p \in Sent(d) \cup Acked(d)
    BY <1>1, <1>3 DEF TransferInv
  <2>2. p \notin Sent(d)
    <3>1. ASSUME NEW n \in 1 .. block[d] PROVE Packet(doc[d], n).kind = "data"
      BY <1>3, PacketType
    <3> QED
      BY <1>1, <3>1 DEF Sent
  <2> QED
    BY <2>1, <2>2 DEF Acked
<1>5. CASE p.num = Number(block[d]) /\ block[d] # Size[doc[d][1]] /\ block' = [block EXCEPT ![d] = @ + 1]
           /\ Deliver(d, p, {Packet(doc[d], block[d] + 1)}) /\ UNCHANGED pc
  <2> DEFINE q == Packet(doc[d], block[d] + 1)
  <2>1. i = block[d] /\ Len(got[d]) = block[d]
    <3>1. i \in 1 .. Numbers /\ block[d] \in 1 .. Numbers
      BY <1>3, TftpAssumption DEF LockStep
    <3>2. i = block[d]
      BY <3>1, <1>4, <1>5, NumberInjective
    <3> QED
      BY <3>2, <1>3 DEF LockStep
  <2>2. /\ q \in Packets /\ block[d] + 1 \in 1 .. Size[doc[d][1]]
    BY <1>3, <1>5, PacketType
  <2>3. PICK left \in {net[d], net[d] \ {p}} :
           /\ net' = [net EXCEPT ![d] = left \cup {q}]
           /\ faulted' = (faulted \/ p \in left)
    <3>1. Deliver(d, p, {q})
      BY <1>5
    <3> HIDE DEF q
    <3> QED BY <3>1 DEF Deliver
  <2> HIDE DEF q
  <2>4. TftpTypeOK'
    <3>1. net' \in [Devices -> SUBSET Packets]
      BY <1>3, <2>2, <2>3 DEF TftpTypeOK
    <3>2. block' \in [Devices -> 0 .. Numbers]
      BY <1>3, <1>5, <2>2, TftpAssumption DEF TftpTypeOK
    <3>3. faulted' \in BOOLEAN
      BY <2>3
    <3>4. UNCHANGED <<pc, inbox, buf, doc, client, got, record, profile, added>>
      BY <1>2, <1>5 DEF tables
    <3> QED BY <1>3, <3>1, <3>2, <3>3, <3>4 DEF TftpTypeOK
  <2>5. block'[d] = block[d] + 1 /\ net'[d] \subseteq net[d] \cup {q}
    BY <1>3, <1>5, <2>3 DEF TftpTypeOK
  <2>6. /\ Acked(d)' = Acked(d)
        /\ Sent(d) \subseteq Sent(d)' /\ q \in Sent(d)'
    <3>1. 1 .. block[d] \subseteq 1 .. block'[d] /\ block[d] + 1 \in 1 .. block'[d]
      BY <1>3, <2>5, TftpAssumption
    <3> QED
      BY <1>2, <2>5, <3>1 DEF Sent, Acked, q
  <2>7. LockStep(d)'
    BY <1>2, <1>3, <1>5, <2>1, <2>2, <2>5, TftpAssumption DEF LockStep
  <2>8. TransferInv(d)'
    BY <1>2, <1>3, <1>5, <2>5, <2>6, <2>7 DEF TransferInv, Streams
  <2>9. ASSUME NEW e \in Devices, e # d PROVE TransferInv(e)'
    BY <1>2, <1>3, <1>5, <2>3, <2>9, Frame DEF TftpTypeOK
  <2> QED
    BY <2>4, <2>8, <2>9 DEF TftpInv
<1>6. ASSUME UNCHANGED block, Deliver(d, p, {}), NEW s \in {"done", "failed"},
             pc' = [pc EXCEPT ![d] = s],
             s = "done" => client[d] = "complete"
      PROVE  TftpInv'
  <2>1. PICK left \in {net[d], net[d] \ {p}} :
           /\ net' = [net EXCEPT ![d] = left]
           /\ faulted' = (faulted \/ p \in left)
    BY <1>6 DEF Deliver
  <2>2. TftpTypeOK'
    BY <1>2, <1>3, <1>6, <2>1 DEF TftpTypeOK, tables
  <2>3. pc'[d] = s /\ net'[d] \subseteq net[d]
    BY <1>3, <1>6, <2>1 DEF TftpTypeOK
  <2>4. /\ Acked(d)' = Acked(d) /\ Sent(d)' = Sent(d)
    BY <1>2, <1>6 DEF Sent, Acked
  <2>5. LockStep(d)'
    BY <1>2, <1>3, <1>6, <2>3 DEF LockStep
  <2>6. TransferInv(d)'
    BY <1>2, <1>3, <1>6, <2>3, <2>4, <2>5 DEF TransferInv, Streams
  <2>7. ASSUME NEW e \in Devices, e # d PROVE TransferInv(e)'
    BY <1>2, <1>3, <1>6, <2>1, <2>7, Frame DEF TftpTypeOK
  <2> QED
    BY <2>2, <2>6, <2>7 DEF TftpInv
<1>7. CASE p.num = Number(block[d]) /\ block[d] = Size[doc[d][1]] /\ pc' = [pc EXCEPT ![d] = "done"]
           /\ Deliver(d, p, {}) /\ UNCHANGED block
  <2>1. i \in 1 .. Numbers /\ block[d] \in 1 .. Numbers
    BY <1>3, TftpAssumption DEF LockStep
  <2>2. i = block[d]
    BY <2>1, <1>4, <1>7, NumberInjective
  <2>3. client[d] = "complete"
    BY <2>2, <1>3, <1>7 DEF LockStep
  <2> QED
    BY <2>3, <1>6, <1>7
<1> QED
  BY <1>1, <1>5, <1>6, <1>7

-----------------------------------------------------------------------------
\* The block that has the number waited for is the next one.
LEMMA DataStep ==
    ASSUME TftpInv, NEW d \in Devices, ReceiveData(d)
    PROVE  TftpInv'
<1>1. PICK p \in net[d] :
         /\ p.kind = "data"
         /\ Deliver(d, p, {[kind |-> "ack", num |-> p.num]})
         /\ \/ /\ p.num = Number(Len(got[d]) + 1)
               /\ got' = [got EXCEPT ![d] = Append(@, <<p.doc, p.index>>)]
               /\ client' = [client EXCEPT ![d] = IF p.last THEN "complete" ELSE @]
            \/ /\ p.num # Number(Len(got[d]) + 1)
               /\ UNCHANGED clients
  BY DEF ReceiveData
<1>2. /\ client[d] = "asking"
      /\ UNCHANGED <<inbox, buf, pc, doc, block, tables>>
  BY DEF ReceiveData, server
<1>3. TransferInv(d) /\ TftpTypeOK /\ Len(got[d]) \in Nat /\ got[d] \in Seq(Docs \X Nat)
  BY DEF TftpInv, TftpTypeOK
<1>4. p \in Sent(d)
  BY <1>1, <1>3 DEF TransferInv, Acked, Errors
<1>5. pc[d] \in Streams
  <2>1. 1 .. block[d] # {}
    BY <1>4 DEF Sent
  <2> QED
    BY <2>1, <1>3 DEF TransferInv
<1>6. /\ LockStep(d)
      /\ doc[d] \in Docs /\ Size[doc[d][1]] \in 1 .. Numbers
      /\ block[d] \in 1 .. Size[doc[d][1]]
      /\ Len(got[d]) < Size[doc[d][1]]
      /\ pc[d] \in {"wait", "failed"}
      /\ Errors(d) = {}
  <2>1. LockStep(d) /\ pc[d] # "refused" /\ Errors(d) = {}
    BY <1>3, <1>5 DEF TransferInv, Streams, Errors
  <2>2. doc[d] \in Docs /\ doc[d][1] \in Devices
    BY <2>1 DEF LockStep, Docs
  <2>3. Size[doc[d][1]] \in 1 .. Numbers /\ block[d] \in 1 .. Size[doc[d][1]]
    BY <2>1, <2>2, TftpAssumption DEF LockStep
  <2>4. Len(got[d]) # Size[doc[d][1]] /\ Len(got[d]) <= block[d]
    BY <1>2, <2>1, <2>3, TftpAssumption DEF LockStep
  <2>5. Len(got[d]) < Size[doc[d][1]]
    BY <1>3, <2>3, <2>4, TftpAssumption
  <2>6. pc[d] \in {"wait", "failed"}
    BY <1>2, <1>5, <2>1 DEF LockStep, Streams
  <2> QED
    BY <2>1, <2>2, <2>3, <2>5, <2>6
<1>7. PICK n \in 1 .. block[d] : p = Packet(doc[d], n)
  BY <1>4 DEF Sent
<1>8. /\ p.num = Number(n) /\ p.doc = doc[d] /\ p.index = n /\ p.last = (n = Size[doc[d][1]])
      /\ n \in 1 .. Numbers /\ n \in Nat /\ Len(got[d]) + 1 \in 1 .. Numbers
      /\ n <= Len(got[d]) + 1
  <2>1. n \in Nat /\ n \in 1 .. Numbers /\ Len(got[d]) + 1 \in 1 .. Numbers
    BY <1>3, <1>6, TftpAssumption
  <2>2. n <= Len(got[d]) + 1
    BY <1>3, <1>6 DEF LockStep
  <2>3. /\ p.num = Number(n) /\ p.doc = doc[d] /\ p.index = n
        /\ p.last = (n = Size[doc[d][1]])
    BY <1>6, <1>7, <2>1, PacketType
  <2> QED
    BY <2>1, <2>2, <2>3
<1> DEFINE a == [kind |-> "ack", num |-> Number(n)]
<1>9. PICK left \in {net[d], net[d] \ {p}} :
         /\ net' = [net EXCEPT ![d] = left \cup {a}]
         /\ faulted' = (faulted \/ p \in left)
  BY <1>1, <1>8 DEF Deliver
<1>10. a \in Packets
  BY <1>8, NumberType DEF Packets
<1>11. net' \in [Devices -> SUBSET Packets] /\ net'[d] \subseteq net[d] \cup {a}
  <2> HIDE DEF a
  <2> QED
    BY <1>3, <1>9, <1>10 DEF TftpTypeOK
<1>12. faulted' \in BOOLEAN /\ (\A e \in Devices : e # d => net'[e] = net[e])
  BY <1>3, <1>9 DEF TftpTypeOK
<1>13. Sent(d)' = Sent(d)
  BY <1>2 DEF Sent
<1>14. CASE p.num = Number(Len(got[d]) + 1) /\ got' = [got EXCEPT ![d] = Append(@, <<p.doc, p.index>>)]
            /\ client' = [client EXCEPT ![d] = IF p.last THEN "complete" ELSE @]
  <2>1. n = Len(got[d]) + 1
    BY <1>8, <1>14, NumberInjective
  <2> DEFINE x == <<doc[d], n>>
             q == Append(got[d], x)
  <2>2. x \in Docs \X Nat
    BY <1>6, <1>8
  <2>3. /\ q \in Seq(Docs \X Nat) /\ Len(q) = Len(got[d]) + 1
        /\ q[Len(got[d]) + 1] = x
        /\ \A j \in 1 .. Len(got[d]) : q[j] = got[d][j]
    <3> HIDE DEF x
    <3> QED
      BY <1>3, <2>2
  <2>4. got' = [got EXCEPT ![d] = q]
    BY <1>8, <1>14
  <2> HIDE DEF q
  <2>5. got'[d] = q /\ got' \in [Devices -> Seq(Docs \X Nat)]
    BY <1>3, <2>3, <2>4 DEF TftpTypeOK
  <2>6. /\ client' \in [Devices -> {"idle", "asking", "complete", "refused"}]
        /\ client'[d] = IF n = Size[doc[d][1]] THEN "complete" ELSE "asking"
    BY <1>2, <1>3, <1>8, <1>14 DEF TftpTypeOK
  <2>7. TftpTypeOK'
    BY <1>2, <1>3, <1>11, <1>12, <2>5, <2>6 DEF TftpTypeOK, tables
  <2>8. Acked(d) \subseteq Acked(d)' /\ a \in Acked(d)'
    <3>1. Len(got'[d]) = n /\ 1 .. Len(got[d]) \subseteq 1 .. n /\ n \in 1 .. n
      BY <1>3, <1>8, <2>1, <2>3, <2>5
    <3> QED
      BY <3>1 DEF Acked
  <2>9. \A j \in 1 .. Len(got'[d]) : got'[d][j] = <<doc'[d], j>>
    <3> SUFFICES ASSUME NEW j \in 1 .. Len(got[d]) + 1 PROVE q[j] = <<doc[d], j>>
      BY <1>2, <2>3, <2>5
    <3>1. CASE j \in 1 .. Len(got[d])
      BY <3>1, <1>3, <2>3 DEF TransferInv
    <3>2. CASE j \notin 1 .. Len(got[d])
      <4>1. j = n
        BY <3>2, <1>3, <2>1
      <4> QED
        BY <4>1, <2>1, <2>3
    <3> QED
      BY <3>1, <3>2
  <2>10. LockStep(d)'
    <3>1. Len(got'[d]) = n
      BY <2>1, <2>3, <2>5
    <3>2. n = block[d]
      BY <1>3, <1>6, <1>7, <2>1 DEF LockStep
    <3>3. pc[d] # "done"
      BY <1>6
    <3> QED
      BY <1>2, <1>6, <2>6, <3>1, <3>2, <3>3 DEF LockStep
  <2>11. net'[d] \subseteq Sent(d)' \cup Acked(d)'
    <3>1. net[d] \subseteq Sent(d) \cup Acked(d)
      BY <1>3, <1>6 DEF TransferInv
    <3> QED
      BY <3>1, <1>11, <1>13, <2>8
  <2>12. TransferInv(d)'
    <3>1. d \notin inbox' /\ pc'[d] \in Streams /\ client'[d] # "idle"
      BY <1>2, <1>3, <1>5, <1>6, <2>6 DEF TransferInv
    <3> QED
      BY <3>1, <2>9, <2>10, <2>11 DEF TransferInv
  <2>13. ASSUME NEW e \in Devices, e # d PROVE TransferInv(e)'
    BY <1>2, <1>3, <1>12, <1>14, <2>4, <2>13, Frame DEF TftpTypeOK
  <2> QED
    BY <2>7, <2>12, <2>13 DEF TftpInv
<1>15. CASE p.num # Number(Len(got[d]) + 1) /\ UNCHANGED clients
  <2>1. n \in 1 .. Len(got[d])
    <3>1. n # Len(got[d]) + 1
      BY <1>8, <1>15
    <3> QED
      BY <3>1, <1>3, <1>8
  <2>2. UNCHANGED <<client, got>>
    BY <1>15 DEF clients
  <2>3. Acked(d)' = Acked(d) /\ a \in Acked(d) /\ Errors(d)' = Errors(d)
    BY <1>2, <2>1, <2>2 DEF Acked, Errors
  <2>4. net'[d] \subseteq Sent(d)' \cup Acked(d)' \cup Errors(d)'
    BY <1>3, <1>11, <1>13, <2>3 DEF TransferInv
  <2>5. TftpTypeOK'
    BY <1>2, <1>3, <1>11, <1>12, <2>2 DEF TftpTypeOK, tables
  <2>6. TransferInv(d)'
    <3>1. LockStep(d)'
      BY <1>2, <1>6, <2>2 DEF LockStep
    <3> QED
      BY <1>2, <1>3, <1>5, <2>2, <2>4, <3>1 DEF TransferInv
  <2>7. ASSUME NEW e \in Devices, e # d PROVE TransferInv(e)'
    BY <1>2, <1>12, <2>2, <2>7, Frame
  <2> QED
    BY <2>5, <2>6, <2>7 DEF TftpInv
<1> QED
  BY <1>1, <1>14, <1>15

LEMMA ErrorStep ==
    ASSUME TftpInv, NEW d \in Devices, ReceiveError(d)
    PROVE  TftpInv'
<1>1. PICK p \in net[d] : p.kind = "error" /\ Deliver(d, p, {})
  BY DEF ReceiveError
<1>2. /\ client[d] = "asking"
      /\ client' = [client EXCEPT ![d] = "refused"]
      /\ UNCHANGED <<inbox, buf, pc, doc, block, tables, got>>
  BY DEF ReceiveError, server
<1>3. TransferInv(d) /\ TftpTypeOK
  BY DEF TftpInv
<1>4. PICK left \in {net[d], net[d] \ {p}} :
         /\ net' = [net EXCEPT ![d] = left]
         /\ faulted' = (faulted \/ p \in left)
  BY <1>1 DEF Deliver
<1>5. pc[d] \notin Streams
  <2>1. ASSUME pc[d] \in Streams PROVE FALSE
    <3>1. doc[d] \in Docs /\ block[d] \in Nat
      BY <2>1, <1>3 DEF TransferInv, LockStep, TftpTypeOK
    <3>2. p \in Sent(d) \cup Acked(d)
      BY <2>1, <1>3 DEF TransferInv, Errors, Streams
    <3>3. \A n \in 1 .. block[d] : Packet(doc[d], n).kind = "data"
      BY <3>1, PacketType
    <3> QED
      BY <1>1, <3>2, <3>3 DEF Sent, Acked
  <2> QED
    BY <2>1
<1>6. TftpTypeOK'
  BY <1>2, <1>3, <1>4 DEF TftpTypeOK, tables
<1>7. /\ Sent(d)' = Sent(d) /\ Acked(d)' = Acked(d) /\ Errors(d)' = Errors(d)
      /\ net'[d] \subseteq net[d] /\ client'[d] = "refused"
  BY <1>2, <1>3, <1>4 DEF Sent, Acked, Errors, TftpTypeOK
<1>8. TransferInv(d)'
  BY <1>2, <1>3, <1>5, <1>7 DEF TransferInv
<1>9. ASSUME NEW e \in Devices, e # d PROVE TransferInv(e)'
  BY <1>2, <1>3, <1>4, <1>9, Frame DEF TftpTypeOK
<1> QED
  BY <1>6, <1>8, <1>9 DEF TftpInv

LEMMA StreamErrorStep ==
    ASSUME TftpInv, NEW d \in Devices, StreamError(d)
    PROVE  TftpInv'
<1>1. TransferInv(d) /\ TftpTypeOK /\ LockStep(d) /\ d \notin inbox /\ client[d] # "idle"
  BY DEF TftpInv, TransferInv, Streams, StreamError
<1>2. /\ pc[d] = "wait" /\ pc'[d] = "failed"
      /\ UNCHANGED <<inbox, buf, doc, block, net, client, got>>
  BY <1>1 DEF StreamError, clients, TftpTypeOK
<1>3. TftpTypeOK'
  BY <1>1, <1>2 DEF StreamError, TftpTypeOK, tables
<1>4. TransferInv(d)'
  <2>1. Sent(d)' = Sent(d) /\ Acked(d)' = Acked(d) /\ Errors(d) = {}
    BY <1>2 DEF Sent, Acked, Errors
  <2>2. LockStep(d)'
    BY <1>1, <1>2 DEF LockStep
  <2> QED
    BY <1>1, <1>2, <2>1, <2>2 DEF TransferInv, Streams
<1>5. ASSUME NEW e \in Devices, e # d PROVE TransferInv(e)'
  BY <1>1, <1>2, <1>5, Frame DEF TftpTypeOK, StreamError
<1> QED
  BY <1>3, <1>4, <1>5 DEF TftpInv

LEMMA StepTftp == ASSUME TftpInv, [Next]_vars PROVE TftpInv'
<1>1. CASE UNCHANGED vars
  <2>1. TftpTypeOK'
    BY <1>1 DEF TftpInv, TftpTypeOK, vars, tables, server, clients
  <2>2. ASSUME NEW d \in Devices PROVE TransferInv(d)'
    BY <1>1, Frame DEF vars, server, clients
  <2> QED
    BY <2>1, <2>2 DEF TftpInv
<1>2. CASE AddProfile \/ DeleteProfile \/ (\E d \in Devices : AddDevice(d) \/ DeleteDevice(d))
  BY <1>2, TablesStep DEF AddProfile, DeleteProfile, AddDevice, DeleteDevice
<1> QED
  BY <1>1, <1>2, LoseStep, AskStep, ReadStep, HandleStep, AckStep, StreamErrorStep, DataStep, ErrorStep
  DEF Next

-----------------------------------------------------------------------------
\* Records, buffer, goroutines and packets stay well typed; a block number is
\* always one that a uint16 of that width can hold.
THEOREM TftpTypeCorrect == Spec => []TftpTypeOK
<1>1. TftpInv => TftpTypeOK
  BY DEF TftpInv
<1> QED
  BY <1>1, InitTftp, StepTftp, PTL DEF Spec

\* streamTFTPData: for any file of at most as many blocks as there are
\* numbers, and any loss, delay and duplication, what a device has received
\* is the beginning of one rendering, and all of it when it is complete.
THEOREM TransferIntact == Spec => []Intact
<1>1. TftpInv => Intact
  <2> SUFFICES ASSUME TftpInv, NEW d \in Devices
               PROVE  /\ \A i \in 1 .. Len(got[d]) : got[d][i] = <<doc[d], i>>
                      /\ client[d] = "complete" => Len(got[d]) = Size[doc[d][1]]
    BY DEF Intact
  <2> QED
    BY DEF TftpInv, TransferInv, LockStep
<1> QED
  BY <1>1, InitTftp, StepTftp, PTL DEF Spec

\* streamTFTPData returns nil only for a file that has arrived.
THEOREM SuccessIsReceipt == Spec => []SuccessMeansReceived
<1>1. TftpInv => SuccessMeansReceived
  BY DEF TftpInv, TransferInv, LockStep, SuccessMeansReceived, Streams
<1> QED
  BY <1>1, InitTftp, StepTftp, PTL DEF Spec

=============================================================================
