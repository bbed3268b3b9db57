------------------------- MODULE SubnetManager_proofs -------------------------
(***************************************************************************)
(* Proofs about SubnetManager: whatever subnets are added and removed, an  *)
(* address has at most one active subnet, and a bound lease is in the      *)
(* store of one.                                                           *)
(*                                                                         *)
(* BoundInTable is not inductive: it needs to know that a REQUEST in the   *)
(* dispatch loop whose subnet went away finds nothing left to acknowledge. *)
(* Remove saw no offer in that store, and only the loop makes offers.      *)
(***************************************************************************)
EXTENDS SubnetManager, FiniteSetTheorems, TLAPS

\* No two active networks overlap, by the check that Add makes.
Apart ==
    \A m, n \in Active : m # n => ~overlaps(table[m].net, table[n].net)

\* A store is at hand past the look-up; a REQUEST has nothing to acknowledge in
\* a store that has left the table.
InFlight ==
    /\ pkt.pc # "idle" => pkt.store \in Stores \ unused /\ pkt.type # Nil
    /\ pkt.pc # "idle" /\ pkt.type = "request" /\ ~InTable(pkt.store)
         => \A ip \in Addresses : Phase(pkt.store, ip) \notin {"offered", "bound"}
    /\ op.pc # "idle" => /\ op.store \in Stores \ unused
                         /\ op.ip \in Addresses
                         /\ op.mac \in MACs

InUse == \A n \in Active : table[n].store \notin unused

TableInv == TableTypeOK /\ Apart /\ InUse /\ InFlight /\ BoundInTable

-----------------------------------------------------------------------------
LEMMA ActiveEntry ==
    ASSUME TableInv, NEW n \in Active
    PROVE  /\ n \in Names
           /\ table[n].net \in Networks
           /\ table[n].store \in Stores \ unused
           /\ InTable(table[n].store)
BY DEF TableInv, TableTypeOK, Active, InUse, InTable

LEMMA NothingOccupied ==
    ASSUME TableInv, NEW s \in Stores, OccupiedCount(s) = 0, NEW ip \in Addresses
    PROVE  Phase(s, ip) \notin {"reserved", "offered", "bound"}
<1> DEFINE O == {x \in Addresses : Phase(s, x) \in {"reserved", "offered", "bound"}}
<1>1. IsFiniteSet(O)
  BY NetworkAssumption, FS_Subset
<1>2. O = {}
  BY <1>1, FS_EmptySet DEF OccupiedCount
<1> QED
  BY <1>2

LEMMA OneLease ==
    ASSUME TableTypeOK, NEW s \in Stores, NEW ip \in Addresses,
           NEW x \in [phase : Phases, late : BOOLEAN],
           leases' = [leases EXCEPT ![s][ip] = x]
    PROVE  /\ leases' \in [Stores -> [Addresses -> [phase : Phases, late : BOOLEAN]]]
           /\ \A t \in Stores, i \in Addresses : (t # s \/ i # ip) => leases'[t][i] = leases[t][i]
           /\ leases'[s][ip] = x
<1>1. leases[s] \in [Addresses -> [phase : Phases, late : BOOLEAN]]
  BY DEF TableTypeOK
<1>2. [leases[s] EXCEPT ![ip] = x] \in [Addresses -> [phase : Phases, late : BOOLEAN]]
  BY <1>1
<1>3. leases' = [leases EXCEPT ![s] = [leases[s] EXCEPT ![ip] = x]]
  BY DEF TableTypeOK
<1> QED
  BY <1>1, <1>2, <1>3 DEF TableTypeOK

\* The same, for a phase that starts.
LEMMA OneHeld ==
    ASSUME TableTypeOK, NEW s \in Stores, NEW ip \in Addresses, NEW q \in Phases,
           leases' = [leases EXCEPT ![s][ip] = Held(q)]
    PROVE  /\ leases' \in [Stores -> [Addresses -> [phase : Phases, late : BOOLEAN]]]
           /\ \A t \in Stores, i \in Addresses : (t # s \/ i # ip) => leases'[t][i] = leases[t][i]
           /\ leases'[s][ip].phase = q
<1>1. Held(q) \in [phase : Phases, late : BOOLEAN] /\ Held(q).phase = q
  BY DEF Held
<1> DEFINE x == Held(q)
<1>2. /\ x \in [phase : Phases, late : BOOLEAN] /\ x.phase = q
      /\ leases' = [leases EXCEPT ![s][ip] = x]
  BY <1>1
<1> HIDE DEF x
<1>3. leases[s] \in [Addresses -> [phase : Phases, late : BOOLEAN]]
  BY DEF TableTypeOK
<1>4. [leases[s] EXCEPT ![ip] = x] \in [Addresses -> [phase : Phases, late : BOOLEAN]]
  BY <1>2, <1>3
<1> QED
  BY <1>2, <1>3, <1>4 DEF TableTypeOK

\* Steps that leave the table alone, and touch one store.
LEMMA LeaseStep ==
    ASSUME TableInv, TableTypeOK',
           UNCHANGED <<table, unused>>,
           NEW s \in Stores,
           \A t \in Stores, ip \in Addresses :
              \/ leases'[t][ip].phase = leases[t][ip].phase
              \/ leases'[t][ip].phase \notin {"offered", "bound"}
              \/ t = s /\ pkt'.pc = "idle" /\ (leases'[t][ip].phase = "bound" => InTable(s)),
           pkt' = pkt \/ pkt'.pc = "idle",
           op' = op \/ op'.pc = "idle"
    PROVE  TableInv'
<1> USE DEF TableInv
<1>1. Active' = Active /\ \A t \in Stores : InTable(t)' <=> InTable(t)
  BY DEF Active, InTable
<1>2. Apart' /\ InUse'
  BY <1>1 DEF Apart, InUse
<1>3. BoundInTable'
  <2> SUFFICES ASSUME NEW t \in Stores, NEW ip \in Addresses, leases'[t][ip].phase = "bound"
               PROVE  InTable(t)
    BY <1>1 DEF BoundInTable, Phase
  <2> QED
    BY DEF BoundInTable, Phase
<1>4. InFlight'
  BY <1>1 DEF InFlight, Phase
<1> QED
  BY <1>2, <1>3, <1>4

-----------------------------------------------------------------------------
LEMMA AddInv ==
    ASSUME TableInv, NEW name \in Names, NEW net \in Networks, Add(name, net)
    PROVE  TableInv'
<1> USE DEF TableInv, Add
<1>1. PICK s \in unused : /\ table' = [table EXCEPT ![name] = [net |-> net, store |-> s]]
                          /\ unused' = unused \ {s}
  OBVIOUS
<1>2. s \in Stores /\ [net |-> net, store |-> s] \in [net : Networks, store : Stores]
  BY <1>1 DEF TableTypeOK
<1>3. TableTypeOK'
  <2>1. table' \in [Names -> [net : Networks, store : Stores] \cup {Nil}]
    BY <1>1, <1>2 DEF TableTypeOK
  <2>2. unused' \subseteq Stores /\ Stores \ unused \subseteq Stores \ unused'
    BY <1>1 DEF TableTypeOK
  <2>3. reaped \subseteq Stores \ unused'
    BY <2>2 DEF TableTypeOK
  <2>4. pkt \in [pc : {"idle", "device", "handle"}, store : (Stores \ unused') \cup {Nil},
                 type : {"discover", "request", "release", "decline", Nil}]
    BY <2>2 DEF TableTypeOK
  <2>5. op \in [pc : {"idle", "reserve", "unreserve"}, mac : MACs \cup {Nil},
                ip : Addresses \cup {Nil}, store : (Stores \ unused') \cup {Nil}]
    BY <2>2 DEF TableTypeOK
  <2> QED
    BY <2>1, <2>2, <2>3, <2>4, <2>5 DEF TableTypeOK
<1>4. Active' \subseteq Active \cup {name}
  BY DEF Active, TableTypeOK
<1>5. \A n \in Active : n # name /\ table'[n] = table[n] /\ n \in Active'
  BY DEF Active, TableTypeOK
<1>6. name \in Active' => table'[name].net = net /\ table'[name].store = s
  BY <1>1 DEF TableTypeOK
<1>7. Apart'
  BY <1>4, <1>5, <1>6 DEF Apart, overlaps
<1>8. InUse'
  BY <1>1, <1>4, <1>5, <1>6 DEF InUse
<1>9. \A t \in Stores : InTable(t) => InTable(t)'
  BY <1>5 DEF InTable
<1>10. BoundInTable' /\ InFlight'
  BY <1>1, <1>9, <1>3 DEF BoundInTable, InFlight, Phase, TableTypeOK
<1> QED
  BY <1>3, <1>7, <1>8, <1>10

LEMMA RemoveInv ==
    ASSUME TableInv, NEW name \in Names, Remove(name)
    PROVE  TableInv'
<1> USE DEF TableInv, Remove
<1> DEFINE s == table[name].store
<1>1. name \in Active
  BY DEF Active
<1>2. s \in Stores /\ \A ip \in Addresses : Phase(s, ip) \notin {"reserved", "offered", "bound"}
  BY <1>1, ActiveEntry, NothingOccupied
<1>3. TableTypeOK'
  BY DEF TableTypeOK
<1>4. \A n \in Active' : n \in Active /\ table'[n] = table[n]
  BY DEF Active, TableTypeOK
<1>5. Apart' /\ InUse'
  BY <1>4 DEF Apart, InUse
<1>6. \A t \in Stores : InTable(t) /\ t # s => InTable(t)'
  <2> SUFFICES ASSUME NEW t \in Stores, NEW n \in Active, table[n].store = t, t # s
               PROVE  InTable(t)'
    BY DEF InTable
  <2>1. n # name /\ table'[n] = table[n] /\ n \in Active'
    BY DEF Active, TableTypeOK
  <2> QED
    BY <2>1 DEF InTable
<1>7. BoundInTable'
  <2> SUFFICES ASSUME NEW t \in Stores, NEW ip \in Addresses, Phase(t, ip) = "bound"
               PROVE  InTable(t)'
    BY DEF BoundInTable, Phase
  <2> QED
    BY <1>2, <1>6 DEF BoundInTable
<1>8. InFlight'
  <2>1. CASE pkt.store = s
    BY <1>2, <2>1 DEF InFlight, Phase
  <2>2. CASE pkt.store # s
    BY <1>6, <2>2 DEF InFlight, Phase
  <2> QED
    BY <2>1, <2>2
<1> QED
  BY <1>3, <1>5, <1>7, <1>8

\* The look-ups: a step that puts a store of the table at hand.
LEMMA LookupStep ==
    ASSUME TableInv, TableTypeOK', UNCHANGED <<table, unused, leases>>,
           \/ pkt' = pkt
           \/ pkt'.type # Nil /\ \E n \in Active : pkt'.store = table[n].store
           \/ pkt.pc # "idle" /\ pkt'.type = pkt.type /\ pkt'.store = pkt.store,
           \/ op' = op
           \/ op'.ip \in Addresses /\ op'.mac \in MACs /\ \E n \in Active : op'.store = table[n].store
    PROVE  TableInv'
<1> USE DEF TableInv
<1>1. Active' = Active /\ \A t : InTable(t)' <=> InTable(t)
  BY DEF Active, InTable
<1>2. Apart' /\ InUse' /\ BoundInTable'
  BY <1>1 DEF Apart, InUse, BoundInTable, Phase
<1>3. \A n \in Active : table[n].store \in Stores \ unused /\ InTable(table[n].store)
  BY ActiveEntry
<1>4. InFlight'
  BY <1>1, <1>3 DEF InFlight, Phase
<1> QED
  BY <1>2, <1>4

LEMMA TableNextInv == TableInv /\ [Next]_vars => TableInv'
<1> SUFFICES ASSUME TableInv, [Next]_vars
             PROVE  TableInv'
  OBVIOUS
<1>0. TableTypeOK /\ InFlight
  BY DEF TableInv
<1>1. ASSUME NEW name \in Names, NEW net \in Networks, Load(name, net) \/ addSubnet(name, net)
      PROVE  TableInv'
  BY <1>1, AddInv DEF Load, addSubnet
<1>2. ASSUME NEW name \in Names, Remove(name)
      PROVE  TableInv'
  BY <1>2, RemoveInv
<1>3. CASE List \/ (\E name \in Names : Start(name)) \/ UNCHANGED vars
  <2>1. TableTypeOK'
    <3>1. CASE List
      BY <1>0, <3>1 DEF List, TableTypeOK, Active
    <3>2. ASSUME NEW name \in Names, Start(name)
          PROVE  TableTypeOK'
      <4>1. table[name] # Nil => table[name].store \in Stores \ unused
        BY ActiveEntry DEF Active
      <4> QED
        BY <1>0, <3>2, <4>1 DEF Start, TableTypeOK
    <3>3. CASE UNCHANGED vars
      BY <1>0, <3>3 DEF vars, TableTypeOK
    <3> QED
      BY <1>3, <3>1, <3>2, <3>3
  <2> QED
    BY <1>3, <2>1, LookupStep DEF List, Start, vars
<1>4. ASSUME NEW s \in Stores, Sweep(s)
      PROVE  TableInv'
  <2>1. TableTypeOK'
    BY <1>0, <1>4 DEF Sweep, TableTypeOK, Held, Phases
  <2>2. \A t \in Stores, ip \in Addresses :
           leases'[t][ip].phase = leases[t][ip].phase \/ leases'[t][ip].phase = "free"
    BY <1>0, <1>4 DEF Sweep, TableTypeOK, Held
  <2> QED
    BY <1>4, <2>1, <2>2, LeaseStep DEF Sweep
<1>5. ASSUME NEW s \in Stores, NEW ip \in Addresses, Elapse(s, ip)
      PROVE  TableInv'
  <2> DEFINE x == [leases[s][ip] EXCEPT !.late = TRUE]
  <2>1. leases[s][ip] \in [phase : Phases, late : BOOLEAN]
    BY <1>0 DEF TableTypeOK
  <2>2. x \in [phase : Phases, late : BOOLEAN] /\ x.phase = leases[s][ip].phase
    BY <2>1
  <2>3. leases' = [leases EXCEPT ![s][ip] = x]
    <3>1. leases' = [leases EXCEPT ![s] = [leases[s] EXCEPT ![ip] = x]]
      BY <1>0, <1>5 DEF Elapse, TableTypeOK
    <3> QED
      BY <1>0, <3>1 DEF TableTypeOK
  <2> HIDE DEF x
  <2>4. leases' \in [Stores -> [Addresses -> [phase : Phases, late : BOOLEAN]]]
    BY <1>0, <2>2, <2>3, OneLease
  <2>5. \A t \in Stores, i \in Addresses : leases'[t][i].phase = leases[t][i].phase
    BY <1>0, <2>2, <2>3, OneLease
  <2>6. TableTypeOK'
    BY <1>0, <1>5, <2>4 DEF Elapse, TableTypeOK
  <2> QED
    BY <1>5, <2>5, <2>6, LeaseStep DEF Elapse
<1>6. ASSUME NEW type \in {"discover", "request", "release", "decline"}, NEW ip \in Addresses,
             ForPacket(type, ip)
      PROVE  TableInv'
  <2>1. CASE UNCHANGED pkt
    <3>1. TableTypeOK'
      BY <1>0, <1>6, <2>1 DEF ForPacket, TableTypeOK
    <3> QED
      BY <1>6, <2>1, <3>1, LookupStep DEF ForPacket
  <2>2. ASSUME NEW n \in Matches(ip), pkt' = [pc |-> "device", type |-> type, store |-> table[n].store]
        PROVE  TableInv'
    <3>1. n \in Active
      BY DEF Matches
    <3>2. table[n].store \in Stores \ unused
      BY <3>1, ActiveEntry
    <3>3. TableTypeOK'
      BY <1>0, <1>6, <2>2, <3>2 DEF ForPacket, TableTypeOK
    <3>4. pkt'.type # Nil
      BY <2>2, NilAssumption
    <3> QED
      BY <1>6, <2>2, <3>1, <3>3, <3>4, LookupStep DEF ForPacket
  <2> QED
    BY <1>6, <2>1, <2>2 DEF ForPacket
<1>7. CASE LookupForPacket
  <2>1. TableTypeOK'
    BY <1>0, <1>7 DEF LookupForPacket, TableTypeOK
  <2>2. pkt.pc # "idle" /\ pkt'.type = pkt.type /\ pkt'.store = pkt.store
    BY <1>0, <1>7 DEF LookupForPacket, TableTypeOK
  <2> QED
    BY <1>7, <2>1, <2>2, LookupStep DEF LookupForPacket
<1>8. ASSUME NEW ip \in Addresses, Handle(ip)
      PROVE  TableInv'
  <2> DEFINE s == pkt.store
  <2>1. s \in Stores /\ pkt.type \in {"discover", "request", "release", "decline"}
    BY <1>0, <1>8 DEF Handle, InFlight, TableTypeOK
  <2>2. pkt' = NoPacket /\ UNCHANGED <<table, unused, reaped, starting, running, op, static>>
    BY <1>8 DEF Handle
  <2>3. CASE UNCHANGED leases
    <3>1. TableTypeOK'
      BY <1>0, <2>2, <2>3 DEF TableTypeOK, NoPacket
    <3> QED
      BY <2>1, <2>2, <2>3, <3>1, LeaseStep DEF NoPacket
  <2>4. ASSUME NEW q \in Phases, leases' = [leases EXCEPT ![s][ip] = Held(q)],
               pkt.type = "request" => Phase(s, ip) \in {"offered", "bound"},
               q = "bound" => pkt.type = "request"
        PROVE  TableInv'
    <3>1. leases' \in [Stores -> [Addresses -> [phase : Phases, late : BOOLEAN]]]
      BY <1>0, <2>1, <2>4, OneHeld
    <3>2. TableTypeOK'
      BY <1>0, <2>2, <3>1 DEF TableTypeOK, NoPacket
    <3>3. \A t \in Stores, i \in Addresses : (t # s \/ i # ip) => leases'[t][i] = leases[t][i]
      BY <1>0, <2>1, <2>4, OneHeld
    <3>4. leases'[s][ip].phase = q
      BY <1>0, <2>1, <2>4, OneHeld
    <3>5. q = "bound" => InTable(s)
      BY <1>0, <1>8, <2>4 DEF InFlight, Handle
    <3> QED
      BY <2>1, <2>2, <3>2, <3>3, <3>4, <3>5, LeaseStep DEF NoPacket
  <2>5. "offered" \in Phases /\ "bound" \in Phases /\ "free" \in Phases /\ "declined" \in Phases
    BY DEF Phases
  <2>6. ASSUME NEW old \in Addresses, pkt.type = "discover", Offer(ip, old)
        PROVE  TableInv'
    <3>1. Held("free") \in [phase : Phases, late : BOOLEAN] /\ Held("free").phase = "free"
      BY <2>5 DEF Held
    <3>2. Held("offered") \in [phase : Phases, late : BOOLEAN] /\ Held("offered").phase = "offered"
      BY <2>5 DEF Held
    <3> DEFINE f == Held("free")
               o == Held("offered")
    <3>3. leases' = [leases EXCEPT ![s] = [leases[s] EXCEPT ![old] = f, ![ip] = o]]
      BY <1>0, <2>1, <2>6 DEF Offer, TableTypeOK
    <3>4. leases[s] \in [Addresses -> [phase : Phases, late : BOOLEAN]]
      BY <1>0, <2>1 DEF TableTypeOK
    <3> HIDE DEF s, f, o
    <3>5. leases' \in [Stores -> [Addresses -> [phase : Phases, late : BOOLEAN]]]
      BY <1>0, <3>1, <3>2, <3>3, <3>4 DEF TableTypeOK, f, o
    <3>6. TableTypeOK'
      BY <1>0, <2>2, <3>5 DEF TableTypeOK, NoPacket
    <3>7. \A t \in Stores, i \in Addresses :
             \/ leases'[t][i].phase = leases[t][i].phase
             \/ leases'[t][i].phase = "free"
             \/ t = s /\ leases'[t][i].phase = "offered"
      BY <1>0, <2>1, <3>1, <3>2, <3>3, <3>4 DEF TableTypeOK, f, o
    <3> QED
      BY <2>1, <2>2, <3>6, <3>7, LeaseStep DEF NoPacket
  <2>7. \/ UNCHANGED leases
        \/ pkt.type = "discover" /\ \E old \in Addresses : Offer(ip, old)
        \/ leases' = [leases EXCEPT ![s][ip] = Held("free")] /\ pkt.type = "release"
        \/ leases' = [leases EXCEPT ![s][ip] = Held("declined")] /\ pkt.type = "decline"
        \/ /\ leases' = [leases EXCEPT ![s][ip] = Held("bound")]
           /\ pkt.type = "request"
           /\ Phase(s, ip) \in {"offered", "bound"}
    BY <1>8 DEF Handle, Move
  <2> HIDE DEF s
  <2> QED
    BY <2>3, <2>4, <2>5, <2>6, <2>7
<1>9. ASSUME NEW mac \in MACs, NEW ip \in Addresses, AddDevice(mac, ip)
      PROVE  TableInv'
  <2>1. PICK n \in Matches(ip) :
           op' = [pc |-> "reserve", mac |-> mac, ip |-> ip, store |-> table[n].store]
    BY <1>9 DEF AddDevice
  <2>2. n \in Active /\ table[n].store \in Stores \ unused
    BY ActiveEntry DEF Matches
  <2>3. TableTypeOK'
    BY <1>0, <1>9, <2>1, <2>2 DEF AddDevice, TableTypeOK
  <2> QED
    BY <1>9, <2>1, <2>2, <2>3, LookupStep DEF AddDevice
<1>10. CASE AddDeviceReserve
  <2>1. op.store \in Stores /\ op.ip \in Addresses /\ op.mac \in MACs
    BY <1>0, <1>10 DEF AddDeviceReserve, InFlight
  <2>2. /\ leases' \in [Stores -> [Addresses -> [phase : Phases, late : BOOLEAN]]]
        /\ \A t \in Stores, i \in Addresses :
              leases'[t][i].phase = leases[t][i].phase \/ leases'[t][i].phase = "reserved"
    <3>1. "reserved" \in Phases
      BY DEF Phases
    <3>2. CASE UNCHANGED leases
      BY <1>0, <3>2 DEF TableTypeOK
    <3>3. ASSUME leases' = [leases EXCEPT ![op.store][op.ip] = Held("reserved")]
          PROVE  /\ leases' \in [Stores -> [Addresses -> [phase : Phases, late : BOOLEAN]]]
                 /\ \A t \in Stores, i \in Addresses :
                       leases'[t][i].phase = leases[t][i].phase \/ leases'[t][i].phase = "reserved"
      <4> DEFINE q == "reserved"
                 st == op.store
                 ip == op.ip
      <4>1. st \in Stores /\ ip \in Addresses /\ q \in Phases /\ leases' = [leases EXCEPT ![st][ip] = Held(q)]
        BY <2>1, <3>1, <3>3
      <4> HIDE DEF st, ip, q
      <4>2. /\ leases' \in [Stores -> [Addresses -> [phase : Phases, late : BOOLEAN]]]
            /\ \A t \in Stores, i \in Addresses : (t # st \/ i # ip) => leases'[t][i] = leases[t][i]
            /\ leases'[st][ip].phase = q
        BY <1>0, <4>1, OneHeld
      <4>3. \A t \in Stores, i \in Addresses :
               leases'[t][i].phase = leases[t][i].phase \/ leases'[t][i].phase = q
        BY <4>2
      <4> QED
        BY <4>2, <4>3 DEF q
    <3> QED
      BY <1>10, <3>2, <3>3 DEF AddDeviceReserve
  <2>3. static' \in [MACs -> Addresses \cup {Nil}]
    BY <1>0, <1>10, <2>1 DEF AddDeviceReserve, TableTypeOK
  <2>4. TableTypeOK'
    BY <1>0, <1>10, <2>2, <2>3 DEF AddDeviceReserve, TableTypeOK, NoOp
  <2> QED
    BY <1>10, <2>1, <2>2, <2>4, LeaseStep DEF AddDeviceReserve, NoOp
<1>11. ASSUME NEW mac \in MACs, DeleteDevice(mac)
       PROVE  TableInv'
  <2>1. static[mac] \in Addresses
    BY <1>0, <1>11 DEF DeleteDevice, TableTypeOK
  <2>2. CASE UNCHANGED op
    <3>1. TableTypeOK'
      BY <1>0, <1>11, <2>2 DEF DeleteDevice, TableTypeOK
    <3> QED
      BY <1>11, <2>2, <3>1, LookupStep DEF DeleteDevice
  <2>3. ASSUME NEW n \in Matches(static[mac]), UNCHANGED static,
               op' = [pc |-> "unreserve", mac |-> mac, ip |-> static[mac], store |-> table[n].store]
        PROVE  TableInv'
    <3>1. n \in Active /\ table[n].store \in Stores \ unused
      BY ActiveEntry DEF Matches
    <3>2. TableTypeOK'
      BY <1>0, <1>11, <2>1, <2>3, <3>1 DEF DeleteDevice, TableTypeOK
    <3> QED
      BY <1>11, <2>1, <2>3, <3>1, <3>2, LookupStep DEF DeleteDevice
  <2> QED
    BY <1>11, <2>2, <2>3 DEF DeleteDevice
<1>12. CASE DeleteDeviceUnreserve
  <2>1. op.store \in Stores /\ op.ip \in Addresses /\ op.mac \in MACs
    BY <1>0, <1>12 DEF DeleteDeviceUnreserve, InFlight
  <2>2. /\ leases' \in [Stores -> [Addresses -> [phase : Phases, late : BOOLEAN]]]
        /\ \A t \in Stores, i \in Addresses :
              leases'[t][i].phase = leases[t][i].phase \/ leases'[t][i].phase = "free"
    <3>1. "free" \in Phases
      BY DEF Phases
    <3>2. CASE UNCHANGED leases
      BY <1>0, <3>2 DEF TableTypeOK
    <3>3. ASSUME leases' = [leases EXCEPT ![op.store][op.ip] = Held("free")]
          PROVE  /\ leases' \in [Stores -> [Addresses -> [phase : Phases, late : BOOLEAN]]]
                 /\ \A t \in Stores, i \in Addresses :
                       leases'[t][i].phase = leases[t][i].phase \/ leases'[t][i].phase = "free"
      <4> DEFINE q == "free"
                 st == op.store
                 ip == op.ip
      <4>1. st \in Stores /\ ip \in Addresses /\ q \in Phases /\ leases' = [leases EXCEPT ![st][ip] = Held(q)]
        BY <2>1, <3>1, <3>3
      <4> HIDE DEF st, ip, q
      <4>2. /\ leases' \in [Stores -> [Addresses -> [phase : Phases, late : BOOLEAN]]]
            /\ \A t \in Stores, i \in Addresses : (t # st \/ i # ip) => leases'[t][i] = leases[t][i]
            /\ leases'[st][ip].phase = q
        BY <1>0, <4>1, OneHeld
      <4>3. \A t \in Stores, i \in Addresses :
               leases'[t][i].phase = leases[t][i].phase \/ leases'[t][i].phase = q
        BY <4>2
      <4> QED
        BY <4>2, <4>3 DEF q
    <3> QED
      BY <1>12, <3>2, <3>3 DEF DeleteDeviceUnreserve
  <2>3. static' \in [MACs -> Addresses \cup {Nil}]
    BY <1>0, <1>12, <2>1 DEF DeleteDeviceUnreserve, TableTypeOK
  <2>4. TableTypeOK'
    BY <1>0, <1>12, <2>2, <2>3 DEF DeleteDeviceUnreserve, TableTypeOK, NoOp
  <2> QED
    BY <1>12, <2>1, <2>2, <2>4, LeaseStep DEF DeleteDeviceUnreserve, NoOp
<1> QED
  BY <1>1, <1>2, <1>3, <1>4, <1>5, <1>6, <1>7, <1>8, <1>9, <1>10, <1>11, <1>12, NetworkAssumption
  DEF Next, Dispatch

LEMMA TableInitInv == Init => TableInv
<1> SUFFICES ASSUME Init
             PROVE  TableInv
  OBVIOUS
<1>1. TableTypeOK
  BY DEF Init, TableTypeOK, NewStore, Held, Phases, NoPacket, NoOp
<1>2. BoundInTable
  BY DEF Init, BoundInTable, Phase, NewStore, Held
<1> QED
  BY <1>1, <1>2 DEF Init, TableInv, Apart, InUse, InFlight, Active, NoPacket, NoOp

LEMMA TableInvariant == Spec => []TableInv
BY TableInitInv, TableNextInv, PTL DEF Spec

-----------------------------------------------------------------------------
\* However the process, the API, the dispatch loop and the reapers interleave,
\* the table points at stores that exist, one to a name, and a look-up that is
\* in hand holds a store that was once made.
THEOREM TableTypeCorrect == Spec => []TableTypeOK
<1>1. TableInv => TableTypeOK
  BY DEF TableInv
<1> QED
  BY <1>1, TableInvariant, PTL

\* With any names and networks, and the API adding and removing subnets, the
\* overlap check of Add leaves each address at most one active subnet.
THEOREM TableLookupUnique == Spec => []LookupUnique
<1>1. TableInv => LookupUnique
  <2> SUFFICES ASSUME TableInv, NEW ip \in Addresses, NEW m \in Matches(ip), NEW n \in Matches(ip), m # n
               PROVE  FALSE
    BY DEF LookupUnique
  <2>1. m \in Active /\ n \in Active /\ table[m].net \in Networks /\ table[n].net \in Networks
    BY ActiveEntry DEF Matches
  <2>2. overlaps(table[m].net, table[n].net)
    <3> HIDE DEF Contains
    <3> QED
      BY <2>1, NetworkAssumption DEF Matches, overlaps
  <2> QED
    BY <2>1, <2>2 DEF TableInv, Apart
<1> QED
  BY <1>1, TableInvariant, PTL

\* However Remove interleaves with a packet that was looked up before it, no
\* address is acknowledged in a store that has left the table.
THEOREM TableBoundInTable == Spec => []BoundInTable
<1>1. TableInv => BoundInTable
  BY DEF TableInv
<1> QED
  BY <1>1, TableInvariant, PTL

=============================================================================
