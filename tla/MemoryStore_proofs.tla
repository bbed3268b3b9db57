-------------------------- MODULE MemoryStore_proofs --------------------------
(***************************************************************************)
(* Proofs about MemoryStore for every set of addresses, clients and heap   *)
(* cells: the invariant of the maps and the queue, what a step leaves of   *)
(* the leases and of the order of the queue, and the refinement of         *)
(* LeaseLifecycle.                                                         *)
(***************************************************************************)
EXTENDS MemoryStore, SequenceTheorems, FiniteSetTheorems, TLAPS

-----------------------------------------------------------------------------
(* The FIFO *)

\* What removeIP returns: the queue itself, or the queue closed up over the place
\* where the address was.
LEMMA RemoveIPShape ==
    ASSUME NEW s \in Seq(IPs), NEW ip, IsInjective(s)
    PROVE  \/ ip \notin ToSet(s) /\ removeIP(s, ip) = s
           \/ \E k \in 1 .. Len(s) :
                 /\ s[k] = ip
                 /\ removeIP(s, ip) \in Seq(IPs)
                 /\ Len(removeIP(s, ip)) = Len(s) - 1
                 /\ \A i \in 1 .. Len(s) - 1 :
                       removeIP(s, ip)[i] = IF i <= k - 1 THEN s[i] ELSE s[i + 1]
<1>1. CASE ~ \E i \in 1 .. Len(s) : s[i] = ip
  <2>1. removeIP(s, ip) = s
    BY <1>1 DEF removeIP, RemoveFirst
  <2>2. ip \notin ToSet(s)
    BY <1>1, LenProperties DEF ToSet
  <2> QED
    BY <2>1, <2>2
<1>2. CASE \E i \in 1 .. Len(s) : s[i] = ip
  <2> DEFINE I == {i \in 1 .. Len(s) : s[i] = ip}
             k == Min(I)
  <2>0. Len(s) \in Nat /\ s \in [1 .. Len(s) -> IPs] /\ DOMAIN s = 1 .. Len(s)
    BY LenProperties
  <2>1. removeIP(s, ip) = SubSeq(s, 1, k - 1) \o SubSeq(s, k + 1, Len(s))
    BY <1>2 DEF removeIP, RemoveFirst, SelectInSeq, RemoveAt
  <2>2. k \in 1 .. Len(s) /\ s[k] = ip
    <3>1. PICK i \in I : TRUE
      BY <1>2
    <3>2. I = {i}
      BY <3>1, <2>0 DEF IsInjective
    <3>3. k = i
      BY <3>2, <3>1, <2>0 DEF Min
    <3> QED
      BY <3>3, <3>1
  <2> HIDE DEF k
  <2> DEFINE u == SubSeq(s, 1, k - 1)
             v == SubSeq(s, k + 1, Len(s))
  <2>3. /\ u \in Seq(IPs)
        /\ Len(u) = k - 1
        /\ \A i \in 1 .. k - 1 : u[i] = s[i]
    <3>1. \A i \in 1 .. k - 1 : s[i] \in IPs
      BY <2>0, <2>2
    <3>2. /\ u \in Seq(IPs)
          /\ Len(u) = IF 1 <= k - 1 THEN k - 1 - 1 + 1 ELSE 0
          /\ \A i \in 1 .. k - 1 - 1 + 1 : u[i] = s[1 + i - 1]
      BY <3>1, <2>0, <2>2, SubSeqProperties
    <3> HIDE DEF u
    <3> QED
      BY <3>2, <2>0, <2>2
  <2>4. /\ v \in Seq(IPs)
        /\ Len(v) = Len(s) - k
        /\ \A i \in 1 .. Len(s) - k : v[i] = s[k + i]
    <3>1. \A i \in k + 1 .. Len(s) : s[i] \in IPs
      BY <2>0, <2>2
    <3>2. /\ v \in Seq(IPs)
          /\ Len(v) = IF k + 1 <= Len(s) THEN Len(s) - (k + 1) + 1 ELSE 0
          /\ \A i \in 1 .. Len(s) - (k + 1) + 1 : v[i] = s[(k + 1) + i - 1]
      BY <3>1, <2>0, <2>2, SubSeqProperties
    <3> HIDE DEF v
    <3>3. Len(v) = Len(s) - k
      <4>1. k \in Int /\ Len(s) \in Int /\ k <= Len(s)
        BY <2>0, <2>2
      <4>2. Len(v) = IF k + 1 <= Len(s) THEN Len(s) - (k + 1) + 1 ELSE 0
        BY <3>2
      <4> QED
        BY <4>1, <4>2
    <3>4. ASSUME NEW i \in 1 .. Len(s) - k
          PROVE  v[i] = s[k + i]
      <4>1. (k + 1) + i - 1 = k + i /\ i \in 1 .. Len(s) - (k + 1) + 1
        BY <2>0, <2>2
      <4> QED
        BY <4>1, <3>2
    <3> QED
      BY <3>2, <3>3, <3>4
  <2> HIDE DEF u, v
  <2>5. /\ u \o v \in Seq(IPs)
        /\ Len(u \o v) = Len(s) - 1
        /\ \A i \in 1 .. Len(s) - 1 : (u \o v)[i] = IF i <= k - 1 THEN s[i] ELSE s[i + 1]
    <3>1. /\ u \o v \in Seq(IPs)
          /\ Len(u \o v) = Len(u) + Len(v)
          /\ \A i \in 1 .. Len(u) + Len(v) :
                (u \o v)[i] = IF i <= Len(u) THEN u[i] ELSE v[i - Len(u)]
      BY <2>3, <2>4, ConcatProperties
    <3>2. \A i \in 1 .. Len(s) - 1 : i > k - 1 => (i - (k - 1)) \in 1 .. Len(s) - k
                                                 /\ k + (i - (k - 1)) = i + 1
      BY <2>0, <2>2
    <3> QED
      BY <3>1, <3>2, <2>0, <2>2, <2>3, <2>4
  <2> QED
    BY <2>1, <2>2, <2>5 DEF u, v
<1> QED
  BY <1>1, <1>2

\* removeIP deletes the first occurrence of an address, and in a queue without
\* duplicates that is the only one.
LEMMA RemoveIP ==
    ASSUME NEW s \in Seq(IPs), NEW ip, IsInjective(s)
    PROVE  /\ removeIP(s, ip) \in Seq(IPs)
           /\ IsInjective(removeIP(s, ip))
           /\ ToSet(removeIP(s, ip)) = ToSet(s) \ {ip}
           /\ KeepsOrder(s, removeIP(s, ip))
<1>0. Len(s) \in Nat /\ s \in [1 .. Len(s) -> IPs] /\ DOMAIN s = 1 .. Len(s)
  BY LenProperties
<1>1. CASE ip \notin ToSet(s) /\ removeIP(s, ip) = s
  BY <1>0, <1>1 DEF KeepsOrder, IsInjective
<1>2. ASSUME NEW k \in 1 .. Len(s), s[k] = ip,
             removeIP(s, ip) \in Seq(IPs),
             Len(removeIP(s, ip)) = Len(s) - 1,
             \A i \in 1 .. Len(s) - 1 :
                removeIP(s, ip)[i] = IF i <= k - 1 THEN s[i] ELSE s[i + 1]
      PROVE  /\ IsInjective(removeIP(s, ip))
             /\ ToSet(removeIP(s, ip)) = ToSet(s) \ {ip}
             /\ KeepsOrder(s, removeIP(s, ip))
  <2> DEFINE t == removeIP(s, ip)
  <2>1. DOMAIN t = 1 .. Len(s) - 1
    BY <1>2, LenProperties DEF t
  <2> HIDE DEF t
  <2>2. IsInjective(t)
    <3> SUFFICES ASSUME NEW i \in 1 .. Len(s) - 1, NEW j \in 1 .. Len(s) - 1, t[i] = t[j]
                 PROVE  i = j
      BY <2>1 DEF IsInjective
    <3> DEFINE at(n) == IF n <= k - 1 THEN n ELSE n + 1
    <3>1. at(i) \in 1 .. Len(s) /\ at(j) \in 1 .. Len(s)
      BY <1>0, <1>2
    <3>2. s[at(i)] = s[at(j)]
      BY <1>2 DEF t
    <3>3. at(i) = at(j)
      BY <3>1, <3>2, <1>0 DEF IsInjective
    <3> QED
      BY <3>3, <1>0, <1>2
  <2>3. ToSet(t) \subseteq ToSet(s) \ {ip}
    <3> SUFFICES ASSUME NEW i \in 1 .. Len(s) - 1
                 PROVE  t[i] \in ToSet(s) /\ t[i] # ip
      BY <2>1 DEF ToSet
    <3> DEFINE j == IF i <= k - 1 THEN i ELSE i + 1
    <3>1. j \in 1 .. Len(s) /\ j # k /\ t[i] = s[j]
      BY <1>0, <1>2 DEF t
    <3> QED
      BY <3>1, <1>0, <1>2 DEF ToSet, IsInjective
  <2>4. ToSet(s) \ {ip} \subseteq ToSet(t)
    <3> SUFFICES ASSUME NEW j \in 1 .. Len(s), s[j] # ip
                 PROVE  s[j] \in ToSet(t)
      BY <1>0 DEF ToSet
    <3>1. CASE j < k
      <4>1. j \in 1 .. Len(s) - 1 /\ t[j] = s[j]
        BY <3>1, <1>0, <1>2 DEF t
      <4> QED
        BY <4>1, <2>1 DEF ToSet
    <3>2. CASE ~(j < k)
      <4>1. j # k
        BY <1>2
      <4>2. j - 1 \in 1 .. Len(s) - 1 /\ ~(j - 1 <= k - 1) /\ (j - 1) + 1 = j
        BY <4>1, <3>2, <1>0, <1>2
      <4>3. t[j - 1] = s[j]
        BY <4>2, <1>2 DEF t
      <4> QED
        BY <4>2, <4>3, <2>1 DEF ToSet
    <3> QED
      BY <3>1, <3>2
  <2>5. KeepsOrder(s, t)
    <3> SUFFICES ASSUME NEW n \in 1 .. Len(s) - 1, NEW m \in 1 .. Len(s) - 1, n < m,
                        NEW j \in 1 .. Len(s), s[j] = t[m]
                 PROVE  \E i \in 1 .. Len(s) : i < j /\ s[i] = t[n]
      BY <1>0, <2>1 DEF KeepsOrder
    <3> DEFINE at(i) == IF i <= k - 1 THEN i ELSE i + 1
    <3>1. at(n) \in 1 .. Len(s) /\ at(m) \in 1 .. Len(s) /\ at(n) < at(m)
      BY <1>0, <1>2
    <3>2. s[at(n)] = t[n] /\ s[at(m)] = t[m]
      BY <1>2 DEF t
    <3>3. at(m) = j
      BY <3>1, <3>2, <1>0 DEF IsInjective
    <3> QED
      BY <3>1, <3>2, <3>3
  <2> QED
    BY <2>2, <2>3, <2>4, <2>5 DEF t
<1>3. CASE \E k \in 1 .. Len(s) :
              /\ s[k] = ip
              /\ removeIP(s, ip) \in Seq(IPs)
              /\ Len(removeIP(s, ip)) = Len(s) - 1
              /\ \A i \in 1 .. Len(s) - 1 :
                    removeIP(s, ip)[i] = IF i <= k - 1 THEN s[i] ELSE s[i + 1]
  BY <1>2, <1>3, Zenon
<1>4. \/ ip \notin ToSet(s) /\ removeIP(s, ip) = s
      \/ \E k \in 1 .. Len(s) :
            /\ s[k] = ip
            /\ removeIP(s, ip) \in Seq(IPs)
            /\ Len(removeIP(s, ip)) = Len(s) - 1
            /\ \A i \in 1 .. Len(s) - 1 :
                  removeIP(s, ip)[i] = IF i <= k - 1 THEN s[i] ELSE s[i + 1]
  BY RemoveIPShape
<1> QED
  BY <1>1, <1>3, <1>4, Zenon

\* Queueing addresses behind those of the FIFO keeps it a queue of addresses,
\* and free of duplicates if none of them was in it.
LEMMA AppendOrder ==
    ASSUME NEW s \in Seq(IPs), NEW gone \in SUBSET IPs, NEW order \in SetToSeqs(gone)
    PROVE  /\ s \o order \in Seq(IPs)
           /\ ToSet(s \o order) \subseteq ToSet(s) \cup gone
           /\ (IsInjective(s) /\ gone \cap ToSet(s) = {}) =>
                 IsInjective(s \o order) /\ KeepsOrder(s, s \o order)
           /\ ToSet(s) \cup gone \subseteq ToSet(s \o order)
<1> DEFINE n == Cardinality(gone)
<1>1. n \in Nat
  BY AddressAssumption, FS_Subset, FS_CardinalityType
<1>2. /\ order \in [1 .. n -> gone]
      /\ \A i, j \in 1 .. n : i # j => order[i] # order[j]
  BY DEF SetToSeqs
<1> HIDE DEF n
<1>3. order \in Seq(IPs) /\ Len(order) = n
  BY <1>1, <1>2
<1>4. Len(s) \in Nat /\ s \in [1 .. Len(s) -> IPs] /\ DOMAIN s = 1 .. Len(s)
  BY LenProperties
<1>5. /\ s \o order \in Seq(IPs)
      /\ Len(s \o order) = Len(s) + n
      /\ \A i \in 1 .. Len(s) + n :
            (s \o order)[i] = IF i <= Len(s) THEN s[i] ELSE order[i - Len(s)]
  BY <1>3, ConcatProperties
<1>6. DOMAIN (s \o order) = 1 .. Len(s) + n
  BY <1>5, LenProperties
<1>7. ToSet(s \o order) \subseteq ToSet(s) \cup gone
  <2> SUFFICES ASSUME NEW i \in 1 .. Len(s) + n
               PROVE  (s \o order)[i] \in ToSet(s) \cup gone
    BY <1>6 DEF ToSet
  <2>1. CASE i <= Len(s)
    BY <2>1, <1>4, <1>5 DEF ToSet
  <2>2. CASE ~(i <= Len(s))
    BY <2>2, <1>1, <1>2, <1>4, <1>5
  <2> QED
    BY <2>1, <2>2
<1>8. ASSUME IsInjective(s), gone \cap ToSet(s) = {}
      PROVE  IsInjective(s \o order)
  <2> SUFFICES ASSUME NEW i \in 1 .. Len(s) + n, NEW j \in 1 .. Len(s) + n,
                      (s \o order)[i] = (s \o order)[j]
               PROVE  i = j
    BY <1>6 DEF IsInjective
  <2>1. \A m \in 1 .. Len(s) : s[m] \notin gone
    BY <1>8, <1>4 DEF ToSet
  <2>2. \A m \in 1 .. Len(s) + n : m > Len(s) => m - Len(s) \in 1 .. n
    BY <1>1, <1>4
  <2>3. CASE i <= Len(s) /\ j <= Len(s)
    BY <2>3, <1>8, <1>4, <1>5 DEF IsInjective
  <2>4. CASE i <= Len(s) /\ j > Len(s)
    BY <2>4, <2>1, <2>2, <1>1, <1>2, <1>4, <1>5
  <2>5. CASE i > Len(s) /\ j <= Len(s)
    BY <2>5, <2>1, <2>2, <1>1, <1>2, <1>4, <1>5
  <2>6. CASE i > Len(s) /\ j > Len(s)
    BY <2>6, <2>2, <1>1, <1>2, <1>4, <1>5
  <2> QED
    BY <2>3, <2>4, <2>5, <2>6, <1>4
<1>9. gone \subseteq ToSet(s \o order)
  <2>1. IsFiniteSet(gone) /\ n = Cardinality(gone)
    BY AddressAssumption, FS_Subset DEF n
  <2>2. order \in Injection(1 .. n, gone)
    BY <1>2 DEF Injection, IsInjective
  <2>3. Cardinality(1 .. n) = n
    BY <1>1, FS_Interval
  <2>4. order \in Surjection(1 .. n, gone)
    BY <2>1, <2>2, <2>3, FS_Injection
  <2>5. ASSUME NEW ip \in gone
        PROVE  ip \in ToSet(s \o order)
    <3>1. PICK i \in 1 .. n : order[i] = ip
      BY <2>4 DEF Surjection
    <3>2. Len(s) + i \in 1 .. Len(s) + n /\ ~(Len(s) + i <= Len(s)) /\ Len(s) + i - Len(s) = i
      BY <1>1, <1>4
    <3>3. (s \o order)[Len(s) + i] = ip
      BY <3>1, <3>2, <1>5
    <3> QED
      BY <3>2, <3>3, <1>6 DEF ToSet
  <2> QED
    BY <2>5
<1>10. ToSet(s) \subseteq ToSet(s \o order)
  <2> SUFFICES ASSUME NEW i \in 1 .. Len(s)
               PROVE  s[i] \in ToSet(s \o order)
    BY <1>4 DEF ToSet
  <2>1. i \in 1 .. Len(s) + n /\ (s \o order)[i] = s[i]
    BY <1>1, <1>4, <1>5
  <2> QED
    BY <2>1, <1>6 DEF ToSet
<1>11. ASSUME IsInjective(s), gone \cap ToSet(s) = {}
       PROVE  KeepsOrder(s, s \o order)
  <2> SUFFICES ASSUME NEW k \in 1 .. Len(s) + n, NEW m \in 1 .. Len(s) + n, k < m,
                      NEW j \in 1 .. Len(s), s[j] = (s \o order)[m]
               PROVE  \E i \in 1 .. Len(s) : i < j /\ s[i] = (s \o order)[k]
    BY <1>4, <1>6 DEF KeepsOrder
  <2>1. m <= Len(s)
    <3>1. s[j] \notin gone
      BY <1>11, <1>4 DEF ToSet
    <3>2. m > Len(s) => m - Len(s) \in 1 .. n /\ (s \o order)[m] = order[m - Len(s)]
      BY <1>1, <1>4, <1>5
    <3> QED
      BY <3>1, <3>2, <1>1, <1>2, <1>4
  <2>2. j = m
    BY <2>1, <1>11, <1>4, <1>5 DEF IsInjective
  <2>3. k \in 1 .. Len(s) /\ s[k] = (s \o order)[k]
    BY <2>1, <1>1, <1>4, <1>5
  <2> QED
    BY <2>2, <2>3
<1> QED
  BY <1>5, <1>7, <1>8, <1>9, <1>10, <1>11

\* Rotating the FIFO keeps what is in it.
LEMMA Rotate ==
    ASSUME NEW s \in Seq(IPs), s # <<>>
    PROVE  /\ Append(Tail(s), Head(s)) \in Seq(IPs)
           /\ ToSet(Append(Tail(s), Head(s))) = ToSet(s)
           /\ IsInjective(s) => IsInjective(Append(Tail(s), Head(s)))
<1> DEFINE t == Append(Tail(s), Head(s))
           n == Len(s)
<1>1. n \in Nat /\ n > 0 /\ s \in [1 .. n -> IPs] /\ DOMAIN s = 1 .. n
  BY LenProperties, EmptySeq
<1>2. /\ Head(s) = s[1] /\ Head(s) \in IPs
      /\ Tail(s) \in Seq(IPs)
      /\ Len(Tail(s)) = n - 1
      /\ \A i \in 1 .. n - 1 : Tail(s)[i] = s[i + 1]
  BY <1>1, HeadTailProperties
<1>3. /\ t \in Seq(IPs)
      /\ Len(t) = n
      /\ \A i \in 1 .. n - 1 : t[i] = s[i + 1]
      /\ t[n] = s[1]
  BY <1>1, <1>2, AppendProperties
<1>4. DOMAIN t = 1 .. n
  BY <1>3, LenProperties
<1> DEFINE at(m) == IF m = n THEN 1 ELSE m + 1
<1> HIDE DEF t, n
<1>5. ASSUME NEW i \in 1 .. n
      PROVE  at(i) \in 1 .. n /\ t[i] = s[at(i)]
  <2>1. CASE i = n
    BY <2>1, <1>1, <1>3
  <2>2. CASE i # n
    BY <2>2, <1>1, <1>3
  <2> QED
    BY <2>1, <2>2
<1>6. ToSet(t) \subseteq ToSet(s)
  BY <1>1, <1>4, <1>5 DEF ToSet
<1>8. ToSet(s) \subseteq ToSet(t)
  <2> SUFFICES ASSUME NEW i \in 1 .. n
               PROVE  s[i] \in ToSet(t)
    BY <1>1 DEF ToSet
  <2>1. CASE i = 1
    BY <2>1, <1>1, <1>3, <1>4 DEF ToSet
  <2>2. CASE i # 1
    <3>1. i - 1 \in 1 .. n - 1 /\ t[i - 1] = s[i]
      BY <2>2, <1>1, <1>3
    <3> QED
      BY <3>1, <1>1, <1>4 DEF ToSet
  <2> QED
    BY <2>1, <2>2
<1>7. ASSUME IsInjective(s)
      PROVE  IsInjective(t)
  <2> SUFFICES ASSUME NEW i \in 1 .. n, NEW j \in 1 .. n, t[i] = t[j]
               PROVE  i = j
    BY <1>4 DEF IsInjective
  <2>1. at(i) = at(j)
    BY <1>1, <1>5, <1>7 DEF IsInjective
  <2> QED
    BY <2>1, <1>1
<1> QED
  BY <1>3, <1>6, <1>7, <1>8 DEF t

-----------------------------------------------------------------------------
(* The two maps *)

\* The inductive invariant.  Typing needs the maps to agree (a method changes
\* the lease a map points at), and the FIFO needs to know what is leased.
StoreInv == TypeOK /\ Coherent /\ PoolDisjoint

\* What Coherent says, of a heap and maps that are about to be committed.
Agree(heap, ips, clients) ==
    /\ \A ip \in IPs : ips[ip] # Nil =>
          /\ heap[ips[ip]] # Nil
          /\ heap[ips[ip]].ip = ip
    /\ \A c \in ClientIDs : clients[c] # Nil =>
          /\ heap[clients[c]] # Nil
          /\ heap[clients[c]].clientID = c
          /\ ips[heap[clients[c]].ip] = clients[c]

\* Collecting the leases that no map points at does not disturb the others.
LEMMA CommitCoherent ==
    ASSUME NEW heap \in [Refs -> Leases \cup {Nil}],
           NEW ips \in [IPs -> Refs \cup {Nil}],
           NEW clients \in [ClientIDs -> Refs \cup {Nil}],
           Commit(heap, ips, clients),
           Agree(heap, ips, clients)
    PROVE  /\ lease' \in [Refs -> Leases \cup {Nil}]
           /\ byIP' \in [IPs -> Refs \cup {Nil}]
           /\ byClient' \in [ClientIDs -> Refs \cup {Nil}]
           /\ Coherent'
<1>1. byIP' = ips /\ byClient' = clients
  BY DEF Commit
<1>2. lease' \in [Refs -> Leases \cup {Nil}]
  BY DEF Commit
<1>3. \A ip \in IPs : ips[ip] # Nil => lease'[ips[ip]] = heap[ips[ip]]
  BY DEF Commit
<1>4. \A c \in ClientIDs : clients[c] # Nil => lease'[clients[c]] = heap[clients[c]]
  BY DEF Commit
<1>5. Coherent'
  BY <1>1, <1>3, <1>4 DEF Coherent, Agree, Leased, LeaseAt
<1> QED
  BY <1>1, <1>2, <1>5

\* A new lease, for an address that has none, is a lease.
LEMMA NewLeaseType ==
    ASSUME NEW c \in ClientIDs, NEW ip \in IPs, NEW s \in States
    PROVE  /\ NewLease(c, ip, s) \in Leases
           /\ NewLease(c, ip, s) # Nil
           /\ NewLease(c, ip, s).ip = ip
           /\ NewLease(c, ip, s).clientID = c
           /\ NewLease(c, ip, s).state = s
<1>1. /\ NewLease(c, ip, s).ip = ip
      /\ NewLease(c, ip, s).clientID = c
      /\ NewLease(c, ip, s).state = s
  BY DEF NewLease
<1>2. NewLease(c, ip, s) \in Leases
  <2>1. FALSE \in BOOLEAN
    OBVIOUS
  <2> QED
    BY <2>1, Zenon DEF NewLease, Leases
<1> QED
  BY <1>1, <1>2, NilAssumption

\* Freeing leased addresses keeps the invariant.
LEMMA FreeInv ==
    ASSUME StoreInv, NEW gone \in SUBSET IPs, \A ip \in gone : Leased(ip), Free(gone)
    PROVE  StoreInv'
<1> USE DEF StoreInv
<1> DEFINE ips == [ip \in IPs |-> IF ip \in gone THEN Nil ELSE byIP[ip]]
           clients == [c \in ClientIDs |->
                         IF \E ip \in gone : OwnedBy(ip, c) /\ byClient[c] = byIP[ip]
                         THEN Nil ELSE byClient[c]]
<1>1. /\ ips \in [IPs -> Refs \cup {Nil}]
      /\ clients \in [ClientIDs -> Refs \cup {Nil}]
  BY DEF TypeOK
<1>2. Agree(lease, ips, clients)
  <2>1. ASSUME NEW ip \in IPs, ips[ip] # Nil
        PROVE  lease[ips[ip]] # Nil /\ lease[ips[ip]].ip = ip
    BY <2>1 DEF Coherent, Leased, LeaseAt
  <2>2. ASSUME NEW c \in ClientIDs, clients[c] # Nil
        PROVE  /\ lease[clients[c]] # Nil
               /\ lease[clients[c]].clientID = c
               /\ ips[lease[clients[c]].ip] = clients[c]
    <3> DEFINE at == lease[byClient[c]].ip
    <3>1. clients[c] = byClient[c] /\ byClient[c] # Nil
      BY <2>2
    <3>2. lease[byClient[c]] # Nil /\ lease[byClient[c]].clientID = c /\ byIP[at] = byClient[c]
      BY <3>1 DEF Coherent
    <3>3. at \in IPs
      BY <3>1, <3>2 DEF TypeOK, Leases
    <3>4. OwnedBy(at, c)
      BY <3>1, <3>2 DEF OwnedBy, Leased, LeaseAt
    <3>5. at \notin gone
      BY <2>2, <3>2, <3>4
    <3> QED
      BY <3>1, <3>2, <3>3, <3>5
  <2> QED
    BY <2>1, <2>2 DEF Agree
<1>3. Commit(lease, ips, clients)
  BY DEF Free
<1> HIDE DEF ips, clients
<1>4. /\ lease' \in [Refs -> Leases \cup {Nil}]
      /\ byIP' \in [IPs -> Refs \cup {Nil}]
      /\ byClient' \in [ClientIDs -> Refs \cup {Nil}]
      /\ Coherent'
  BY <1>1, <1>2, <1>3, CommitCoherent DEF TypeOK
<1>5. PICK order \in SetToSeqs(gone) : available' = available \o order
  BY DEF Free
<1>6. gone \cap ToSet(available) = {}
  BY DEF PoolDisjoint, InPool
<1>7. /\ available' \in Seq(IPs)
      /\ ToSet(available') \subseteq ToSet(available) \cup gone
      /\ IsInjective(available')
  BY <1>5, <1>6, AppendOrder DEF TypeOK, PoolDisjoint
<1>8. \A ip \in IPs : byIP'[ip] # Nil => ip \notin gone /\ byIP[ip] # Nil
  BY <1>3 DEF Commit, ips
<1>9. PoolDisjoint'
  BY <1>7, <1>8 DEF PoolDisjoint, InPool, Leased
<1> QED
  BY <1>4, <1>7, <1>9 DEF TypeOK

\* So does changing state and deadline of a lease in place.
LEMMA InPlaceInv ==
    ASSUME StoreInv, NEW ip \in IPs, Leased(ip), NEW s \in States, NEW d \in BOOLEAN,
           lease' = [lease EXCEPT ![byIP[ip]] = [@ EXCEPT !.state = s, !.due = d]],
           UNCHANGED <<byIP, byClient, available>>
    PROVE  StoreInv'
<1> USE DEF StoreInv
<1> DEFINE r == byIP[ip]
<1>1. r \in Refs /\ lease[r] \in Leases
  BY DEF TypeOK, Coherent, Leased, LeaseAt
<1>2. /\ lease'[r] \in Leases
      /\ lease'[r] # Nil
      /\ lease'[r].ip = lease[r].ip
      /\ lease'[r].clientID = lease[r].clientID
  BY <1>1, NilAssumption DEF TypeOK, Leases
<1>3. \A q \in Refs \ {r} : lease'[q] = lease[q]
  BY DEF TypeOK
<1>4. TypeOK'
  BY <1>1, <1>2, <1>3 DEF TypeOK
<1>5. Coherent'
  BY <1>1, <1>2, <1>3 DEF TypeOK, Coherent, Leased, LeaseAt
<1>6. PoolDisjoint'
  BY DEF PoolDisjoint, Leased, InPool
<1> QED
  BY <1>4, <1>5, <1>6

-----------------------------------------------------------------------------
(* One lemma per method that changes the maps *)

LEMMA ReserveInv ==
    ASSUME StoreInv, NEW c \in ClientIDs, NEW ip \in IPs, Reserve(c, ip)
    PROVE  StoreInv'
<1> USE DEF StoreInv
<1> PICK l \in Fresh :
       Commit([lease EXCEPT ![l] = NewLease(c, ip, "reserved")],
              [byIP EXCEPT ![ip] = l],
              [byClient EXCEPT ![c] = l])
  BY DEF Reserve
<1> DEFINE new == NewLease(c, ip, "reserved")
           heap == [lease EXCEPT ![l] = new]
           ips == [byIP EXCEPT ![ip] = l]
           clients == [byClient EXCEPT ![c] = l]
<1>1. /\ new \in Leases /\ new # Nil
      /\ new.ip = ip /\ new.clientID = c
  BY NewLeaseType DEF States
<1> HIDE DEF new
<1>2. l \in Refs /\ lease[l] = Nil /\ l # Nil /\ byIP[ip] = Nil
  BY NilAssumption DEF Fresh, Reserve, Leased
<1>3. /\ heap \in [Refs -> Leases \cup {Nil}]
      /\ ips \in [IPs -> Refs \cup {Nil}]
      /\ clients \in [ClientIDs -> Refs \cup {Nil}]
  BY <1>1, <1>2 DEF TypeOK
<1>4. /\ heap[l] = new /\ \A r \in Refs \ {l} : heap[r] = lease[r]
      /\ ips[ip] = l /\ \A i \in IPs \ {ip} : ips[i] = byIP[i]
      /\ clients[c] = l /\ \A d \in ClientIDs \ {c} : clients[d] = byClient[d]
  BY <1>2 DEF TypeOK
<1>5. Commit(heap, ips, clients)
  BY DEF new
<1> HIDE DEF heap, ips, clients
<1>6. Agree(heap, ips, clients)
  <2>1. ASSUME NEW i \in IPs, ips[i] # Nil
        PROVE  heap[ips[i]] # Nil /\ heap[ips[i]].ip = i
    <3>1. CASE i = ip
      BY <3>1, <1>1, <1>4
    <3>2. CASE i # ip
      BY <3>2, <2>1, <1>2, <1>4 DEF TypeOK, Coherent, Leased, LeaseAt
    <3> QED
      BY <3>1, <3>2
  <2>2. ASSUME NEW d \in ClientIDs, clients[d] # Nil
        PROVE  /\ heap[clients[d]] # Nil
               /\ heap[clients[d]].clientID = d
               /\ ips[heap[clients[d]].ip] = clients[d]
    <3>1. CASE d = c
      BY <3>1, <1>1, <1>4
    <3>2. CASE d # c
      <4>1. clients[d] = byClient[d] /\ byClient[d] \in Refs
        BY <3>2, <2>2, <1>4 DEF TypeOK
      <4>2. /\ lease[byClient[d]] \in Leases
            /\ lease[byClient[d]].clientID = d
            /\ byIP[lease[byClient[d]].ip] = byClient[d]
        BY <2>2, <4>1 DEF Coherent, TypeOK
      <4>3. lease[byClient[d]].ip \in IPs \ {ip} /\ byClient[d] # l
        BY <4>1, <4>2, <1>2, NilAssumption DEF Leases
      <4> QED
        BY <4>1, <4>2, <4>3, <1>4, NilAssumption
    <3> QED
      BY <3>1, <3>2
  <2> QED
    BY <2>1, <2>2 DEF Agree
<1>7. /\ lease' \in [Refs -> Leases \cup {Nil}]
      /\ byIP' \in [IPs -> Refs \cup {Nil}]
      /\ byClient' \in [ClientIDs -> Refs \cup {Nil}]
      /\ Coherent'
  BY <1>3, <1>5, <1>6, CommitCoherent
<1>8. /\ available' \in Seq(IPs)
      /\ IsInjective(available')
      /\ ToSet(available') \subseteq ToSet(available) \ {ip}
  BY RemoveIP DEF TypeOK, PoolDisjoint, Reserve
<1>9. \A i \in IPs \ {ip} : byIP'[i] = byIP[i]
  BY <1>4, <1>5 DEF Commit
<1>10. PoolDisjoint'
  BY <1>8, <1>9 DEF PoolDisjoint, InPool, Leased
<1> QED
  BY <1>7, <1>8, <1>10 DEF TypeOK

\* AllocateNew deletes the client's old lease from byIP after it has installed
\* the new one: the two addresses differ because the new one had no lease.
LEMMA AllocateNewInv ==
    ASSUME StoreInv, NEW c \in ClientIDs, NEW ip \in IPs, AllocateNew(c, ip)
    PROVE  StoreInv'
<1> USE DEF StoreInv
<1> DEFINE new == NewLease(c, ip, "offered")
           old == byClient[c]
           ipsWith(l) == [i \in IPs |-> IF old # Nil /\ i = lease[old].ip THEN Nil
                                        ELSE IF i = ip THEN l
                                        ELSE byIP[i]]
<1> PICK l \in Fresh :
       Commit([lease EXCEPT ![l] = new], ipsWith(l), [byClient EXCEPT ![c] = l])
  BY DEF AllocateNew
<1> DEFINE heap == [lease EXCEPT ![l] = new]
           ips == ipsWith(l)
           clients == [byClient EXCEPT ![c] = l]
<1>1. /\ new \in Leases /\ new # Nil
      /\ new.ip = ip /\ new.clientID = c
  BY NewLeaseType DEF States
<1> HIDE DEF new
<1>2. l \in Refs /\ lease[l] = Nil /\ l # Nil /\ byIP[ip] = Nil
  BY NilAssumption DEF Fresh, AllocateNew, Leased
<1>3. /\ heap \in [Refs -> Leases \cup {Nil}]
      /\ ips \in [IPs -> Refs \cup {Nil}]
      /\ clients \in [ClientIDs -> Refs \cup {Nil}]
  BY <1>1, <1>2 DEF TypeOK
<1>4. /\ heap[l] = new /\ \A r \in Refs \ {l} : heap[r] = lease[r]
      /\ clients[c] = l /\ \A d \in ClientIDs \ {c} : clients[d] = byClient[d]
  BY <1>2 DEF TypeOK
<1>5. old # Nil => lease[old].ip # ip
  BY <1>2 DEF Coherent
<1>6. /\ ips[ip] = l
      /\ \A i \in IPs \ {ip} : ips[i] = byIP[i] \/ ips[i] = Nil
      /\ \A i \in IPs \ {ip} : (old # Nil => i # lease[old].ip) => ips[i] = byIP[i]
  BY <1>5
<1>7. Commit(heap, ips, clients)
  OBVIOUS
<1> HIDE DEF heap, ips, clients, ipsWith
<1>8. Agree(heap, ips, clients)
  <2>1. ASSUME NEW i \in IPs, ips[i] # Nil
        PROVE  heap[ips[i]] # Nil /\ heap[ips[i]].ip = i
    <3>1. CASE i = ip
      BY <3>1, <1>1, <1>4, <1>6
    <3>2. CASE i # ip
      BY <3>2, <2>1, <1>2, <1>4, <1>6 DEF TypeOK, Coherent, Leased, LeaseAt
    <3> QED
      BY <3>1, <3>2
  <2>2. ASSUME NEW d \in ClientIDs, clients[d] # Nil
        PROVE  /\ heap[clients[d]] # Nil
               /\ heap[clients[d]].clientID = d
               /\ ips[heap[clients[d]].ip] = clients[d]
    <3>1. CASE d = c
      BY <3>1, <1>1, <1>4, <1>6
    <3>2. CASE d # c
      <4>1. clients[d] = byClient[d] /\ byClient[d] \in Refs
        BY <3>2, <2>2, <1>4 DEF TypeOK
      <4>2. /\ lease[byClient[d]] \in Leases
            /\ lease[byClient[d]].clientID = d
            /\ byIP[lease[byClient[d]].ip] = byClient[d]
        BY <2>2, <4>1 DEF Coherent, TypeOK
      <4>3. lease[byClient[d]].ip \in IPs \ {ip} /\ byClient[d] # l
        BY <4>1, <4>2, <1>2, NilAssumption DEF Leases
      <4>4. old # Nil => lease[byClient[d]].ip # lease[old].ip
        BY <3>2, <4>2 DEF Coherent
      <4> QED
        BY <4>1, <4>2, <4>3, <4>4, <1>4, <1>6, NilAssumption
    <3> QED
      BY <3>1, <3>2
  <2> QED
    BY <2>1, <2>2 DEF Agree
<1>9. /\ lease' \in [Refs -> Leases \cup {Nil}]
      /\ byIP' \in [IPs -> Refs \cup {Nil}]
      /\ byClient' \in [ClientIDs -> Refs \cup {Nil}]
      /\ Coherent'
  BY <1>3, <1>7, <1>8, CommitCoherent
<1>10. /\ available' \in Seq(IPs)
       /\ IsInjective(available')
       /\ ToSet(available') \subseteq ToSet(available) \ {ip}
  BY RemoveIP DEF TypeOK, PoolDisjoint, AllocateNew
<1>11. \A i \in IPs \ {ip} : byIP'[i] # Nil => byIP[i] # Nil
  BY <1>6, <1>7 DEF Commit
<1>12. PoolDisjoint'
  BY <1>10, <1>11 DEF PoolDisjoint, InPool, Leased
<1> QED
  BY <1>9, <1>10, <1>12 DEF TypeOK

\* AllocateReserved blanks the identifier of the lease the client was indexed
\* under: byClient no longer points at that lease when it does.
LEMMA AllocateReservedInv ==
    ASSUME StoreInv, NEW c \in ClientIDs, NEW ip \in IPs, AllocateReserved(c, ip)
    PROVE  StoreInv'
<1> USE DEF StoreInv
<1> DEFINE l == byIP[ip]
           old == byClient[c]
           heap == [r \in Refs |->
                      IF r = l THEN [lease[r] EXCEPT !.state = "offered", !.due = FALSE]
                      ELSE IF r = old THEN [lease[r] EXCEPT !.clientID = NoID]
                      ELSE lease[r]]
           clients == [byClient EXCEPT ![c] = l]
<1>1. l \in Refs /\ l # Nil /\ lease[l] \in Leases /\ lease[l].ip = ip /\ lease[l].clientID = c
  <2>1. l # Nil /\ lease[l].clientID = c
    BY DEF AllocateReserved, OwnedBy, Leased, LeaseAt
  <2>2. l \in Refs /\ lease[l] # Nil /\ lease[l].ip = ip
    BY <2>1 DEF TypeOK, Coherent, Leased, LeaseAt
  <2> QED
    BY <2>1, <2>2 DEF TypeOK
<1>2. /\ heap[l] \in Leases /\ heap[l].ip = ip /\ heap[l].clientID = c
  BY <1>1 DEF Leases, States
<1>3. ASSUME NEW r \in Refs \ {l}, lease[r] # Nil
      PROVE  /\ heap[r] \in Leases
             /\ heap[r].ip = lease[r].ip
             /\ r # old => heap[r] = lease[r]
  <2>1. lease[r] \in Leases
    BY <1>3 DEF TypeOK
  <2>2. CASE r = old
    BY <2>1, <2>2 DEF Leases, ClientIDs
  <2>3. CASE r # old
    BY <2>1, <2>3
  <2> QED
    BY <2>2, <2>3
<1>4. ASSUME NEW r \in Refs \ {l}, lease[r] = Nil
      PROVE  heap[r] = Nil
  <2>1. r # old
    BY <1>4, NilAssumption DEF Coherent
  <2> QED
    BY <1>4, <2>1
<1>5. heap \in [Refs -> Leases \cup {Nil}] /\ clients \in [ClientIDs -> Refs \cup {Nil}]
  <2>1. ASSUME NEW r \in Refs
        PROVE  heap[r] \in Leases \cup {Nil}
    BY <1>2, <1>3, <1>4
  <2>2. clients \in [ClientIDs -> Refs \cup {Nil}]
    BY <1>1 DEF TypeOK
  <2> QED
    BY <2>1, <2>2
<1>6. clients[c] = l /\ \A d \in ClientIDs \ {c} : clients[d] = byClient[d]
  BY DEF TypeOK
<1>7. Commit(heap, byIP, clients)
  BY DEF AllocateReserved
<1> HIDE DEF heap, clients
<1>8. Agree(heap, byIP, clients)
  <2>1. ASSUME NEW i \in IPs, byIP[i] # Nil
        PROVE  heap[byIP[i]] # Nil /\ heap[byIP[i]].ip = i
    <3>1. byIP[i] \in Refs /\ lease[byIP[i]] # Nil /\ lease[byIP[i]].ip = i
      BY <2>1 DEF Coherent, Leased, LeaseAt, TypeOK
    <3>2. CASE byIP[i] = l
      BY <3>1, <3>2, <1>1, <1>2, NilAssumption
    <3>3. CASE byIP[i] # l
      BY <3>1, <3>3, <1>3, NilAssumption
    <3> QED
      BY <3>2, <3>3
  <2>2. ASSUME NEW d \in ClientIDs, clients[d] # Nil
        PROVE  /\ heap[clients[d]] # Nil
               /\ heap[clients[d]].clientID = d
               /\ byIP[heap[clients[d]].ip] = clients[d]
    <3>1. CASE d = c
      BY <3>1, <1>1, <1>2, <1>6, NilAssumption
    <3>2. CASE d # c
      <4>1. clients[d] = byClient[d] /\ byClient[d] \in Refs
        BY <3>2, <2>2, <1>6 DEF TypeOK
      <4>2. /\ lease[byClient[d]] # Nil
            /\ lease[byClient[d]].clientID = d
            /\ byIP[lease[byClient[d]].ip] = byClient[d]
        BY <2>2, <4>1 DEF Coherent
      <4>3. byClient[d] # l
        BY <3>2, <4>2, <1>1
      <4>4. byClient[d] # old
        BY <2>2, <3>2, <4>1, <4>2 DEF Coherent
      <4> QED
        BY <4>1, <4>2, <4>3, <4>4, <1>3
    <3> QED
      BY <3>1, <3>2
  <2> QED
    BY <2>1, <2>2 DEF Agree
<1>9. /\ lease' \in [Refs -> Leases \cup {Nil}]
      /\ byIP' \in [IPs -> Refs \cup {Nil}]
      /\ byClient' \in [ClientIDs -> Refs \cup {Nil}]
      /\ Coherent'
  BY <1>5, <1>7, <1>8, CommitCoherent DEF TypeOK
<1>10. available' = available /\ byIP' = byIP
  BY <1>7 DEF Commit, AllocateReserved
<1> QED
  BY <1>9, <1>10 DEF TypeOK, PoolDisjoint, InPool, Leased

LEMMA InitInv == StoreInit => StoreInv
<1> SUFFICES ASSUME StoreInit
             PROVE  StoreInv
  OBVIOUS
<1> USE DEF StoreInit, NewMemoryStore
<1> DEFINE n == RangeEnd + 1 - RangeStart
<1>1. n \in Int /\ \A i \in 1 .. n : RangeStart + i - 1 \in RangeStart .. RangeEnd
  BY AddressAssumption
<1>2. available \in Seq(IPs) /\ DOMAIN available = 1 .. n
  <2>1. \A i \in 1 .. n : RangeStart + i - 1 \in IPs
    BY <1>1, AddressAssumption
  <2>2. available \in [1 .. n -> IPs]
    BY <2>1
  <2> HIDE DEF n
  <2>3. CASE n >= 0
    <3>1. n \in Nat
      BY <2>3, <1>1
    <3> HIDE DEF StoreInit, NewMemoryStore
    <3> QED
      BY <3>1, <2>2, SeqDef
  <2>4. CASE n < 0
    <3>1. 1 .. n = 1 .. 0
      BY <2>4, <1>1
    <3>2. available \in [1 .. 0 -> IPs]
      BY <3>1, <2>2
    <3> HIDE DEF StoreInit, NewMemoryStore
    <3>3. available \in Seq(IPs)
      BY <3>2
    <3> QED
      BY <2>2, <3>3
  <2> QED
    BY <2>3, <2>4, <1>1
<1>3. TypeOK
  BY <1>2 DEF TypeOK
<1>4. Coherent
  BY DEF Coherent, Leased
<1>5. IsInjective(available)
  BY <1>1, <1>2, AddressAssumption DEF IsInjective
<1> QED
  BY <1>3, <1>4, <1>5 DEF StoreInv, PoolDisjoint, Leased

-----------------------------------------------------------------------------
(* The invariant of the store *)

LEMMA NextInv == StoreInv /\ [StoreNext]_storeVars => StoreInv'
<1> SUFFICES ASSUME StoreInv, [StoreNext]_storeVars
             PROVE  StoreInv'
  OBVIOUS
<1>1. ASSUME NEW c \in Clients, NEW ip \in IPs, Reserve(c, ip)
      PROVE  StoreInv'
  BY <1>1, ReserveInv DEF ClientIDs
<1>2. ASSUME NEW c \in Clients, NEW ip \in IPs, Allocate(c, ip)
      PROVE  StoreInv'
  <2>1. CASE AllocateReserved(c, ip)
    BY <2>1, AllocateReservedInv DEF ClientIDs
  <2>2. CASE AllocateOffered(c, ip)
    BY <2>2, InPlaceInv DEF AllocateOffered, SetState, States, InState
  <2>3. CASE AllocateNew(c, ip)
    BY <2>3, AllocateNewInv DEF ClientIDs
  <2> QED
    BY <1>2, <2>1, <2>2, <2>3 DEF Allocate
<1>3. ASSUME NEW c \in Clients, NEW ip \in IPs, Renew(c, ip)
      PROVE  StoreInv'
  BY <1>3, InPlaceInv DEF Renew, RenewOK, SetState, States, OwnedBy
<1>4. ASSUME NEW c \in Clients, NEW ip \in IPs, Release(c, ip)
      PROVE  StoreInv'
  BY <1>4, FreeInv DEF Release, OwnedBy
<1>5. ASSUME NEW ip \in IPs, Unreserve(ip)
      PROVE  StoreInv'
  BY <1>5, FreeInv DEF Unreserve, InState
<1>6. ASSUME NEW ip \in IPs, Decline(ip)
      PROVE  StoreInv'
  BY <1>6, InPlaceInv DEF Decline, SetState, States
<1>7. ASSUME NEW ip \in IPs, Elapse(ip)
      PROVE  StoreInv'
  <2>1. byIP[ip] \in Refs /\ LeaseAt(ip) \in Leases
    BY <1>7 DEF Elapse, InState, StoreInv, TypeOK, Coherent, Leased, LeaseAt
  <2> DEFINE s == LeaseAt(ip).state
  <2>2. s \in States /\ [LeaseAt(ip) EXCEPT !.due = TRUE] = [LeaseAt(ip) EXCEPT !.state = s, !.due = TRUE]
    BY <2>1 DEF Leases
  <2>3. lease' = [lease EXCEPT ![byIP[ip]] = [@ EXCEPT !.state = s, !.due = TRUE]]
    BY <1>7, <2>1, <2>2 DEF Elapse, LeaseAt
  <2> HIDE DEF s
  <2> QED
    BY <1>7, <2>2, <2>3, InPlaceInv DEF Elapse, InState
<1>8. ASSUME NextAvailable
      PROVE  StoreInv'
  <2>1. /\ available' \in Seq(IPs)
        /\ ToSet(available') \subseteq ToSet(available)
        /\ IsInjective(available')
    BY <1>8, Rotate DEF NextAvailable, StoreInv, TypeOK, PoolDisjoint
  <2> QED
    BY <1>8, <2>1 DEF NextAvailable, StoreInv, TypeOK, Coherent, PoolDisjoint, Leased, LeaseAt, InPool
<1>9. ASSUME Expired
      PROVE  StoreInv'
  BY <1>9, FreeInv DEF Expired, ExpiredIPs, InState
<1>10. ASSUME Declined
       PROVE  StoreInv'
  BY <1>10, FreeInv DEF Declined, DeclinedIPs, InState
<1>11. ASSUME UNCHANGED storeVars
       PROVE  StoreInv'
  BY <1>11 DEF storeVars, StoreInv, TypeOK, Coherent, PoolDisjoint, Leased, LeaseAt, InPool
<1> QED
  BY <1>1, <1>2, <1>3, <1>4, <1>5, <1>6, <1>7, <1>8, <1>9, <1>10, <1>11 DEF StoreNext

LEMMA StoreInvariant == StoreSpec => []StoreInv
BY InitInv, NextInv, PTL DEF StoreSpec

\* Whatever the callers of the store do, its variables keep their types: no
\* method reads through a missing pointer.
THEOREM StoreTypeCorrect == StoreSpec => []TypeOK
<1>1. StoreInv => TypeOK
  BY DEF StoreInv
<1> QED
  BY <1>1, StoreInvariant, PTL

\* In every reachable state the two maps agree: what byClient points at is what
\* byIP holds for that lease's address, and no entry of either is stale.
THEOREM StoreCoherent == StoreSpec => []Coherent
<1>1. StoreInv => Coherent
  BY DEF StoreInv
<1> QED
  BY <1>1, StoreInvariant, PTL

\* In every reachable state the FIFO holds each address at most once and none
\* that has a lease, so NextAvailable never returns an address in use.
THEOREM StorePoolDisjoint == StoreSpec => []PoolDisjoint
<1>1. StoreInv => PoolDisjoint
  BY DEF StoreInv
<1> QED
  BY <1>1, StoreInvariant, PTL

-----------------------------------------------------------------------------
(* What a step leaves of the leases, and what it loses *)

LEMMA FreeKeeps ==
    ASSUME StoreInv, NEW gone \in SUBSET IPs, \A ip \in gone : Leased(ip), Free(gone)
    PROVE  KeepsOwner /\ LosesByMoving
<1>1. PICK order \in SetToSeqs(gone) : available' = available \o order
  BY DEF Free
<1>2. gone \subseteq Range(available')
  <2>1. ToSet(available) \cup gone \subseteq ToSet(available')
    BY <1>1, AppendOrder DEF StoreInv, TypeOK
  <2> QED
    BY <2>1 DEF ToSet, Range
<1>3. \A ip \in IPs : byIP'[ip] = IF ip \in gone THEN Nil ELSE byIP[ip]
  BY DEF Free, Commit
<1>4. \A ip \in IPs : byIP'[ip] # Nil => lease'[byIP'[ip]] = lease[byIP[ip]]
  <2> SUFFICES ASSUME NEW ip \in IPs, byIP'[ip] # Nil
               PROVE  lease'[byIP'[ip]] = lease[byIP[ip]]
    OBVIOUS
  <2>1. byIP'[ip] = byIP[ip] /\ byIP[ip] \in Refs
    BY <1>3 DEF StoreInv, TypeOK
  <2> QED
    BY <2>1 DEF Free, Commit
<1>5. KeepsOwner
  BY <1>3, <1>4 DEF KeepsOwner, LeaseAt, Leased
<1>6. LosesByMoving
  BY <1>2, <1>3 DEF LosesByMoving, Leased
<1> QED
  BY <1>5, <1>6

LEMMA InPlaceKeeps ==
    ASSUME StoreInv, NEW ip \in IPs, Leased(ip), NEW s \in States, NEW t \in BOOLEAN,
           lease' = [lease EXCEPT ![byIP[ip]] = [@ EXCEPT !.state = s, !.due = t]],
           UNCHANGED <<byIP, byClient, available>>
    PROVE  KeepsOwner /\ LosesByMoving
<1>1. \A i \in IPs : Leased(i) => byIP[i] \in Refs /\ lease[byIP[i]] \in Leases
  BY DEF StoreInv, TypeOK, Coherent, Leased, LeaseAt
<1>2. \A i \in IPs : Leased(i) => lease'[byIP[i]].clientID = lease[byIP[i]].clientID
  BY <1>1 DEF StoreInv, TypeOK, Leases
<1> QED
  BY <1>2 DEF KeepsOwner, LosesByMoving, LeaseAt, Leased

LEMMA ReserveKeeps ==
    ASSUME StoreInv, NEW c \in ClientIDs, NEW ip \in IPs, Reserve(c, ip)
    PROVE  KeepsOwner /\ LosesByMoving
<1> PICK l \in Fresh :
       Commit([lease EXCEPT ![l] = NewLease(c, ip, "reserved")],
              [byIP EXCEPT ![ip] = l],
              [byClient EXCEPT ![c] = l])
  BY DEF Reserve
<1>1. ASSUME NEW i \in IPs, Leased(i)
      PROVE  byIP'[i] = byIP[i] /\ lease'[byIP[i]] = lease[byIP[i]] /\ byIP[i] # Nil
  <2>1. i # ip /\ byIP[i] \in Refs /\ byIP[i] # l
    BY <1>1 DEF Reserve, Leased, LeaseAt, StoreInv, TypeOK, Coherent, Fresh
  <2>2. byIP'[i] = byIP[i]
    BY <2>1 DEF Commit, StoreInv, TypeOK
  <2>3. lease'[byIP[i]] = [lease EXCEPT ![l] = NewLease(c, ip, "reserved")][byIP[i]]
    BY <2>1, <2>2 DEF Commit
  <2> QED
    BY <1>1, <2>1, <2>2, <2>3 DEF Leased, StoreInv, TypeOK
<1> QED
  BY <1>1 DEF KeepsOwner, LosesByMoving, LeaseAt

LEMMA AllocateReservedKeeps ==
    ASSUME StoreInv, NEW c \in ClientIDs, NEW ip \in IPs, AllocateReserved(c, ip)
    PROVE  KeepsOwner /\ LosesByMoving
<1> DEFINE l == byIP[ip]
<1>1. byIP' = byIP /\ byClient' = [byClient EXCEPT ![c] = l]
  BY DEF AllocateReserved, Commit
<1>2. LosesByMoving
  BY <1>1 DEF LosesByMoving, Leased
<1>3. ASSUME NEW i \in IPs, Leased(i)
      PROVE  \/ lease'[byIP[i]].clientID = LeaseAt(i).clientID
             \/ /\ lease'[byIP[i]].clientID = NoID
                /\ i # ip
                /\ LeaseAt(i).clientID = c
  <2> DEFINE r == byIP[i]
  <2>1. r \in Refs /\ lease[r] \in Leases /\ lease[r] = LeaseAt(i)
    BY <1>3 DEF StoreInv, TypeOK, Coherent, Leased, LeaseAt
  <2>2. lease'[r] = IF r = l THEN [lease[r] EXCEPT !.state = "offered", !.due = FALSE]
                    ELSE IF r = byClient[c] THEN [lease[r] EXCEPT !.clientID = NoID]
                    ELSE lease[r]
    BY <1>1, <2>1 DEF AllocateReserved, Commit
  <2> HIDE DEF r
  <2>3. CASE r = l
    BY <2>1, <2>2, <2>3 DEF Leases, r
  <2>4. CASE r # l /\ r = byClient[c]
    <3>1. lease[r].clientID = c
      BY <2>4, <1>3 DEF StoreInv, Coherent, r, Leased
    <3> QED
      BY <2>1, <2>2, <2>4, <3>1 DEF Leases, r
  <2>5. CASE r # l /\ r # byClient[c]
    BY <2>1, <2>2, <2>5 DEF r
  <2> QED
    BY <2>3, <2>4, <2>5 DEF r
<1>4. OwnedBy(ip, c) /\ InState(ip, {"reserved"}) /\ byClient'[c] = byIP[ip]
  BY <1>1 DEF AllocateReserved, StoreInv, TypeOK
<1>5. KeepsOwner
  BY <1>1, <1>3, <1>4 DEF KeepsOwner
<1> QED
  BY <1>2, <1>5

LEMMA AllocateNewKeeps ==
    ASSUME StoreInv, NEW c \in ClientIDs, NEW ip \in IPs, AllocateNew(c, ip)
    PROVE  KeepsOwner /\ LosesByMoving
<1> DEFINE new == NewLease(c, ip, "offered")
           old == byClient[c]
<1>0. /\ new.ip = ip /\ new.state = "offered"
  BY DEF NewLease
<1> HIDE DEF new
<1> PICK l \in Fresh :
       Commit([lease EXCEPT ![l] = new],
              [i \in IPs |-> IF old # Nil /\ i = lease[old].ip THEN Nil
                             ELSE IF i = ip THEN l
                             ELSE byIP[i]],
              [byClient EXCEPT ![c] = l])
  BY DEF AllocateNew, new
<1>1. l \in Refs /\ lease[l] = Nil /\ l # Nil
  BY NilAssumption DEF Fresh
<1>2. byClient'[c] = l
  BY DEF Commit, StoreInv, TypeOK
<1>3. lease'[l] = new
  BY <1>1, <1>2 DEF Commit, StoreInv, TypeOK
<1>4. ASSUME NEW i \in IPs, Leased(i)
      PROVE  /\ byIP[i] \in Refs /\ i # ip /\ byIP[i] # l
             /\ LeaseAt(i).ip = i
             /\ byIP'[i] = Nil \/ byIP'[i] = byIP[i]
             /\ byIP'[i] = Nil => old # Nil /\ i = lease[old].ip
  BY <1>1, <1>4 DEF Commit, AllocateNew, Leased, LeaseAt, StoreInv, TypeOK, Coherent
<1>5. ASSUME NEW i \in IPs, Leased(i), byIP'[i] = byIP[i]
      PROVE  lease'[byIP[i]] = lease[byIP[i]]
  BY <1>1, <1>4, <1>5 DEF Commit, StoreInv, TypeOK
<1>6. KeepsOwner
  BY <1>4, <1>5 DEF KeepsOwner, LeaseAt
<1>7. ASSUME NEW i \in IPs, Leased(i), byIP'[i] = Nil
      PROVE  byIP[i] = old /\ LeaseAt(i).clientID = c
  <2>1. old # Nil /\ i = lease[old].ip
    BY <1>4, <1>7
  <2>2. byIP[i] = old /\ lease[old].clientID = c
    BY <2>1 DEF StoreInv, Coherent
  <2> QED
    BY <2>2 DEF LeaseAt
<1>8. LosesByMoving
  BY <1>0, <1>1, <1>2, <1>3, <1>4, <1>7 DEF LosesByMoving
<1> QED
  BY <1>6, <1>8

LEMMA StepKeeps == StoreInv /\ [StoreNext]_storeVars => KeepsOwner /\ LosesByMoving
<1> SUFFICES ASSUME StoreInv, [StoreNext]_storeVars
             PROVE  KeepsOwner /\ LosesByMoving
  OBVIOUS
<1>1. ASSUME NEW c \in Clients, NEW ip \in IPs, Reserve(c, ip)
      PROVE  KeepsOwner /\ LosesByMoving
  BY <1>1, ReserveKeeps DEF ClientIDs
<1>2. ASSUME NEW c \in Clients, NEW ip \in IPs, Allocate(c, ip)
      PROVE  KeepsOwner /\ LosesByMoving
  <2>1. CASE AllocateReserved(c, ip)
    BY <2>1, AllocateReservedKeeps DEF ClientIDs
  <2>2. CASE AllocateOffered(c, ip)
    BY <2>2, InPlaceKeeps DEF AllocateOffered, SetState, States, InState
  <2>3. CASE AllocateNew(c, ip)
    BY <2>3, AllocateNewKeeps DEF ClientIDs
  <2> QED
    BY <1>2, <2>1, <2>2, <2>3 DEF Allocate
<1>3. ASSUME NEW c \in Clients, NEW ip \in IPs, Renew(c, ip)
      PROVE  KeepsOwner /\ LosesByMoving
  BY <1>3, InPlaceKeeps DEF Renew, RenewOK, SetState, States, OwnedBy
<1>4. ASSUME NEW c \in Clients, NEW ip \in IPs, Release(c, ip)
      PROVE  KeepsOwner /\ LosesByMoving
  BY <1>4, FreeKeeps DEF Release, OwnedBy
<1>5. ASSUME NEW ip \in IPs, Unreserve(ip)
      PROVE  KeepsOwner /\ LosesByMoving
  BY <1>5, FreeKeeps DEF Unreserve, InState
<1>6. ASSUME NEW ip \in IPs, Decline(ip)
      PROVE  KeepsOwner /\ LosesByMoving
  BY <1>6, InPlaceKeeps DEF Decline, SetState, States
<1>7. ASSUME NEW ip \in IPs, Elapse(ip)
      PROVE  KeepsOwner /\ LosesByMoving
  <2>1. byIP[ip] \in Refs /\ lease[byIP[ip]] \in Leases
    BY <1>7 DEF Elapse, InState, StoreInv, TypeOK, Coherent, Leased, LeaseAt
  <2> DEFINE s == lease[byIP[ip]].state
  <2>2. s \in States
    BY <2>1 DEF Leases
  <2>3. lease' = [lease EXCEPT ![byIP[ip]] = [@ EXCEPT !.state = s, !.due = TRUE]]
    <3>1. [lease[byIP[ip]] EXCEPT !.due = TRUE] = [lease[byIP[ip]] EXCEPT !.state = s, !.due = TRUE]
      BY <2>1 DEF Leases
    <3> QED
      BY <1>7, <2>1, <3>1 DEF Elapse
  <2> HIDE DEF s
  <2> QED
    BY <1>7, <2>2, <2>3, InPlaceKeeps DEF Elapse, InState
<1>8. ASSUME NextAvailable \/ UNCHANGED storeVars
      PROVE  KeepsOwner /\ LosesByMoving
  BY <1>8 DEF NextAvailable, storeVars, KeepsOwner, LosesByMoving, Leased, LeaseAt
<1>9. ASSUME Expired
      PROVE  KeepsOwner /\ LosesByMoving
  BY <1>9, FreeKeeps DEF Expired, ExpiredIPs, InState
<1>10. ASSUME Declined
       PROVE  KeepsOwner /\ LosesByMoving
  BY <1>10, FreeKeeps DEF Declined, DeclinedIPs, InState
<1> QED
  BY <1>1, <1>2, <1>3, <1>4, <1>5, <1>6, <1>7, <1>8, <1>9, <1>10 DEF StoreNext

\* No sequence of calls moves a lease from one client to another: Allocate's
\* loss of the identifier, when a reservation takes the index over, is the only
\* change of owner there is.
THEOREM StoreOwnerStable == StoreSpec => OwnerStable
<1>1. StoreInv /\ [StoreNext]_storeVars => [KeepsOwner]_storeVars
  BY StepKeeps
<1> QED
  BY <1>1, StoreInvariant, PTL DEF StoreSpec, OwnerStable

\* No method but Allocate, and that only for the client's previous lease, takes
\* an address out of use without queueing it again.
THEOREM StoreLostOnlyByMoving == StoreSpec => LostOnlyByMoving
<1>1. StoreInv /\ [StoreNext]_storeVars => [LosesByMoving]_storeVars
  BY StepKeeps
<1> QED
  BY <1>1, StoreInvariant, PTL DEF StoreSpec, LostOnlyByMoving

-----------------------------------------------------------------------------
(* The order of the FIFO *)

\* A method that leaves the queue alone keeps its order.
LEMMA SameOrder ==
    ASSUME StoreInv, available' = available
    PROVE  KeepsOrder(available, available')
<1>1. DOMAIN available = 1 .. Len(available) /\ Len(available) \in Nat
  BY LenProperties DEF StoreInv, TypeOK
<1> QED
  BY <1>1 DEF KeepsOrder, StoreInv, PoolDisjoint, IsInjective

LEMMA FreeOrder ==
    ASSUME StoreInv, NEW gone \in SUBSET IPs, \A ip \in gone : Leased(ip), Free(gone)
    PROVE  KeepsOrder(available, available')
<1>1. PICK order \in SetToSeqs(gone) : available' = available \o order
  BY DEF Free
<1>2. gone \cap ToSet(available) = {}
  BY DEF StoreInv, PoolDisjoint, InPool
<1> QED
  BY <1>1, <1>2, AppendOrder DEF StoreInv, TypeOK, PoolDisjoint

LEMMA StepOrder == StoreInv /\ [StoreNext]_storeVars => Rotates \/ KeepsOrder(available, available')
<1> SUFFICES ASSUME StoreInv, [StoreNext]_storeVars
             PROVE  Rotates \/ KeepsOrder(available, available')
  OBVIOUS
<1>1. ASSUME NEW c \in Clients, NEW ip \in IPs, Reserve(c, ip) \/ AllocateNew(c, ip)
      PROVE  KeepsOrder(available, available')
  BY <1>1, RemoveIP DEF Reserve, AllocateNew, StoreInv, TypeOK, PoolDisjoint
<1>2. ASSUME NEW c \in Clients, NEW ip \in IPs,
             AllocateReserved(c, ip) \/ AllocateOffered(c, ip) \/ Renew(c, ip)
      PROVE  KeepsOrder(available, available')
  BY <1>2, SameOrder DEF AllocateReserved, AllocateOffered, Renew, SetState
<1>3. ASSUME NEW c \in Clients, NEW ip \in IPs, Release(c, ip)
      PROVE  KeepsOrder(available, available')
  BY <1>3, FreeOrder DEF Release, OwnedBy
<1>4. ASSUME NEW ip \in IPs, Unreserve(ip)
      PROVE  KeepsOrder(available, available')
  BY <1>4, FreeOrder DEF Unreserve, InState
<1>5. ASSUME NEW ip \in IPs, Decline(ip) \/ Elapse(ip)
      PROVE  KeepsOrder(available, available')
  BY <1>5, SameOrder DEF Decline, Elapse, SetState
<1>6. ASSUME NextAvailable
      PROVE  Rotates
  BY <1>6 DEF NextAvailable, Rotates
<1>7. ASSUME Expired
      PROVE  KeepsOrder(available, available')
  BY <1>7, FreeOrder DEF Expired, ExpiredIPs, InState
<1>8. ASSUME Declined
      PROVE  KeepsOrder(available, available')
  BY <1>8, FreeOrder DEF Declined, DeclinedIPs, InState
<1>9. ASSUME UNCHANGED storeVars
      PROVE  KeepsOrder(available, available')
  BY <1>9, SameOrder DEF storeVars
<1> QED
  BY <1>1, <1>2, <1>3, <1>4, <1>5, <1>6, <1>7, <1>8, <1>9 DEF StoreNext, Allocate

\* The addresses come round in the order they came free, whatever the callers
\* do: no method puts an address before one that was queued already, and none
\* changes the order of two but NextAvailable, which turns the whole queue.
THEOREM StorePoolFIFO == StoreSpec => PoolFIFO
<1>1. StoreInv /\ [StoreNext]_storeVars => [Rotates \/ KeepsOrder(available, available')]_storeVars
  BY StepOrder
<1> QED
  BY <1>1, StoreInvariant, PTL DEF StoreSpec, PoolFIFO

-----------------------------------------------------------------------------
(* The store implements LeaseLifecycle: with pointers, indexes and queue   *)
(* hidden by AddressOf, each method is one step of the life cycle of one   *)
(* address (of two, in Allocate), or none.                                 *)
(*                                                                         *)
(* The argument is by method: which address it moves and where to, and     *)
(* that every other address keeps its lease, or its place in or out of the *)
(* FIFO.  The latter is where the invariant of the store is used.          *)

Addresses == [ip \in IPs |-> AddressOf(ip)]

-----------------------------------------------------------------------------
(* One address *)

\* The view of a leased address is its lease.
LEMMA LeasedView ==
    ASSUME StoreInv, NEW ip \in IPs
    PROVE  /\ Leased(ip) => /\ LeaseAt(ip) \in Leases
                            /\ AddressOf(ip).phase = LeaseAt(ip).state
                            /\ AddressOf(ip).holder = LeaseAt(ip).clientID
                            /\ AddressOf(ip).late = LeaseAt(ip).due
           /\ Leased(ip) <=> AddressOf(ip).phase \notin {"idle", "free"}
<1>1. Leased(ip) => LeaseAt(ip) \in Leases
  BY DEF StoreInv, TypeOK, Coherent, Leased, LeaseAt
<1>2. CASE Leased(ip)
  <2>1. AddressOf(ip) = [phase |-> LeaseAt(ip).state, holder |-> LeaseAt(ip).clientID,
                         late |-> LeaseAt(ip).due]
    BY <1>2 DEF AddressOf
  <2>2. LeaseAt(ip).state \in States
    BY <1>1, <1>2 DEF Leases
  <2> QED
    BY <1>1, <1>2, <2>1, <2>2 DEF States
<1>3. CASE ~Leased(ip)
  BY <1>3 DEF AddressOf
<1> QED
  BY <1>2, <1>3

\* An address keeps its view if it keeps its lease, or has none and stays
\* where it is with respect to the FIFO.
LEMMA SameView ==
    ASSUME NEW ip \in IPs,
           byIP'[ip] = byIP[ip],
           Leased(ip) => lease'[byIP[ip]] = lease[byIP[ip]],
           ~Leased(ip) => (ip \in ToSet(available') <=> ip \in ToSet(available))
    PROVE  AddressOf(ip)' = AddressOf(ip)
BY DEF AddressOf, Leased, LeaseAt, InPool

\* The view of an address whose lease is new or rewritten.
LEMMA NewView ==
    ASSUME NEW ip \in IPs, NEW l \in Leases,
           byIP'[ip] # Nil, lease'[byIP'[ip]] = l
    PROVE  AddressOf(ip)' = [phase |-> l.state, holder |-> l.clientID, late |-> l.due]
BY DEF AddressOf, Leased, LeaseAt

LEMMA OneMoves ==
    ASSUME NEW ip \in IPs, NEW x,
           AddressOf(ip)' = x,
           \A i \in IPs \ {ip} : AddressOf(i)' = AddressOf(i)
    PROVE  Addresses' = [Addresses EXCEPT ![ip] = x]
BY DEF Addresses

-----------------------------------------------------------------------------
(* The methods *)

LEMMA FreeViews ==
    ASSUME StoreInv, NEW gone \in SUBSET IPs, \A ip \in gone : Leased(ip), Free(gone)
    PROVE  Addresses' = [ip \in IPs |-> IF ip \in gone THEN Lifecycle!Free ELSE AddressOf(ip)]
<1>1. PICK order \in SetToSeqs(gone) : available' = available \o order
  BY DEF Free
<1>2. ToSet(available') = ToSet(available) \cup gone
  BY <1>1, AppendOrder DEF StoreInv, TypeOK
<1>3. \A ip \in IPs : byIP'[ip] = IF ip \in gone THEN Nil ELSE byIP[ip]
  BY DEF Free, Commit
<1>4. ASSUME NEW ip \in IPs \ gone
      PROVE  AddressOf(ip)' = AddressOf(ip)
  <2>1. Leased(ip) => lease'[byIP[ip]] = lease[byIP[ip]]
    <3> SUFFICES ASSUME Leased(ip)
                 PROVE  lease'[byIP[ip]] = lease[byIP[ip]]
      OBVIOUS
    <3>1. byIP[ip] \in Refs /\ byIP'[ip] = byIP[ip]
      BY <1>3 DEF StoreInv, TypeOK, Leased
    <3> QED
      BY <3>1 DEF Free, Commit
  <2> QED
    BY <1>2, <1>3, <2>1, SameView
<1>5. ASSUME NEW ip \in gone
      PROVE  AddressOf(ip)' = Lifecycle!Free
  BY <1>2, <1>3 DEF AddressOf, Leased, InPool, Lifecycle!Free
<1> QED
  BY <1>4, <1>5 DEF Addresses

\* The methods that free one address.
LEMMA FreeOne ==
    ASSUME StoreInv, NEW ip \in IPs, Leased(ip), Free({ip})
    PROVE  Addresses' = [Addresses EXCEPT ![ip] = Lifecycle!Free]
<1>1. Addresses' = [i \in IPs |-> IF i \in {ip} THEN Lifecycle!Free ELSE AddressOf(i)]
  BY FreeViews
<1> QED
  BY <1>1 DEF Addresses

\* The methods that rewrite state and deadline of a lease in place.
LEMMA InPlaceView ==
    ASSUME StoreInv, NEW ip \in IPs, Leased(ip), NEW s \in States, NEW t \in BOOLEAN,
           lease' = [lease EXCEPT ![byIP[ip]] = [@ EXCEPT !.state = s, !.due = t]],
           UNCHANGED <<byIP, byClient, available>>
    PROVE  Addresses' = [Addresses EXCEPT ![ip] =
                           [phase |-> s, holder |-> AddressOf(ip).holder, late |-> t]]
<1> DEFINE r == byIP[ip]
           new == [lease[r] EXCEPT !.state = s, !.due = t]
<1>1. r \in Refs /\ lease[r] \in Leases /\ lease[r] = LeaseAt(ip)
  BY DEF StoreInv, TypeOK, Coherent, Leased, LeaseAt
<1>2. new \in Leases /\ new.state = s /\ new.due = t /\ new.clientID = AddressOf(ip).holder
  BY <1>1, LeasedView DEF Leases
<1>3. lease'[r] = new /\ \A q \in Refs \ {r} : lease'[q] = lease[q]
  BY <1>1 DEF StoreInv, TypeOK
<1> HIDE DEF new
<1>4. AddressOf(ip)' = [phase |-> s, holder |-> AddressOf(ip).holder, late |-> t]
  <2>1. byIP'[ip] # Nil /\ lease'[byIP'[ip]] = new
    BY <1>3 DEF Leased
  <2> HIDE DEF r
  <2> QED
    BY <1>2, <2>1, NewView
<1>5. ASSUME NEW i \in IPs \ {ip}
      PROVE  AddressOf(i)' = AddressOf(i)
  <2>1. Leased(i) => byIP[i] \in Refs \ {r}
    BY <1>1 DEF StoreInv, TypeOK, Coherent, Leased, LeaseAt
  <2>2. Leased(i) => lease'[byIP[i]] = lease[byIP[i]]
    BY <1>3, <2>1
  <2> QED
    BY <2>2, SameView
<1> QED
  BY <1>4, <1>5, OneMoves

LEMMA ReserveView ==
    ASSUME StoreInv, NEW c \in ClientIDs, NEW ip \in IPs, Reserve(c, ip)
    PROVE  Addresses' = [Addresses EXCEPT ![ip] =
                           [phase |-> "reserved", holder |-> c, late |-> FALSE]]
<1> DEFINE new == NewLease(c, ip, "reserved")
<1>0. new \in Leases /\ new.state = "reserved" /\ new.clientID = c /\ new.due = FALSE
  BY NewLeaseType DEF States, NewLease
<1> PICK l \in Fresh :
       Commit([lease EXCEPT ![l] = new], [byIP EXCEPT ![ip] = l], [byClient EXCEPT ![c] = l])
  BY DEF Reserve
<1> HIDE DEF new
<1>1. l \in Refs /\ lease[l] = Nil /\ l # Nil
  BY NilAssumption DEF Fresh
<1>2. byIP'[ip] = l /\ lease'[l] = new
  <2>1. byIP'[ip] = l
    BY DEF Commit, StoreInv, TypeOK
  <2> QED
    BY <1>1, <2>1 DEF Commit, StoreInv, TypeOK
<1>3. AddressOf(ip)' = [phase |-> "reserved", holder |-> c, late |-> FALSE]
  BY <1>0, <1>1, <1>2, NewView
<1>4. ToSet(available') = ToSet(available) \ {ip}
  BY RemoveIP DEF Reserve, StoreInv, TypeOK, PoolDisjoint
<1>5. ASSUME NEW i \in IPs \ {ip}
      PROVE  AddressOf(i)' = AddressOf(i)
  <2>1. byIP'[i] = byIP[i]
    BY DEF Commit, StoreInv, TypeOK
  <2>2. Leased(i) => byIP[i] \in Refs \ {l}
    BY <1>1 DEF StoreInv, TypeOK, Coherent, Leased, LeaseAt
  <2>3. Leased(i) => lease'[byIP[i]] = lease[byIP[i]]
    BY <2>1, <2>2 DEF Commit, StoreInv, TypeOK
  <2> QED
    BY <1>4, <2>1, <2>3, SameView
<1> QED
  BY <1>3, <1>5, OneMoves

LEMMA AllocateReservedView ==
    ASSUME StoreInv, NEW c \in Clients, NEW ip \in IPs, AllocateReserved(c, ip)
    PROVE  \/ Lifecycle!Offer(c, ip)
           \/ \E other \in IPs : Lifecycle!OfferAndDisown(c, ip, other)
<1> DEFINE l == byIP[ip]
           old == byClient[c]
           new == [lease[l] EXCEPT !.state = "offered", !.due = FALSE]
           offer == [phase |-> "offered", holder |-> c, late |-> FALSE]
<1>1. /\ l \in Refs /\ lease[l] \in Leases /\ l # Nil
      /\ lease[l].clientID = c /\ lease[l].state = "reserved"
  <2>1. l # Nil /\ lease[l].clientID = c /\ lease[l].state = "reserved"
    BY DEF AllocateReserved, InState, OwnedBy, Leased, LeaseAt
  <2>2. l \in Refs /\ lease[l] \in Leases
    BY <2>1 DEF StoreInv, TypeOK, Coherent, Leased, LeaseAt
  <2> QED
    BY <2>1, <2>2
<1>2. new \in Leases /\ new.state = "offered" /\ new.clientID = c /\ new.due = FALSE
  BY <1>1 DEF Leases, States
<1>3. byIP' = byIP /\ available' = available
  BY DEF AllocateReserved, Commit
<1>4. ASSUME NEW i \in IPs, Leased(i)
      PROVE  lease'[byIP[i]] = IF byIP[i] = l THEN new
                               ELSE IF byIP[i] = old THEN [lease[byIP[i]] EXCEPT !.clientID = NoID]
                               ELSE lease[byIP[i]]
  <2>1. byIP[i] \in Refs
    BY <1>4 DEF StoreInv, TypeOK, Leased
  <2> QED
    BY <2>1 DEF AllocateReserved, Commit
<1>5. AddressOf(ip)' = offer
  <2>1. byIP'[ip] # Nil /\ lease'[byIP'[ip]] = new
    BY <1>1, <1>3, <1>4 DEF Leased
  <2> HIDE DEF new
  <2> QED
    BY <1>2, <2>1, NewView
<1>6. ASSUME NEW i \in IPs \ {ip}, Leased(i) => byIP[i] # old
      PROVE  AddressOf(i)' = AddressOf(i)
  <2>1. Leased(i) => byIP[i] # l
    BY <1>1 DEF StoreInv, Coherent, Leased, LeaseAt
  <2>2. Leased(i) => lease'[byIP[i]] = lease[byIP[i]]
    BY <1>4, <1>6, <2>1
  <2> QED
    BY <1>3, <2>2, SameView
<1>7. AddressOf(ip).phase = "reserved" /\ AddressOf(ip).holder = c
  BY <1>1, LeasedView DEF Leased, LeaseAt
<1>8. CASE old \in {Nil, l}
  <2>1. \A i \in IPs \ {ip} : Leased(i) => byIP[i] # old
    BY <1>1, <1>8 DEF StoreInv, Coherent, Leased, LeaseAt
  <2>2. Addresses' = [Addresses EXCEPT ![ip] = offer]
    BY <1>5, <1>6, <2>1, OneMoves
  <2> QED
    BY <1>7, <2>2 DEF Addresses, Lifecycle!Offer, Lifecycle!HeldBy, Lifecycle!Vacant, Lifecycle!Held
<1>9. CASE old \notin {Nil, l}
  <2> DEFINE disowned == [lease[old] EXCEPT !.clientID = NoID]
             view == [phase |-> lease[old].state, holder |-> NoID, late |-> lease[old].due]
  <2>0. old \in Refs /\ lease[old] \in Leases /\ lease[old].clientID = c
    BY <1>9 DEF StoreInv, TypeOK, Coherent, ClientIDs
  <2> PICK other \in IPs : other = lease[old].ip
    BY <2>0 DEF Leases
  <2>1. old \in Refs /\ lease[old] \in Leases /\ lease[old].clientID = c /\ byIP[other] = old
    BY <1>9, <2>0 DEF StoreInv, Coherent, ClientIDs
  <2>2. other \in IPs \ {ip}
    BY <1>9, <2>1
  <2>3. Leased(other) /\ LeaseAt(other) = lease[old]
    BY <1>9, <2>1 DEF Leased, LeaseAt
  <2>4. /\ disowned \in Leases /\ disowned.state = lease[old].state
        /\ disowned.clientID = NoID /\ disowned.due = lease[old].due
    BY <2>1 DEF Leases, ClientIDs
  <2>5. AddressOf(other)' = view
    <3>1. byIP'[other] # Nil /\ lease'[byIP'[other]] = disowned
      BY <1>3, <1>4, <1>9, <2>1, <2>2, <2>3
    <3> HIDE DEF disowned
    <3> QED
      BY <2>2, <2>4, <3>1, NewView
  <2>6. \A i \in IPs \ {ip, other} : AddressOf(i)' = AddressOf(i)
    <3>1. \A i \in IPs \ {ip, other} : Leased(i) => byIP[i] # old
      BY DEF StoreInv, Coherent, Leased, LeaseAt
    <3> QED
      BY <1>6, <3>1
  <2>7. view = [AddressOf(other) EXCEPT !.holder = NoID]
    <3>1. AddressOf(other) = [phase |-> lease[old].state, holder |-> lease[old].clientID,
                              late |-> lease[old].due]
      BY <2>3 DEF AddressOf
    <3> QED
      BY <3>1
  <2>8. AddressOf(other).holder = c /\ AddressOf(other).phase \notin {"idle", "free"}
    BY <2>1, <2>2, <2>3, LeasedView
  <2> HIDE DEF view, disowned
  <2>9. Addresses' = [Addresses EXCEPT ![ip] = offer, ![other] = view]
    BY <1>5, <2>2, <2>5, <2>6 DEF Addresses
  <2>10. Lifecycle!OfferAndDisown(c, ip, other)
    BY <1>7, <2>2, <2>7, <2>8, <2>9
       DEF Addresses, Lifecycle!OfferAndDisown, Lifecycle!HeldBy, Lifecycle!Vacant, Lifecycle!Held
  <2> QED
    BY <2>2, <2>10
<1> QED
  BY <1>8, <1>9

LEMMA AllocateNewView ==
    ASSUME StoreInv, NEW c \in Clients, NEW ip \in IPs, AllocateNew(c, ip)
    PROVE  \/ Lifecycle!Offer(c, ip)
           \/ \E other \in IPs : Lifecycle!OfferAndAbandon(c, ip, other)
<1> DEFINE new == NewLease(c, ip, "offered")
           old == byClient[c]
           offer == [phase |-> "offered", holder |-> c, late |-> FALSE]
<1>0. c \in ClientIDs
  BY DEF ClientIDs
<1>1. new \in Leases /\ new.state = "offered" /\ new.clientID = c /\ new.due = FALSE
  BY <1>0, NewLeaseType DEF States, NewLease
<1> HIDE DEF new
<1> PICK l \in Fresh :
       Commit([lease EXCEPT ![l] = new],
              [i \in IPs |-> IF old # Nil /\ i = lease[old].ip THEN Nil
                             ELSE IF i = ip THEN l
                             ELSE byIP[i]],
              [byClient EXCEPT ![c] = l])
  BY DEF AllocateNew, new
<1>2. l \in Refs /\ lease[l] = Nil /\ l # Nil /\ ~Leased(ip)
  BY NilAssumption DEF Fresh, AllocateNew
<1>3. \A i \in IPs : byIP'[i] = IF old # Nil /\ i = lease[old].ip THEN Nil
                                ELSE IF i = ip THEN l
                                ELSE byIP[i]
  BY DEF Commit
<1>4. old # Nil => /\ old \in Refs /\ lease[old] \in Leases /\ lease[old].clientID = c
                   /\ byIP[lease[old].ip] = old
                   /\ lease[old].ip \in IPs \ {ip}
  BY <1>0, <1>2 DEF StoreInv, TypeOK, Coherent, Leases, Leased
<1>5. AddressOf(ip)' = offer
  <2>1. byIP'[ip] = l
    BY <1>3, <1>4
  <2>2. lease'[l] = new
    BY <1>2, <2>1 DEF Commit, StoreInv, TypeOK
  <2> QED
    BY <1>1, <1>2, <2>1, <2>2, NewView
<1>6. ToSet(available') = ToSet(available) \ {ip}
  BY RemoveIP DEF AllocateNew, StoreInv, TypeOK, PoolDisjoint
<1>7. ASSUME NEW i \in IPs \ {ip}, old # Nil => i # lease[old].ip
      PROVE  AddressOf(i)' = AddressOf(i)
  <2>1. byIP'[i] = byIP[i]
    BY <1>3, <1>7
  <2>2. Leased(i) => byIP[i] \in Refs \ {l}
    BY <1>2 DEF StoreInv, TypeOK, Coherent, Leased, LeaseAt
  <2>3. Leased(i) => lease'[byIP[i]] = lease[byIP[i]]
    BY <2>1, <2>2 DEF Commit, StoreInv, TypeOK
  <2> QED
    BY <1>6, <2>1, <2>3, SameView
<1>8. AddressOf(ip).phase \in {"idle", "free"}
  BY <1>2, LeasedView
<1>9. CASE old = Nil
  <2>1. Addresses' = [Addresses EXCEPT ![ip] = offer]
    BY <1>5, <1>7, <1>9, OneMoves
  <2> QED
    BY <1>8, <2>1 DEF Addresses, Lifecycle!Offer, Lifecycle!HeldBy, Lifecycle!Vacant, Lifecycle!Held
<1>10. CASE old # Nil
  <2> PICK other \in IPs : other = lease[old].ip
    BY <1>4, <1>10
  <2>1. other \in IPs \ {ip} /\ byIP[other] = old
    BY <1>4, <1>10
  <2>2. Leased(other) /\ LeaseAt(other).clientID = c
    BY <1>4, <1>10 DEF Leased, LeaseAt
  <2>3. byIP'[other] = Nil
    BY <1>3, <1>10, <2>1
  <2>4. other \notin ToSet(available')
    BY <1>6, <2>1, <2>2 DEF StoreInv, PoolDisjoint, InPool
  <2>5. AddressOf(other)' = Lifecycle!Idle
    BY <2>3, <2>4 DEF AddressOf, Leased, InPool, Lifecycle!Idle
  <2>6. \A i \in IPs \ {ip, other} : AddressOf(i)' = AddressOf(i)
    BY <1>7
  <2>7. AddressOf(other).holder = c /\ AddressOf(other).phase \notin {"idle", "free"}
    BY <2>1, <2>2, LeasedView
  <2>8. Addresses' = [Addresses EXCEPT ![ip] = offer, ![other] = Lifecycle!Idle]
    BY <1>5, <2>1, <2>5, <2>6 DEF Addresses
  <2>9. Lifecycle!OfferAndAbandon(c, ip, other)
    BY <1>8, <2>1, <2>7, <2>8
       DEF Addresses, Lifecycle!OfferAndAbandon, Lifecycle!HeldBy, Lifecycle!Vacant, Lifecycle!Held
  <2> QED
    BY <2>1, <2>9
<1> QED
  BY <1>9, <1>10

-----------------------------------------------------------------------------
(* Each method is a step of the life cycle *)

LEMMA ReserveRefines ==
    ASSUME StoreInv, NEW c \in Clients, NEW ip \in IPs, Reserve(c, ip)
    PROVE  Lifecycle!Reserve(c, ip)
<1>1. AddressOf(ip).phase \in {"idle", "free"}
  BY LeasedView DEF Reserve
<1>2. Addresses' = [Addresses EXCEPT ![ip] =
                      [phase |-> "reserved", holder |-> c, late |-> FALSE]]
  BY ReserveView DEF ClientIDs
<1> QED
  BY <1>1, <1>2 DEF Addresses, Lifecycle!Reserve, Lifecycle!Vacant, Lifecycle!Held

LEMMA AllocateRefines ==
    ASSUME StoreInv, NEW c \in Clients, NEW ip \in IPs, Allocate(c, ip)
    PROVE  \/ Lifecycle!Offer(c, ip)
           \/ \E other \in IPs : Lifecycle!OfferAndAbandon(c, ip, other)
                                 \/ Lifecycle!OfferAndDisown(c, ip, other)
<1>1. CASE AllocateReserved(c, ip)
  BY <1>1, AllocateReservedView
<1>2. CASE AllocateOffered(c, ip)
  <2>1. AddressOf(ip).phase = "offered" /\ AddressOf(ip).holder = c
    BY <1>2, LeasedView DEF AllocateOffered, InState, OwnedBy
  <2>2. Addresses' = [Addresses EXCEPT ![ip] =
                        [phase |-> "offered", holder |-> c, late |-> FALSE]]
    BY <1>2, <2>1, InPlaceView DEF AllocateOffered, SetState, States, InState
  <2> QED
    BY <2>1, <2>2 DEF Addresses, Lifecycle!Offer, Lifecycle!HeldBy, Lifecycle!Vacant,
                      Lifecycle!Held
<1>3. CASE AllocateNew(c, ip)
  BY <1>3, AllocateNewView
<1> QED
  BY <1>1, <1>2, <1>3 DEF Allocate

LEMMA RenewRefines ==
    ASSUME StoreInv, NEW c \in Clients, NEW ip \in IPs, Renew(c, ip)
    PROVE  Lifecycle!Bind(c, ip)
<1>1. AddressOf(ip).phase \in {"offered", "bound"} /\ AddressOf(ip).holder = c
  BY LeasedView DEF Renew, RenewOK, InState, OwnedBy
<1>2. Addresses' = [Addresses EXCEPT ![ip] =
                      [phase |-> "bound", holder |-> c, late |-> FALSE]]
  BY <1>1, InPlaceView DEF Renew, RenewOK, SetState, States, OwnedBy
<1> QED
  BY <1>1, <1>2 DEF Addresses, Lifecycle!Bind, Lifecycle!HeldBy, Lifecycle!Vacant, Lifecycle!Held

LEMMA ReleaseRefines ==
    ASSUME StoreInv, NEW c \in Clients, NEW ip \in IPs, Release(c, ip)
    PROVE  Lifecycle!Release(c, ip)
<1>1. AddressOf(ip).phase \notin {"idle", "free"} /\ AddressOf(ip).holder = c
  BY LeasedView DEF Release, OwnedBy
<1>2. Addresses' = [Addresses EXCEPT ![ip] = Lifecycle!Free]
  BY FreeOne DEF Release, OwnedBy
<1> QED
  BY <1>1, <1>2 DEF Addresses, Lifecycle!Release, Lifecycle!HeldBy, Lifecycle!Vacant

LEMMA UnreserveRefines ==
    ASSUME StoreInv, NEW ip \in IPs, Unreserve(ip)
    PROVE  Lifecycle!Unreserve(ip)
<1>1. AddressOf(ip).phase = "reserved"
  BY LeasedView DEF Unreserve, InState
<1>2. Addresses' = [Addresses EXCEPT ![ip] = Lifecycle!Free]
  BY FreeOne DEF Unreserve, InState
<1> QED
  BY <1>1, <1>2 DEF Addresses, Lifecycle!Unreserve

LEMMA DeclineRefines ==
    ASSUME StoreInv, NEW ip \in IPs, Decline(ip)
    PROVE  Lifecycle!Decline(ip)
<1>1. AddressOf(ip).phase \notin {"idle", "free"}
  BY LeasedView DEF Decline
<1>2. Addresses' = [Addresses EXCEPT ![ip] =
                      [phase |-> "declined", holder |-> AddressOf(ip).holder, late |-> FALSE]]
  BY InPlaceView DEF Decline, SetState, States
<1> QED
  BY <1>1, <1>2 DEF Addresses, Lifecycle!Decline, Lifecycle!Vacant, Lifecycle!Held

LEMMA ElapseRefines ==
    ASSUME StoreInv, NEW ip \in IPs, Elapse(ip)
    PROVE  Lifecycle!Lapse(ip)
<1> DEFINE s == AddressOf(ip).phase
<1>1. Leased(ip) /\ LeaseAt(ip) \in Leases /\ s = LeaseAt(ip).state
  BY LeasedView DEF Elapse, InState
<1>2. s \in {"offered", "bound", "declined"}
  BY <1>1 DEF Elapse, InState
<1>3. lease' = [lease EXCEPT ![byIP[ip]] = [@ EXCEPT !.state = s, !.due = TRUE]]
  <2>1. [lease[byIP[ip]] EXCEPT !.due = TRUE] = [lease[byIP[ip]] EXCEPT !.state = s, !.due = TRUE]
    BY <1>1 DEF Leases, LeaseAt
  <2> QED
    BY <2>1 DEF Elapse
<1> HIDE DEF s
<1>4. Addresses' = [Addresses EXCEPT ![ip] =
                      [phase |-> s, holder |-> AddressOf(ip).holder, late |-> TRUE]]
  BY <1>1, <1>2, <1>3, InPlaceView DEF Elapse, States
<1> QED
  BY <1>2, <1>4 DEF Addresses, Lifecycle!Lapse, s

LEMMA NextAvailableRefines ==
    ASSUME StoreInv, NextAvailable
    PROVE  UNCHANGED Addresses
<1>1. ToSet(available') = ToSet(available)
  BY Rotate DEF NextAvailable, StoreInv, TypeOK
<1> QED
  BY <1>1, SameView DEF NextAvailable, Addresses

LEMMA SweepRefines ==
    ASSUME StoreInv, NEW gone \in SUBSET IPs, gone # {}, Free(gone),
           \/ \A ip \in gone : InState(ip, {"offered", "bound"}) /\ LeaseAt(ip).due
           \/ \A ip \in gone : InState(ip, {"declined"}) /\ LeaseAt(ip).due
    PROVE  Lifecycle!Sweep(gone)
<1>1. Addresses' = [ip \in IPs |-> IF ip \in gone THEN Lifecycle!Free ELSE AddressOf(ip)]
  BY FreeViews DEF InState
<1>2. \A ip \in gone : AddressOf(ip).late /\ AddressOf(ip).phase = LeaseAt(ip).state
  BY LeasedView DEF InState
<1> QED
  BY <1>1, <1>2 DEF Addresses, InState, Lifecycle!Sweep, Lifecycle!Late

LEMMA ReaperRefines ==
    ASSUME StoreInv, Expired \/ Declined
    PROVE  \E gone \in SUBSET IPs : Lifecycle!Sweep(gone)
BY SweepRefines DEF Expired, ExpiredIPs, Declined, DeclinedIPs

LEMMA UnchangedView == UNCHANGED <<lease, byIP, byClient, available>> => UNCHANGED Addresses
BY DEF Addresses, AddressOf, Leased, LeaseAt, InPool

LEMMA LifecycleStep == StoreInv /\ [StoreNext]_storeVars => [Lifecycle!Next]_Addresses
BY ReserveRefines, AllocateRefines, RenewRefines, ReleaseRefines, UnreserveRefines,
   DeclineRefines, ElapseRefines, NextAvailableRefines, ReaperRefines, UnchangedView
   DEF StoreNext, storeVars, Lifecycle!Next

-----------------------------------------------------------------------------
(* The same steps, one address at a time: what a call leaves at each.      *)

LEMMA OneFree ==
    ASSUME NEW i \in IPs, Addresses' = [Addresses EXCEPT ![i] = Lifecycle!Free]
    PROVE  /\ AddressOf(i)'.phase = "free"
           /\ \A ip \in IPs \ {i} : AddressOf(ip)' = AddressOf(ip)
<1>1. AddressOf(i)' = Lifecycle!Free /\ \A ip \in IPs \ {i} : AddressOf(ip)' = AddressOf(ip)
  BY DEF Addresses
<1> QED
  BY <1>1 DEF Lifecycle!Free

LEMMA ReserveAt ==
    ASSUME StoreInv, NEW c \in ClientIDs, NEW i \in IPs, Reserve(c, i)
    PROVE  /\ AddressOf(i).phase \in {"idle", "free"}
           /\ AddressOf(i)'.phase = "reserved" /\ AddressOf(i)'.holder = c
           /\ \A ip \in IPs \ {i} : AddressOf(ip)' = AddressOf(ip)
<1>1. AddressOf(i).phase \in {"idle", "free"}
  BY LeasedView DEF Reserve
<1>2. Addresses' = [Addresses EXCEPT ![i] =
                      [phase |-> "reserved", holder |-> c, late |-> FALSE]]
  BY ReserveView
<1>3. AddressOf(i)' = [phase |-> "reserved", holder |-> c, late |-> FALSE]
  BY <1>2 DEF Addresses
<1>4. \A ip \in IPs \ {i} : AddressOf(ip)' = AddressOf(ip)
  BY <1>2 DEF Addresses
<1> QED
  BY <1>1, <1>3, <1>4

LEMMA UnreserveAt ==
    ASSUME StoreInv, NEW i \in IPs, Unreserve(i)
    PROVE  /\ AddressOf(i).phase = "reserved"
           /\ AddressOf(i)'.phase = "free"
           /\ \A ip \in IPs \ {i} : AddressOf(ip)' = AddressOf(ip)
<1>1. AddressOf(i).phase = "reserved"
  BY LeasedView DEF Unreserve, InState
<1>2. Addresses' = [Addresses EXCEPT ![i] = Lifecycle!Free]
  BY FreeOne DEF Unreserve, InState
<1> QED
  BY <1>1, <1>2, OneFree

LEMMA ReleaseAt ==
    ASSUME StoreInv, NEW c \in Clients, NEW i \in IPs, Release(c, i)
    PROVE  /\ AddressOf(i).phase \notin {"idle", "free"} /\ AddressOf(i).holder = c
           /\ AddressOf(i)'.phase = "free"
           /\ \A ip \in IPs \ {i} : AddressOf(ip)' = AddressOf(ip)
<1>1. AddressOf(i).phase \notin {"idle", "free"} /\ AddressOf(i).holder = c
  BY LeasedView DEF Release, OwnedBy
<1>2. Addresses' = [Addresses EXCEPT ![i] = Lifecycle!Free]
  BY FreeOne DEF Release, OwnedBy
<1> QED
  BY <1>1, <1>2, OneFree

LEMMA RenewAt ==
    ASSUME StoreInv, NEW c \in Clients, NEW i \in IPs, Renew(c, i)
    PROVE  /\ AddressOf(i).phase \in {"offered", "bound"} /\ AddressOf(i).holder = c
           /\ AddressOf(i)' = [phase |-> "bound", holder |-> c, late |-> FALSE]
           /\ \A ip \in IPs \ {i} : AddressOf(ip)' = AddressOf(ip)
<1>1. AddressOf(i).phase \in {"offered", "bound"} /\ AddressOf(i).holder = c
  BY LeasedView DEF Renew, RenewOK, InState, OwnedBy
<1>2. Addresses' = [Addresses EXCEPT ![i] = [phase |-> "bound", holder |-> c, late |-> FALSE]]
  BY <1>1, InPlaceView DEF Renew, RenewOK, SetState, States, OwnedBy
<1>3. AddressOf(i)' = [phase |-> "bound", holder |-> c, late |-> FALSE]
  BY <1>2 DEF Addresses
<1>4. \A ip \in IPs \ {i} : AddressOf(ip)' = AddressOf(ip)
  BY <1>2 DEF Addresses
<1> QED
  BY <1>1, <1>3, <1>4

LEMMA DeclineAt ==
    ASSUME StoreInv, NEW i \in IPs, Decline(i)
    PROVE  /\ AddressOf(i)'.phase = "declined"
           /\ \A ip \in IPs \ {i} : AddressOf(ip)' = AddressOf(ip)
<1>1. Addresses' = [Addresses EXCEPT ![i] =
                      [phase |-> "declined", holder |-> AddressOf(i).holder, late |-> FALSE]]
  BY InPlaceView DEF Decline, SetState, States
<1>2. AddressOf(i)' = [phase |-> "declined", holder |-> AddressOf(i).holder, late |-> FALSE]
  BY <1>1 DEF Addresses
<1>3. \A ip \in IPs \ {i} : AddressOf(ip)' = AddressOf(ip)
  BY <1>1 DEF Addresses
<1> QED
  BY <1>2, <1>3

LEMMA ElapseAt ==
    ASSUME StoreInv, NEW i \in IPs, Elapse(i)
    PROVE  /\ AddressOf(i)'.phase = AddressOf(i).phase
           /\ AddressOf(i)'.holder = AddressOf(i).holder
           /\ \A ip \in IPs \ {i} : AddressOf(ip)' = AddressOf(ip)
<1>1. Addresses' = [Addresses EXCEPT ![i] =
                      [phase |-> AddressOf(i).phase, holder |-> AddressOf(i).holder, late |-> TRUE]]
  BY ElapseRefines DEF Addresses, Lifecycle!Lapse
<1>2. AddressOf(i)' = [phase |-> AddressOf(i).phase, holder |-> AddressOf(i).holder, late |-> TRUE]
  BY <1>1 DEF Addresses
<1>3. \A ip \in IPs \ {i} : AddressOf(ip)' = AddressOf(ip)
  BY <1>1 DEF Addresses
<1> QED
  BY <1>2, <1>3

\* The reaper frees late addresses, and leaves the others alone.
LEMMA ReaperAt ==
    ASSUME StoreInv, Expired \/ Declined, NEW ip \in IPs
    PROVE  \/ AddressOf(ip)' = AddressOf(ip)
           \/ AddressOf(ip).late /\ AddressOf(ip)'.phase = "free"
<1>1. PICK gone \in SUBSET IPs :
         /\ \A i \in gone : AddressOf(i).late
         /\ Addresses' = [i \in IPs |-> IF i \in gone THEN Lifecycle!Free ELSE AddressOf(i)]
  BY ReaperRefines DEF Addresses, Lifecycle!Sweep, Lifecycle!Late
<1>2. AddressOf(ip)' = IF ip \in gone THEN Lifecycle!Free ELSE AddressOf(ip)
  BY <1>1 DEF Addresses
<1> QED
  BY <1>1, <1>2 DEF Lifecycle!Free

\* Allocate offers one address of its client, and disturbs no other but one
\* that the same client held: that one becomes idle or loses its client.
LEMMA AllocateAt ==
    ASSUME StoreInv, NEW c \in Clients, NEW i \in IPs, Allocate(c, i), NEW ip \in IPs
    PROVE  /\ AddressOf(i).phase \in {"idle", "free"} \/ AddressOf(i).holder = c
           /\ AddressOf(i)'.phase = "offered"
           /\ \/ ip = i
              \/ AddressOf(ip)' = AddressOf(ip)
              \/ AddressOf(ip).holder = c /\ AddressOf(ip)'.phase = "idle"
              \/ /\ AddressOf(ip).holder = c
                 /\ AddressOf(ip)'.phase = AddressOf(ip).phase /\ AddressOf(ip)'.holder = NoID
                 /\ AddressOf(i).phase = "reserved" /\ AddressOf(i).holder = c
<1> USE DEF Lifecycle!Vacant, Lifecycle!HeldBy, Lifecycle!Held
<1>1. \A a \in IPs : Addresses[a] = AddressOf(a)
  BY DEF Addresses
<1>2. Addresses'[i] = AddressOf(i)' /\ Addresses'[ip] = AddressOf(ip)'
  BY DEF Addresses
<1>3. DOMAIN Addresses = IPs
  BY DEF Addresses
<1>4. \/ Lifecycle!Offer(c, i)
      \/ \E other \in IPs : \/ Lifecycle!OfferAndAbandon(c, i, other)
                            \/ Lifecycle!OfferAndDisown(c, i, other)
  BY AllocateRefines
<1>5. CASE Lifecycle!Offer(c, i)
  <2>1. Addresses' = [Addresses EXCEPT ![i] = [phase |-> "offered", holder |-> c, late |-> FALSE]]
    BY <1>5 DEF Lifecycle!Offer, Addresses
  <2>2. AddressOf(i).phase \in {"idle", "free"} \/ AddressOf(i).holder = c
    BY <1>1, <1>5 DEF Lifecycle!Offer, Addresses
  <2>3. Addresses'[i].phase = "offered" /\ (ip # i => Addresses'[ip] = Addresses[ip])
    BY <1>3, <2>1
  <2> QED
    BY <1>1, <1>2, <2>2, <2>3
<1>6. ASSUME NEW other \in IPs, Lifecycle!OfferAndAbandon(c, i, other)
      PROVE  /\ AddressOf(i).phase \in {"idle", "free"}
             /\ AddressOf(i)'.phase = "offered"
             /\ \/ ip = i
                \/ AddressOf(ip)' = AddressOf(ip)
                \/ AddressOf(ip).holder = c /\ AddressOf(ip)'.phase = "idle"
  <2>1. Addresses' = [Addresses EXCEPT ![i] = [phase |-> "offered", holder |-> c, late |-> FALSE],
                                       ![other] = [phase |-> "idle", holder |-> Nil, late |-> FALSE]]
    BY <1>6 DEF Lifecycle!OfferAndAbandon, Lifecycle!Idle, Addresses
  <2>2. /\ AddressOf(i).phase \in {"idle", "free"}
        /\ AddressOf(other).phase \notin {"idle", "free"} /\ AddressOf(other).holder = c
    BY <1>1, <1>6 DEF Lifecycle!OfferAndAbandon, Addresses
  <2>3. i # other
    BY <2>2
  <2>4. /\ Addresses'[i].phase = "offered"
        /\ ip = other => Addresses'[ip].phase = "idle"
        /\ ip \notin {i, other} => Addresses'[ip] = Addresses[ip]
    BY <1>3, <2>1, <2>3
  <2> QED
    BY <1>1, <1>2, <2>2, <2>4
<1>7. ASSUME NEW other \in IPs, Lifecycle!OfferAndDisown(c, i, other)
      PROVE  /\ AddressOf(i).phase = "reserved" /\ AddressOf(i).holder = c
             /\ AddressOf(i)'.phase = "offered"
             /\ \/ ip = i
                \/ AddressOf(ip)' = AddressOf(ip)
                \/ /\ AddressOf(ip).holder = c
                   /\ AddressOf(ip)'.phase = AddressOf(ip).phase /\ AddressOf(ip)'.holder = NoID
  <2>1. Addresses' = [Addresses EXCEPT ![i] = [phase |-> "offered", holder |-> c, late |-> FALSE],
                                       ![other].holder = NoID]
    BY <1>7 DEF Lifecycle!OfferAndDisown, Addresses
  <2>2. /\ AddressOf(i).phase = "reserved" /\ AddressOf(i).holder = c
        /\ AddressOf(other).holder = c /\ i # other
    BY <1>1, <1>7 DEF Lifecycle!OfferAndDisown, Addresses
  <2>3. /\ Addresses'[i].phase = "offered"
        /\ ip = other => Addresses'[ip] = [Addresses[ip] EXCEPT !.holder = NoID]
        /\ ip \notin {i, other} => Addresses'[ip] = Addresses[ip]
    BY <1>3, <2>1, <2>2
  <2>4. ip = other => /\ Addresses'[ip].phase = Addresses[ip].phase
                      /\ Addresses'[ip].holder = NoID
    BY <1>1, <2>3 DEF AddressOf
  <2> QED
    BY <1>1, <1>2, <2>2, <2>3, <2>4
<1> QED
  BY <1>4, <1>5, <1>6, <1>7

-----------------------------------------------------------------------------
(* The refinement *)

LEMMA LifecycleInit == StoreInit => Lifecycle!Init
<1> SUFFICES ASSUME StoreInit
             PROVE  Lifecycle!Init
  OBVIOUS
<1> USE DEF StoreInit, NewMemoryStore
<1>1. ToSet(available) = RangeStart .. RangeEnd
  <2>1. DOMAIN available = 1 .. RangeEnd + 1 - RangeStart
    OBVIOUS
  <2>2. \A i \in 1 .. RangeEnd + 1 - RangeStart :
           available[i] = RangeStart + i - 1 /\ available[i] \in RangeStart .. RangeEnd
    BY AddressAssumption
  <2>3. ASSUME NEW ip \in RangeStart .. RangeEnd
        PROVE  ip \in ToSet(available)
    <3>1. ip + 1 - RangeStart \in 1 .. RangeEnd + 1 - RangeStart
      BY AddressAssumption
    <3>2. available[ip + 1 - RangeStart] = ip
      BY <3>1, AddressAssumption
    <3> QED
      BY <2>1, <3>1, <3>2 DEF ToSet
  <2> QED
    BY <2>1, <2>2, <2>3 DEF ToSet
<1>2. \A ip \in IPs : byIP[ip] = Nil
  OBVIOUS
<1> QED
  BY <1>1, <1>2 DEF Lifecycle!Init, AddressOf, Leased, InPool, Lifecycle!Free, Lifecycle!Idle

\* Every run of the store is a run of the life cycle: no method moves an
\* address along an edge the life cycle lacks, none moves two addresses but
\* Allocate, and an address is lost to the pool on one edge only.
THEOREM StoreImplementsLifecycle == StoreSpec => ImplementsLifecycle
<1>1. StoreInv /\ [StoreNext]_storeVars => [Lifecycle!Next]_[ip \in IPs |-> AddressOf(ip)]
  BY LifecycleStep DEF Addresses
<1> QED
  BY <1>1, LifecycleInit, StoreInvariant, PTL DEF StoreSpec, ImplementsLifecycle, Lifecycle!Spec

=============================================================================
