---------------------------- MODULE Kaodv_proofs ----------------------------
(***************************************************************************)
(* Kaodv's invariants hold for every finite set of hosts and packets, on   *)
(* one CPU and on several.  What the cache has between two messages of the *)
(* daemon is proved for the behaviours in which the list is never full: a  *)
(* full list loses entries that are refreshed (kaodv_expl.c:97).           *)
(***************************************************************************)
EXTENDS Kaodv, FiniteSetTheorems, SequenceTheorems, TLAPS

-----------------------------------------------------------------------------
(***************************************************************************)
(* The route cache.                                                        *)
(***************************************************************************)
Cache == [hop : [Addr -> Addr \cup {NoAddr}], len : Nat]

Entries(x) == {d \in Addr : x.hop[d] # NoAddr}

\* expl_len counts the entries, and perhaps entries that were refused
Counts(x) == Cardinality(Entries(x)) <= x.len

LEMMA EntriesFinite ==
  ASSUME NEW x \in Cache
  PROVE  IsFiniteSet(Entries(x)) /\ Cardinality(Entries(x)) \in Nat
<1>1. IsFiniteSet(Addr) /\ Entries(x) \in SUBSET Addr
  BY KaodvAssumption DEF Entries
<1> QED BY <1>1, FS_Subset, FS_CardinalityType

LEMMA AddIs ==
  ASSUME NEW x \in Cache, NEW d \in Addr, NEW hop \in Addr, Counts(x)
  PROVE  LET y == kaodv_expl_add(x, d, hop)
         IN  /\ y \in Cache /\ Counts(y)
             /\ x.hop[d] = NoAddr /\ x.len <= EXPL_MAX_LEN => y.hop = [x.hop EXCEPT ![d] = hop]
<1> DEFINE y == kaodv_expl_add(x, d, hop)
           h == IF x.len > EXPL_MAX_LEN THEN x.hop ELSE [x.hop EXCEPT ![d] = hop]
<1> USE KaodvAssumption DEF Cache
<1>1. CASE x.hop[d] # NoAddr
  BY <1>1 DEF kaodv_expl_add
<1>2. CASE x.hop[d] = NoAddr
  <2>1. h \in [Addr -> Addr \cup {NoAddr}] /\ (x.len <= EXPL_MAX_LEN => h = [x.hop EXCEPT ![d] = hop])
    OBVIOUS
  <2>2. \A a \in Addr : a # d => h[a] = x.hop[a]
    OBVIOUS
  <2> HIDE DEF h
  <2>3. y = [hop |-> h, len |-> x.len + 1]
    BY <1>2 DEF kaodv_expl_add, h
  <2> HIDE DEF y
  <2>4. y \in Cache /\ y.hop = h /\ y.len = x.len + 1
    BY <2>1, <2>3
  <2>5. Entries(y) \in SUBSET (Entries(x) \cup {d})
    BY <2>2, <2>4 DEF Entries
  <2>6. /\ IsFiniteSet(Entries(x) \cup {d})
        /\ Cardinality(Entries(x) \cup {d}) <= Cardinality(Entries(x)) + 1
    <3>1. IsFiniteSet(Entries(x)) /\ Cardinality(Entries(x)) \in Nat
      BY EntriesFinite
    <3>2. /\ IsFiniteSet(Entries(x) \cup {d})
          /\ Cardinality(Entries(x) \cup {d}) =
               IF d \in Entries(x) THEN Cardinality(Entries(x)) ELSE Cardinality(Entries(x)) + 1
      BY <3>1, FS_AddElement
    <3> QED BY <3>1, <3>2
  <2>7. Cardinality(Entries(y)) <= Cardinality(Entries(x) \cup {d})
    BY <2>5, <2>6, FS_Subset
  <2>8. /\ Cardinality(Entries(x)) \in Nat /\ Cardinality(Entries(y)) \in Nat
        /\ Cardinality(Entries(x) \cup {d}) \in Nat
    BY <2>4, <2>6, EntriesFinite, FS_CardinalityType
  <2>9. Counts(y)
    BY <2>4, <2>6, <2>7, <2>8 DEF Counts
  <2> QED BY <2>1, <2>4, <2>9 DEF y
<1> QED BY <1>1, <1>2

LEMMA UpdateIs ==
  ASSUME NEW x \in Cache, NEW d \in Addr, NEW hop \in Addr, Counts(x)
  PROVE  LET y == kaodv_expl_update(x, d, hop)
         IN  /\ y \in Cache /\ Counts(y)
             /\ x.hop[d] = NoAddr => y = x
             /\ x.hop[d] # NoAddr /\ x.len <= EXPL_MAX_LEN => y.hop = [x.hop EXCEPT ![d] = hop]
<1> DEFINE y == kaodv_expl_update(x, d, hop)
           h == [x.hop EXCEPT ![d] = IF x.len > EXPL_MAX_LEN THEN NoAddr ELSE hop]
<1> USE KaodvAssumption DEF Cache
<1>1. CASE x.hop[d] = NoAddr
  BY <1>1 DEF kaodv_expl_update
<1>2. CASE x.hop[d] # NoAddr
  <2>1. /\ h \in [Addr -> Addr \cup {NoAddr}]
        /\ x.len <= EXPL_MAX_LEN => h = [x.hop EXCEPT ![d] = hop]
    OBVIOUS
  <2>2. \A a \in Addr : a # d => h[a] = x.hop[a]
    OBVIOUS
  <2>3. y = [x EXCEPT !.hop = h]
    BY <1>2 DEF kaodv_expl_update
  <2> HIDE DEF h, y
  <2>4. y \in Cache /\ y.hop = h /\ y.len = x.len
    BY <2>1, <2>3
  <2>5. Entries(y) \in SUBSET Entries(x)
    BY <1>2, <2>2, <2>4 DEF Entries
  <2>6. Cardinality(Entries(y)) <= Cardinality(Entries(x))
    BY <2>5, EntriesFinite, FS_Subset
  <2>7. Cardinality(Entries(x)) \in Nat /\ Cardinality(Entries(y)) \in Nat
    BY <2>4, EntriesFinite
  <2>8. Counts(y)
    BY <2>4, <2>6, <2>7 DEF Counts
  <2> QED BY <1>2, <2>1, <2>4, <2>8 DEF y
<1> QED BY <1>1, <1>2

LEMMA DelIs ==
  ASSUME NEW x \in Cache, NEW d \in Addr, Counts(x)
  PROVE  LET y == kaodv_expl_del(x, d)
         IN  /\ y \in Cache /\ Counts(y)
             /\ y.hop = [x.hop EXCEPT ![d] = NoAddr]
<1> DEFINE y == kaodv_expl_del(x, d)
           h == [x.hop EXCEPT ![d] = NoAddr]
<1> USE KaodvAssumption DEF Cache
<1>1. CASE x.hop[d] = NoAddr
  BY <1>1 DEF kaodv_expl_del
<1>2. CASE x.hop[d] # NoAddr
  <2>1. h \in [Addr -> Addr \cup {NoAddr}] /\ h[d] = NoAddr /\ \A a \in Addr : a # d => h[a] = x.hop[a]
    OBVIOUS
  <2>2. y = [hop |-> h, len |-> x.len - 1]
    BY <1>2 DEF kaodv_expl_del
  <2> HIDE DEF h, y
  <2>3. {a \in Addr : h[a] # NoAddr} = Entries(x) \ {d} /\ d \in Entries(x)
    BY <1>2, <2>1 DEF Entries
  <2>4. /\ Cardinality(Entries(x) \ {d}) = Cardinality(Entries(x)) - 1
        /\ Cardinality(Entries(x) \ {d}) \in Nat /\ Cardinality(Entries(x)) \in Nat
    <3>1. IsFiniteSet(Entries(x)) /\ Cardinality(Entries(x)) \in Nat
      BY EntriesFinite
    <3>2. IsFiniteSet(Entries(x) \ {d}) /\ Cardinality(Entries(x) \ {d}) = Cardinality(Entries(x)) - 1
      BY <2>3, <3>1, FS_RemoveElement
    <3>3. Cardinality(Entries(x) \ {d}) \in Nat
      BY <3>2, FS_CardinalityType
    <3> QED BY <3>1, <3>2, <3>3
  <2>5. x.len - 1 \in Nat /\ Cardinality(Entries(x) \ {d}) <= x.len - 1
    <3>1. x.len \in Nat /\ Cardinality(Entries(x)) <= x.len
      BY DEF Counts
    <3> QED BY ONLY <2>4, <3>1
  <2>6. y \in Cache /\ y.hop = h /\ y.len = x.len - 1
    BY <2>1, <2>2, <2>5
  <2>7. Counts(y)
    <3>1. Entries(y) = Entries(x) \ {d}
      BY <2>3, <2>6 DEF Entries
    <3> QED BY <2>5, <2>6, <3>1 DEF Counts
  <2> QED BY <2>6, <2>7 DEF h, y
<1> QED BY <1>1, <1>2

LEMMA FlushIs ==
  ASSUME NEW x \in Cache, Counts(x)
  PROVE  LET y == kaodv_expl_flush(x)
         IN  /\ y \in Cache /\ Counts(y)
             /\ \A d \in Addr : y.hop[d] = NoAddr
<1> DEFINE y == kaodv_expl_flush(x)
           h == [d \in Addr |-> NoAddr]
           n == x.len - Cardinality(Entries(x))
<1>1. n \in Nat
  BY EntriesFinite DEF Cache, Counts
<1>2. y = [hop |-> h, len |-> n]
  BY DEF kaodv_expl_flush, Entries
<1>3. h \in [Addr -> Addr \cup {NoAddr}] /\ \A d \in Addr : h[d] = NoAddr
  OBVIOUS
<1> HIDE DEF h, n, y
<1>4. y \in Cache /\ y.hop = h /\ y.len = n
  BY <1>1, <1>2, <1>3 DEF Cache
<1>5. Entries(y) = {}
  BY <1>3, <1>4 DEF Entries
<1>6. Counts(y)
  BY <1>1, <1>4, <1>5, FS_EmptySet DEF Counts
<1> QED BY <1>3, <1>4, <1>6 DEF y

-----------------------------------------------------------------------------
(***************************************************************************)
(* Types.  Three facts make the types inductive: expl_len counts at least  *)
(* the entries, a packet asks for a route once, and a hook that writes an  *)
(* entry back has copied one.                                              *)
(***************************************************************************)
Asked == {p \in Packet : pkt[p].at \notin {"new", "check", "ask"}}

Requests == \A d \in Addr : inbox[d] <= Cardinality(Asked)

Copies == \A p \in Packet : pkt[p].at = "write" => pkt[p].keys # <<>> /\ pkt[p].e # NoAddr

TypeInv == TypeOK /\ Counts(expl) /\ Requests /\ Copies

LEMMA keysOfType ==
  ASSUME NEW d \in Addr, NEW s \in Addr \cup {NoAddr}
  PROVE  keysOf(d, s) \in Seq(Key)
<1>1. [addr |-> d, via |-> TRUE] \in Key
  BY DEF Key
<1>2. CASE s = NoAddr
  BY <1>1, <1>2 DEF keysOf
<1>3. CASE s \in Addr /\ s # NoAddr
  <2>1. [addr |-> s, via |-> TRUE] \in Key
    BY <1>3 DEF Key
  <2> QED BY <1>1, <1>3, <2>1 DEF keysOf
<1> QED BY <1>2, <1>3

LEMMA PostRoutingType ==
  ASSUME NEW k \in Pkt
  PROVE  /\ PostRouting(k) \in Pkt
         /\ PostRouting(k).at = "refresh"
<1> DEFINE ks == keysOf(k.dest, k.src)
<1>1. ks \in Seq(Key)
  BY keysOfType DEF Pkt
<1> HIDE DEF ks
<1>2. PostRouting(k) = [k EXCEPT !.at = "refresh", !.keys = ks, !.then = "out"]
  BY DEF PostRouting, ks
<1> QED BY <1>1, <1>2 DEF Pkt, Place, Hook

\* the number of packets that have asked is finite and does not fall
LEMMA AskedFinite ==
  /\ IsFiniteSet(Packet) /\ Cardinality(Packet) \in Nat
  /\ IsFiniteSet(Asked) /\ Cardinality(Asked) \in Nat
  /\ Cardinality(Asked) <= Cardinality(Packet)
<1>1. IsFiniteSet(Packet) /\ Asked \in SUBSET Packet
  BY KaodvAssumption DEF Asked
<1> QED BY <1>1, FS_Subset, FS_CardinalityType

\* a step that moves no packet back among those that have not asked
LEMMA RequestsKept ==
  ASSUME TypeInv, inbox' \in [Addr -> Int], \A d \in Addr : inbox'[d] <= inbox[d],
         Asked \subseteq Asked'
  PROVE  Requests'
<1>1. Cardinality(Asked) <= Cardinality(Asked')
  <2>1. IsFiniteSet(Asked')
    <3>1. IsFiniteSet(Packet) /\ Asked' \in SUBSET Packet
      BY KaodvAssumption DEF Asked
    <3> QED BY <3>1, FS_Subset
  <2> QED BY <2>1, FS_Subset
<1>2. Cardinality(Asked) \in Nat /\ Cardinality(Asked') \in Nat
  <2>1. IsFiniteSet(Packet) /\ Asked' \in SUBSET Packet
    BY KaodvAssumption DEF Asked
  <2>2. IsFiniteSet(Asked')
    BY <2>1, FS_Subset
  <2> QED BY <2>2, AskedFinite, FS_CardinalityType
<1>3. \A d \in Addr : inbox[d] \in Int /\ inbox[d] <= Cardinality(Asked)
  BY AskedFinite DEF TypeInv, TypeOK, Requests
<1> QED BY <1>1, <1>2, <1>3 DEF Requests

\* a hook that moves its packet on
LEMMA PacketMoves ==
  ASSUME TypeInv, NEW p \in Packet, NEW k \in Pkt, pkt' = [pkt EXCEPT ![p] = k],
         p \in Asked => k.at \notin {"new", "check", "ask"},
         k.at = "write" => k.keys # <<>> /\ k.e # NoAddr
  PROVE  /\ pkt' \in [Packet -> Pkt] /\ Copies' /\ Asked \subseteq Asked'
         /\ pkt'[p] = k /\ \A q \in Packet : q # p => pkt'[q] = pkt[q]
<1>1. /\ pkt' \in [Packet -> Pkt] /\ pkt'[p] = k
      /\ \A q \in Packet : q # p => pkt'[q] = pkt[q]
  BY DEF TypeInv, TypeOK
<1>2. Copies'
  BY <1>1 DEF TypeInv, Copies
<1>3. Asked \subseteq Asked'
  BY <1>1 DEF Asked
<1> QED BY <1>1, <1>2, <1>3

\* and changes at most the cache beside it
LEMMA HookType ==
  ASSUME TypeInv, NEW p \in Packet, NEW k \in Pkt, InHook(p, k),
         p \in Asked => k.at \notin {"new", "check", "ask"},
         k.at = "write" => k.keys # <<>> /\ k.e # NoAddr,
         expl' \in Cache, Counts(expl)', UNCHANGED <<queue, inbox>>
  PROVE  TypeInv'
<1>1. pkt' = [pkt EXCEPT ![p] = k] /\ UNCHANGED <<nl, rt, ghost, seek, alive, changes>>
  BY DEF InHook
<1>2. pkt' \in [Packet -> Pkt] /\ Copies' /\ Asked \subseteq Asked'
  BY <1>1, PacketMoves
<1>3. Requests'
  <2>1. inbox' \in [Addr -> Int] /\ \A d \in Addr : inbox'[d] <= inbox[d]
    BY AskedFinite DEF TypeInv, TypeOK
  <2> QED BY <1>2, <2>1, RequestsKept
<1>4. TypeOK'
  BY <1>1, <1>2 DEF TypeInv, TypeOK, Cache
<1> QED BY <1>2, <1>3, <1>4 DEF TypeInv

LEMMA LocalOutType ==
  ASSUME TypeInv, NEW p \in Packet, NEW d \in Addr, LocalOut(p, d)
  PROVE  TypeInv'
<1> DEFINE k == [pkt[p] EXCEPT !.dest = d]
           m == IF expl.hop[d] = NoAddr THEN [k EXCEPT !.at = "check"] ELSE PostRouting(k)
<1>1. k \in Pkt /\ pkt[p].at = "new"
  BY DEF LocalOut, TypeInv, TypeOK, Pkt
<1>2. [k EXCEPT !.at = "check"] \in Pkt /\ [k EXCEPT !.at = "check"].at = "check"
  BY <1>1 DEF Pkt, Place, Hook
<1>3. InHook(p, m) /\ UNCHANGED <<expl, queue, inbox>>
  BY DEF LocalOut
<1> HIDE DEF k
<1>4. m \in Pkt /\ m.at \in {"check", "refresh"}
  BY <1>1, <1>2, PostRoutingType
<1> HIDE DEF m
<1>5. p \notin Asked
  BY <1>1 DEF Asked
<1>6. expl' \in Cache /\ Counts(expl)'
  BY <1>3 DEF TypeInv, TypeOK, Cache
<1> QED BY <1>3, <1>4, <1>5, <1>6, HookType

LEMMA QueueCheckType ==
  ASSUME TypeInv, NEW p \in Packet, QueueCheck(p)
  PROVE  TypeInv'
<1> DEFINE at == IF kaodv_queue_check(pkt[p].dest) THEN "enqueue" ELSE "ask"
           k == [pkt[p] EXCEPT !.at = at]
<1>1. InHook(p, k) /\ UNCHANGED <<expl, queue, inbox>> /\ pkt[p].at = "check"
  BY DEF QueueCheck
<1>2. k \in Pkt /\ k.at \in {"enqueue", "ask"}
  <2>1. at \in {"enqueue", "ask"}
    OBVIOUS
  <2>2. pkt[p] \in Pkt
    BY DEF TypeInv, TypeOK
  <2> HIDE DEF at
  <2> QED BY <2>1, <2>2 DEF Pkt, Place, Hook
<1> HIDE DEF k
<1>3. p \notin Asked /\ expl' \in Cache /\ Counts(expl)'
  BY <1>1 DEF Asked, TypeInv, TypeOK, Cache
<1> QED BY <1>1, <1>2, <1>3, HookType

LEMMA PreRoutingType ==
  ASSUME TypeInv, NEW p \in Packet, NEW s \in Addr, NEW d \in Addr \cup {NoAddr},
         PreRouting(p, s, d)
  PROVE  TypeInv'
<1> DEFINE k == [pkt[p] EXCEPT !.at = "refresh", !.src = s]
           ks == keysOf(s, NoAddr)
           kd == keysOf(d, s)
           m == IF d = NoAddr THEN [k EXCEPT !.keys = ks]
                ELSE [k EXCEPT !.dest = d, !.keys = kd, !.then = "forward"]
<1>1. ks \in Seq(Key) /\ (d # NoAddr => kd \in Seq(Key))
  BY keysOfType
<1>2. InHook(p, m) /\ UNCHANGED <<expl, queue, inbox>>
  BY DEF PreRouting
<1>3. k \in Pkt /\ k.at = "refresh"
  BY DEF TypeInv, TypeOK, Pkt, Place, Hook
<1> HIDE DEF k, ks, kd
<1>4. m \in Pkt /\ m.at = "refresh"
  BY <1>1, <1>3 DEF Pkt
<1> HIDE DEF m
<1>5. expl' \in Cache /\ Counts(expl)'
  BY <1>2 DEF TypeInv, TypeOK, Cache
<1> QED BY <1>2, <1>4, <1>5, HookType

LEMMA ForwardType ==
  ASSUME TypeInv, NEW p \in Packet, Forward(p)
  PROVE  TypeInv'
<1> DEFINE m == IF expl.hop[pkt[p].dest] = NoAddr THEN [pkt[p] EXCEPT !.at = "freed"]
                ELSE PostRouting(pkt[p])
<1>1. InHook(p, m) /\ UNCHANGED <<expl, queue, inbox>>
  BY DEF Forward
<1>2. pkt[p] \in Pkt
  BY DEF TypeInv, TypeOK
<1>3. [pkt[p] EXCEPT !.at = "freed"] \in Pkt /\ [pkt[p] EXCEPT !.at = "freed"].at = "freed"
  BY <1>2 DEF Pkt, Place
<1>4. m \in Pkt /\ m.at \in {"freed", "refresh"}
  BY <1>2, <1>3, PostRoutingType
<1> HIDE DEF m
<1>5. expl' \in Cache /\ Counts(expl)'
  BY <1>1 DEF TypeInv, TypeOK, Cache
<1> QED BY <1>1, <1>4, <1>5, HookType

\* an entry that is copied is there
LEMMA RefreshGetType ==
  ASSUME TypeInv, NEW p \in Packet, RefreshGet(p)
  PROVE  TypeInv'
<1> DEFINE k == pkt[p]
           e == expl.hop[k.keys[1].addr]
           m == IF k.keys = <<>> THEN [k EXCEPT !.at = k.then]
                ELSE IF e = NoAddr THEN [k EXCEPT !.keys = Tail(@)]
                ELSE [k EXCEPT !.at = "write", !.e = e]
<1>1. InHook(p, m) /\ UNCHANGED <<expl, queue, inbox>> /\ k.at = "refresh"
  BY DEF RefreshGet
<1>2. k \in Pkt /\ k.keys \in Seq(Key)
  BY DEF TypeInv, TypeOK, Pkt
<1>3. expl' \in Cache /\ Counts(expl)'
  BY <1>1 DEF TypeInv, TypeOK, Cache
<1>4. CASE k.keys = <<>>
  <2>1. m \in Pkt /\ m.at \in {"forward", "out"}
    BY <1>2, <1>4 DEF Pkt, Place, Hook
  <2> HIDE DEF m
  <2> QED BY <1>1, <1>3, <2>1, HookType
<1>5. CASE k.keys # <<>>
  <2>1. k.keys[1] \in Key /\ Tail(k.keys) \in Seq(Key)
    BY <1>2, <1>5
  <2>2. e \in Addr \cup {NoAddr}
    BY <2>1 DEF Key, TypeInv, TypeOK
  <2> HIDE DEF e
  <2>3. CASE e = NoAddr
    <3>1. m = [k EXCEPT !.keys = Tail(k.keys)]
      BY <1>5, <2>3
    <3> HIDE DEF m
    <3>2. m \in Pkt /\ m.at = "refresh"
      BY <1>1, <1>2, <2>1, <3>1 DEF Pkt
    <3> QED BY <1>1, <1>3, <3>2, HookType
  <2>4. CASE e # NoAddr
    <3>1. m = [k EXCEPT !.at = "write", !.e = e]
      BY <1>5, <2>4
    <3> HIDE DEF m
    <3>2. m \in Pkt /\ m.at = "write" /\ m.e = e /\ m.keys = k.keys
      BY <1>2, <2>2, <3>1 DEF Pkt, Place, Hook
    <3> QED BY <1>1, <1>3, <1>5, <2>4, <3>2, HookType
  <2> QED BY <2>3, <2>4
<1> QED BY <1>4, <1>5

LEMMA RefreshPutType ==
  ASSUME TypeInv, NEW p \in Packet, RefreshPut(p)
  PROVE  TypeInv'
<1> DEFINE k == pkt[p]
           key == k.keys[1]
           next == IF key.via /\ k.e # key.addr THEN <<[addr |-> k.e, via |-> FALSE]>> ELSE <<>>
           ks == next \o Tail(k.keys)
           m == [k EXCEPT !.at = "refresh", !.keys = ks, !.e = NoAddr]
<1>1. /\ InHook(p, m) /\ UNCHANGED <<queue, inbox>> /\ k.at = "write"
      /\ expl' = kaodv_expl_update(expl, key.addr, k.e)
  BY DEF RefreshPut
<1>2. k \in Pkt /\ k.keys \in Seq(Key) /\ k.keys # <<>> /\ k.e \in Addr
  BY <1>1 DEF TypeInv, TypeOK, Copies, Pkt
<1>3. key \in Key /\ Tail(k.keys) \in Seq(Key) /\ key.addr \in Addr
  <2>1. k.keys[1] \in Key /\ Tail(k.keys) \in Seq(Key)
    BY <1>2
  <2> QED BY <2>1 DEF Key
<1>4. next \in Seq(Key)
  <2>1. [addr |-> k.e, via |-> FALSE] \in Key
    BY <1>2 DEF Key
  <2> QED BY <2>1
<1> HIDE DEF next
<1>5. ks \in Seq(Key)
  BY <1>3, <1>4, ConcatProperties
<1> HIDE DEF ks
<1>6. m \in Pkt /\ m.at = "refresh"
  BY <1>2, <1>5 DEF Pkt, Place, Hook
<1>7. expl' \in Cache /\ Counts(expl)'
  <2>1. expl \in Cache /\ Counts(expl)
    BY DEF TypeInv, TypeOK, Cache
  <2> QED BY <1>1, <1>2, <1>3, <2>1, UpdateIs
<1> HIDE DEF m
<1> QED BY <1>1, <1>6, <1>7, HookType

\* a packet asks once, so there are at most as many requests as packets
LEMMA RouteReqType ==
  ASSUME TypeInv, NEW p \in Packet, RouteReq(p)
  PROVE  TypeInv'
<1> DEFINE k == [pkt[p] EXCEPT !.at = "enqueue"]
<1>1. /\ InHook(p, k) /\ UNCHANGED <<expl, queue>> /\ pkt[p].at = "ask"
      /\ \/ UNCHANGED inbox
         \/ inbox' = [inbox EXCEPT ![pkt[p].dest] = @ + 1]
  BY DEF RouteReq
<1>2. k \in Pkt /\ k.at = "enqueue" /\ pkt[p].dest \in Addr
  BY DEF TypeInv, TypeOK, Pkt, Place, Hook
<1> HIDE DEF k
<1>3. pkt' = [pkt EXCEPT ![p] = k] /\ UNCHANGED <<nl, rt, ghost, seek, alive, changes>>
  BY <1>1 DEF InHook
<1>4. /\ pkt' \in [Packet -> Pkt] /\ Copies' /\ pkt'[p] = k
      /\ \A q \in Packet : q # p => pkt'[q] = pkt[q]
  BY <1>2, <1>3, PacketMoves
<1>5. p \notin Asked /\ Asked' = Asked \cup {p}
  BY <1>1, <1>2, <1>4 DEF Asked
<1>6. /\ Cardinality(Asked') = Cardinality(Asked) + 1 /\ Cardinality(Asked') \in Nat
      /\ Cardinality(Asked') <= Cardinality(Packet) /\ Cardinality(Packet) \in Nat
  <2>1. Cardinality(Asked') = Cardinality(Asked) + 1
    BY <1>5, AskedFinite, FS_AddElement
  <2>2. Asked' \in SUBSET Packet
    BY DEF Asked
  <2> QED BY <2>1, <2>2, AskedFinite, FS_Subset
<1>7. \A d \in Addr : inbox[d] \in Nat /\ inbox[d] <= Cardinality(Asked)
  BY AskedFinite DEF TypeInv, TypeOK, Requests
<1>8. inbox' \in [Addr -> Nat] /\ \A d \in Addr : inbox'[d] <= inbox[d] + 1
  <2>1. inbox \in [Addr -> Nat]
    BY <1>7 DEF TypeInv, TypeOK
  <2> QED BY <1>1, <1>2, <1>7, <2>1
<1>9. \A d \in Addr : inbox'[d] <= Cardinality(Asked') /\ inbox'[d] \in 0 .. Cardinality(Packet)
  BY <1>6, <1>7, <1>8, AskedFinite
<1>10. Requests' /\ inbox' \in [Addr -> 0 .. Cardinality(Packet)]
  BY <1>8, <1>9 DEF Requests
<1>11. TypeOK' /\ Counts(expl)'
  BY <1>1, <1>3, <1>4, <1>10 DEF TypeInv, TypeOK
<1> QED BY <1>4, <1>10, <1>11 DEF TypeInv

\* the requests stay as they are while no packet joins those that have not asked
LEMMA RequestsStay ==
  ASSUME TypeInv, UNCHANGED inbox, Asked \subseteq Asked'
  PROVE  Requests'
<1>1. inbox' \in [Addr -> Int] /\ \A d \in Addr : inbox'[d] <= inbox[d]
  BY AskedFinite DEF TypeInv, TypeOK
<1> QED BY <1>1, RequestsKept

LEMMA EnqueueType ==
  ASSUME TypeInv, NEW p \in Packet, Enqueue(p)
  PROVE  TypeInv'
<1> DEFINE at == IF p \in queue' THEN "queued" ELSE "leaked"
           k == [pkt[p] EXCEPT !.at = at]
<1>1. /\ InHook(p, k) /\ UNCHANGED <<expl, inbox>>
      /\ queue' = queue_enqueue(queue, p)
  BY DEF Enqueue
<1>2. k \in Pkt /\ k.at \in {"queued", "leaked"}
  <2>1. at \in {"queued", "leaked"} /\ pkt[p] \in Pkt
    BY DEF TypeInv, TypeOK
  <2> HIDE DEF at
  <2> QED BY <2>1 DEF Pkt, Place
<1> HIDE DEF k
<1>3. pkt' = [pkt EXCEPT ![p] = k] /\ UNCHANGED <<nl, rt, ghost, seek, alive, changes>>
  BY <1>1 DEF InHook
<1>4. pkt' \in [Packet -> Pkt] /\ Copies' /\ Asked \subseteq Asked'
  BY <1>2, <1>3, PacketMoves
<1>5. queue' \subseteq Packet /\ Cardinality(queue') <= QUEUE_QMAX
  <2>1. IsFiniteSet(queue) /\ Cardinality(queue) \in Nat /\ queue \subseteq Packet
    BY AskedFinite, FS_Subset, FS_CardinalityType DEF TypeInv, TypeOK
  <2>2. CASE Cardinality(queue) >= QUEUE_QMAX
    BY <1>1, <2>1, <2>2 DEF queue_enqueue, TypeInv, TypeOK
  <2>3. CASE Cardinality(queue) < QUEUE_QMAX
    <3>1. queue' = queue \cup {p}
      BY <1>1, <2>1, <2>3, KaodvAssumption DEF queue_enqueue
    <3>2. Cardinality(queue \cup {p}) = IF p \in queue THEN Cardinality(queue) ELSE Cardinality(queue) + 1
      BY <2>1, FS_AddElement
    <3> QED BY <2>1, <2>3, <3>1, <3>2, KaodvAssumption
  <2> QED BY <2>1, <2>2, <2>3, KaodvAssumption
<1>6. Requests'
  BY <1>1, <1>4, RequestsStay
<1>7. TypeOK' /\ Counts(expl)'
  BY <1>1, <1>3, <1>4, <1>5 DEF TypeInv, TypeOK
<1> QED BY <1>4, <1>6, <1>7 DEF TypeInv

\* removing packets from the queue leaves it in its range
LEMMA QueueShrinks ==
  ASSUME TypeInv, NEW q \in SUBSET queue
  PROVE  q \subseteq Packet /\ Cardinality(q) <= QUEUE_QMAX
<1>1. queue \in SUBSET Packet /\ Cardinality(queue) <= QUEUE_QMAX
  BY DEF TypeInv, TypeOK
<1>2. IsFiniteSet(queue)
  BY <1>1, AskedFinite, FS_Subset
<1>3. IsFiniteSet(q) /\ Cardinality(q) <= Cardinality(queue)
  BY <1>2, FS_Subset
<1>4. Cardinality(q) \in Nat /\ Cardinality(queue) \in Nat /\ QUEUE_QMAX \in Nat
  BY <1>2, <1>3, FS_CardinalityType, KaodvAssumption
<1> QED BY <1>1, <1>3, <1>4

LEMMA NlVerdictType ==
  ASSUME TypeInv, NEW p \in Packet, NlVerdict(p)
  PROVE  TypeInv'
<1> DEFINE k == IF nl.op = "ADDROUTE" /\ expl.hop[pkt[p].dest] # NoAddr
                THEN PostRouting(pkt[p]) ELSE [pkt[p] EXCEPT !.at = "freed"]
<1>1. pkt[p] \in Pkt
  BY DEF TypeInv, TypeOK
<1>2. [pkt[p] EXCEPT !.at = "freed"] \in Pkt /\ [pkt[p] EXCEPT !.at = "freed"].at = "freed"
  BY <1>1 DEF Pkt, Place
<1>3. k \in Pkt /\ k.at \in {"refresh", "freed"}
  BY <1>1, <1>2, PostRoutingType
<1>4. /\ pkt' = [pkt EXCEPT ![p] = k] /\ queue' = queue \ {p}
      /\ UNCHANGED <<expl, nl, rt, ghost, seek, inbox, alive, changes>>
  BY DEF NlVerdict
<1> HIDE DEF k
<1>5. pkt' \in [Packet -> Pkt] /\ Copies' /\ Asked \subseteq Asked'
  BY <1>3, <1>4, PacketMoves
<1>6. queue' \subseteq Packet /\ Cardinality(queue') <= QUEUE_QMAX
  BY <1>4, QueueShrinks
<1>7. Requests'
  BY <1>4, <1>5, RequestsStay
<1>8. TypeOK' /\ Counts(expl)'
  BY <1>4, <1>5, <1>6 DEF TypeInv, TypeOK
<1> QED BY <1>5, <1>7, <1>8 DEF TypeInv

LEMMA NlFlushType ==
  ASSUME TypeInv, NlFlush
  PROVE  TypeInv'
<1>1. /\ queue' = {} /\ nl' = [nl EXCEPT !.op = "NONE"]
      /\ pkt' = [p \in Packet |-> IF p \in queue THEN [pkt[p] EXCEPT !.at = "freed"] ELSE pkt[p]]
      /\ UNCHANGED <<expl, rt, ghost, seek, inbox, alive, changes>>
  BY DEF NlFlush
<1>2. ASSUME NEW p \in Packet
      PROVE  /\ pkt[p] \in Pkt /\ pkt'[p] \in Pkt
             /\ pkt'[p] = pkt[p] \/ pkt'[p].at = "freed"
  <2>1. pkt[p] \in Pkt
    BY DEF TypeInv, TypeOK
  <2>2. [pkt[p] EXCEPT !.at = "freed"] \in Pkt /\ [pkt[p] EXCEPT !.at = "freed"].at = "freed"
    BY <2>1 DEF Pkt, Place
  <2> QED BY <1>1, <2>1, <2>2
<1>3. pkt' \in [Packet -> Pkt]
  BY <1>1, <1>2
<1>4. Copies' /\ Asked \subseteq Asked'
  BY <1>2 DEF TypeInv, Copies, Asked
<1>5. queue' \subseteq Packet /\ Cardinality(queue') <= QUEUE_QMAX
  BY <1>1, QueueShrinks
<1>6. Requests'
  BY <1>1, <1>4, RequestsStay
<1>7. nl' \in Message
  BY <1>1 DEF TypeInv, TypeOK, Message
<1>8. TypeOK' /\ Counts(expl)'
  BY <1>1, <1>3, <1>5, <1>7 DEF TypeInv, TypeOK
<1> QED BY <1>4, <1>6, <1>8 DEF TypeInv

\* the daemon changes neither the cache nor packets
LEMMA DaemonType ==
  ASSUME TypeInv, UNCHANGED <<expl, queue, pkt>>,
         nl' \in Message, rt' \in [Addr -> Addr \cup {NoAddr}], seek' \subseteq Addr,
         ghost' \subseteq {d \in Addr : rt'[d] # NoAddr},
         inbox' \in [Addr -> 0 .. Cardinality(Packet)],
         \A d \in Addr : inbox'[d] <= inbox[d],
         alive' \in BOOLEAN, changes' \in 0 .. ChangeBound
  PROVE  TypeInv'
<1>1. TypeOK' /\ Counts(expl)' /\ Copies' /\ Asked' = Asked
  BY DEF TypeInv, TypeOK, Copies, Asked
<1>2. inbox' \in [Addr -> Int]
  BY AskedFinite
<1> QED BY <1>1, <1>2, RequestsKept DEF TypeInv

LEMMA SendType ==
  ASSUME NEW op \in {"NONE", "ADDROUTE", "DELROUTE", "NOROUTE", "RELEASE"},
         NEW d \in Addr, NEW hop \in Addr, Send(op, d, hop)
  PROVE  nl' \in Message /\ nl'.op = op /\ nl'.dest = d /\ nl'.hop = hop /\ nl'.at = "get"
         /\ ~ nl'.del
BY DEF Send, Message

LEMMA SomeType == Some \in Addr
BY KaodvAssumption DEF Some

\* what most steps of the daemon leave alone keeps its type
LEMMA DaemonKeeps ==
  ASSUME TypeInv
  PROVE  /\ nl \in Message /\ rt \in [Addr -> Addr \cup {NoAddr}] /\ seek \subseteq Addr
         /\ ghost \subseteq {d \in Addr : rt[d] # NoAddr}
         /\ inbox \in [Addr -> 0 .. Cardinality(Packet)]
         /\ \A d \in Addr : inbox[d] \in Nat /\ inbox[d] <= inbox[d]
         /\ alive \in BOOLEAN /\ changes \in 0 .. ChangeBound
         /\ Change => changes' \in 0 .. ChangeBound
BY AskedFinite, KaodvAssumption DEF TypeInv, TypeOK, Change

LEMMA DaemonRouteReqType ==
  ASSUME TypeInv, NEW d \in Addr, DaemonRouteReq(d)
  PROVE  TypeInv'
<1>1. /\ inbox[d] > 0 /\ inbox' = [inbox EXCEPT ![d] = inbox[d] - 1]
      /\ seek' = seek \cup {d}
      /\ UNCHANGED <<expl, queue, pkt, nl, rt, ghost, alive, changes>>
  BY DEF DaemonRouteReq
<1>2. /\ inbox' \in [Addr -> 0 .. Cardinality(Packet)]
      /\ \A a \in Addr : inbox'[a] <= inbox[a]
  BY <1>1, DaemonKeeps, AskedFinite
<1> QED BY <1>1, <1>2, DaemonKeeps, DaemonType

LEMMA DaemonAddRouteType ==
  ASSUME TypeInv, NEW d \in Addr, NEW hop \in Addr, DaemonAddRoute(d, hop)
  PROVE  TypeInv'
<1>1. /\ Change /\ rt' = [rt EXCEPT ![d] = hop] /\ ghost' = ghost \ {d} /\ seek' = seek \ {d}
      /\ Send("ADDROUTE", d, hop)
      /\ UNCHANGED <<expl, queue, pkt, inbox, alive>>
  BY DEF DaemonAddRoute
<1>2. rt' \in [Addr -> Addr \cup {NoAddr}] /\ ghost' \subseteq {a \in Addr : rt'[a] # NoAddr}
  BY <1>1, DaemonKeeps
<1>3. nl' \in Message
  BY <1>1, SendType
<1> QED BY <1>1, <1>2, <1>3, DaemonKeeps, DaemonType

LEMMA DaemonSameRouteType ==
  ASSUME TypeInv, NEW d \in Addr, DaemonSameRoute(d)
  PROVE  TypeInv'
<1>1. /\ seek' = seek \ {d}
      /\ UNCHANGED <<expl, queue, pkt, nl, rt, ghost, inbox, alive, changes>>
  BY DEF DaemonSameRoute
<1> QED BY <1>1, DaemonKeeps, DaemonType

LEMMA DaemonDemoteType ==
  ASSUME TypeInv, NEW d \in Addr, NEW hop \in Addr, DaemonDemote(d, hop)
  PROVE  TypeInv'
<1>1. /\ Change /\ rt' = [rt EXCEPT ![d] = hop] /\ ghost' = ghost \cup {d} /\ seek' = seek \ {d}
      /\ nl' = [op |-> "ADDROUTE", dest |-> d, hop |-> hop, at |-> "get", found |-> FALSE,
                del |-> TRUE]
      /\ UNCHANGED <<expl, queue, pkt, inbox, alive>>
  BY DEF DaemonDemote
<1>2. rt' \in [Addr -> Addr \cup {NoAddr}] /\ ghost' \subseteq {a \in Addr : rt'[a] # NoAddr}
  BY <1>1, DaemonKeeps, KaodvAssumption
<1>3. nl' \in Message
  BY <1>1 DEF Message
<1> QED BY <1>1, <1>2, <1>3, DaemonKeeps, DaemonType

LEMMA DelRouteType ==
  ASSUME TypeInv, NEW d \in Addr, DelRoute(d), changes' \in 0 .. ChangeBound
  PROVE  TypeInv'
<1>1. /\ rt' = [rt EXCEPT ![d] = NoAddr] /\ ghost' = ghost \ {d}
      /\ Send("DELROUTE", d, Some)
      /\ UNCHANGED <<expl, queue, pkt, seek, inbox, alive>>
  BY DEF DelRoute
<1>2. rt' \in [Addr -> Addr \cup {NoAddr}] /\ ghost' \subseteq {a \in Addr : rt'[a] # NoAddr}
  BY <1>1, DaemonKeeps
<1>3. nl' \in Message
  BY <1>1, SendType, SomeType
<1> QED BY <1>1, <1>2, <1>3, DaemonKeeps, DaemonType

LEMMA DaemonGiveUpType ==
  ASSUME TypeInv, NEW d \in Addr, DaemonGiveUp(d)
  PROVE  TypeInv'
<1>1. /\ seek' = seek \ {d} /\ Send("NOROUTE", d, Some)
      /\ UNCHANGED <<expl, queue, pkt, rt, ghost, inbox, alive, changes>>
  BY DEF DaemonGiveUp
<1>2. nl' \in Message
  BY <1>1, SendType, SomeType
<1> QED BY <1>1, <1>2, DaemonKeeps, DaemonType

LEMMA CrashType ==
  ASSUME TypeInv, Crash
  PROVE  TypeInv'
<1>1. /\ Change /\ alive' = FALSE /\ seek' = {}
      /\ rt' = [d \in Addr |-> NoAddr] /\ ghost' = {}
      /\ inbox' = [d \in Addr |-> 0]
      /\ Send("RELEASE", Some, Some)
      /\ UNCHANGED <<expl, queue, pkt>>
  BY DEF Crash
<1>2. nl' \in Message
  BY <1>1, SendType, SomeType
<1>3. /\ inbox' \in [Addr -> 0 .. Cardinality(Packet)]
      /\ \A a \in Addr : inbox'[a] <= inbox[a]
  BY <1>1, DaemonKeeps, AskedFinite
<1> QED BY <1>1, <1>2, <1>3, DaemonKeeps, DaemonType

LEMMA StartType ==
  ASSUME TypeInv, Start
  PROVE  TypeInv'
<1>1. /\ alive' = TRUE
      /\ UNCHANGED <<expl, queue, pkt, nl, rt, ghost, seek, inbox, changes>>
  BY DEF Start
<1> QED BY <1>1, DaemonKeeps, DaemonType

LEMMA NlGetType ==
  ASSUME TypeInv, NlGet
  PROVE  TypeInv'
<1> DEFINE at == IF nl.op = "NOROUTE" THEN "verdict" ELSE "put"
           found == expl.hop[nl.dest] # NoAddr
<1>1. /\ nl' = [nl EXCEPT !.at = at, !.found = found]
      /\ UNCHANGED <<expl, queue, pkt, rt, ghost, seek, inbox, alive, changes>>
  BY DEF NlGet
<1>2. at \in {"verdict", "put"} /\ found \in BOOLEAN
  OBVIOUS
<1> HIDE DEF at, found
<1>3. nl' \in Message
  BY <1>1, <1>2, DaemonKeeps DEF Message
<1> QED BY <1>1, <1>3, DaemonKeeps, DaemonType

LEMMA NlDoneType ==
  ASSUME TypeInv, NlDone
  PROVE  TypeInv'
<1>1. UNCHANGED <<expl, queue, pkt, rt, ghost, seek, inbox, alive, changes>>
  BY DEF NlDone
<1>2. nl' \in Message
  <2>1. CASE nl.del
    BY <2>1, DaemonKeeps, SendType, SomeType DEF NlDone, Message
  <2>2. CASE ~ nl.del
    BY <2>2, DaemonKeeps DEF NlDone, Message
  <2> QED BY <2>1, <2>2
<1> QED BY <1>1, <1>2, DaemonKeeps, DaemonType

\* NlPut takes the one operation of its message
LEMMA NlPutIs ==
  ASSUME TypeInv, NlPut
  PROVE  \/ /\ nl.op = "ADDROUTE" /\ nl.found
            /\ expl' = kaodv_expl_update(expl, nl.dest, nl.hop)
         \/ /\ nl.op = "ADDROUTE" /\ ~ nl.found
            /\ expl' = kaodv_expl_add(expl, nl.dest, nl.hop)
         \/ nl.op = "DELROUTE" /\ expl' = kaodv_expl_del(expl, nl.dest)
         \/ nl.op = "RELEASE" /\ expl' = kaodv_expl_flush(expl)
         \/ nl.op = "NOROUTE"
<1>1. nl.op \in {"ADDROUTE", "DELROUTE", "NOROUTE", "RELEASE"} /\ nl.found \in BOOLEAN
  BY DaemonKeeps DEF NlPut, Handler, Message
<1>2. CASE nl.op = "ADDROUTE" /\ nl.found
  BY <1>2 DEF NlPut
<1>3. CASE nl.op = "ADDROUTE" /\ ~ nl.found
  BY <1>3 DEF NlPut
<1>4. CASE nl.op = "DELROUTE"
  BY <1>4 DEF NlPut
<1>5. CASE nl.op = "RELEASE"
  BY <1>5 DEF NlPut
<1> QED BY <1>1, <1>2, <1>3, <1>4, <1>5

\* NOROUTE does not touch the cache
NoPut == nl.op = "NOROUTE" => nl.at # "put"

LEMMA NlPutType ==
  ASSUME TypeInv, NoPut, NlPut
  PROVE  TypeInv'
<1>1. /\ nl.at = "put" /\ nl' = [nl EXCEPT !.at = "verdict"]
      /\ UNCHANGED <<queue, pkt, rt, ghost, seek, inbox, alive, changes>>
  BY DEF NlPut, Handler
<1>2. nl' \in Message /\ nl.dest \in Addr /\ nl.hop \in Addr
  BY <1>1, DaemonKeeps DEF Message
<1>3. expl \in Cache /\ Counts(expl)
  BY DEF TypeInv, TypeOK, Cache
<1>4. expl' \in Cache /\ Counts(expl')
  <2>1. CASE expl' = kaodv_expl_update(expl, nl.dest, nl.hop)
    BY <1>2, <1>3, <2>1, UpdateIs
  <2>2. CASE expl' = kaodv_expl_add(expl, nl.dest, nl.hop)
    BY <1>2, <1>3, <2>2, AddIs
  <2>3. CASE expl' = kaodv_expl_del(expl, nl.dest)
    BY <1>2, <1>3, <2>3, DelIs
  <2>4. CASE expl' = kaodv_expl_flush(expl)
    BY <1>3, <2>4, FlushIs
  <2> QED BY <1>1, <2>1, <2>2, <2>3, <2>4, NlPutIs DEF NoPut
<1>5. TypeOK' /\ Copies' /\ Asked' = Asked
  BY <1>1, <1>2, <1>4 DEF TypeInv, TypeOK, Cache, Copies, Asked
<1>6. Requests'
  BY <1>1, <1>5, RequestsStay
<1> QED BY <1>4, <1>5, <1>6 DEF TypeInv

LEMMA NextNoPut ==
  ASSUME TypeInv, NoPut, [Next]_vars
  PROVE  NoPut'
<1>1. CASE UNCHANGED nl
  BY <1>1 DEF NoPut
<1>2. ASSUME NEW op, NEW d, NEW hop, Send(op, d, hop) PROVE NoPut'
  BY <1>2 DEF NoPut, Send
<1>3. CASE NlGet
  <2>1. nl' = [nl EXCEPT !.at = IF nl.op = "NOROUTE" THEN "verdict" ELSE "put",
                         !.found = expl.hop[nl.dest] # NoAddr] /\ nl \in Message
    BY <1>3, DaemonKeeps DEF NlGet
  <2> QED BY <2>1 DEF NoPut, Message
<1>4. CASE NlPut
  BY <1>4, DaemonKeeps DEF NlPut, NoPut, Message
<1>5. CASE NlDone
  BY <1>2, <1>5, DaemonKeeps DEF NlDone, NoPut, Message
<1>6. CASE NlFlush
  BY <1>6, DaemonKeeps DEF NlFlush, NoPut, Message
<1>7. CASE \E p \in Packet : HookStep(p) \/ NlVerdict(p)
  BY <1>1, <1>7 DEF HookStep, QueueCheck, RouteReq, Enqueue, Forward, RefreshGet, RefreshPut,
                    InHook, NlVerdict
<1>8. CASE \E p \in Packet, d \in Addr : LocalOut(p, d)
  BY <1>1, <1>8 DEF LocalOut, InHook
<1>9. CASE \E p \in Packet, s \in Addr, d \in Addr \cup {NoAddr} : PreRouting(p, s, d)
  BY <1>1, <1>9 DEF PreRouting, InHook
<1>10. CASE \E d \in Addr : DaemonRouteReq(d) \/ DaemonSameRoute(d)
  BY <1>1, <1>10 DEF DaemonRouteReq, DaemonSameRoute
<1>11. CASE \E d \in Addr : DaemonGiveUp(d) \/ DaemonDelRoute(d) \/ DaemonExpire(d)
  BY <1>2, <1>11 DEF DaemonGiveUp, DaemonDelRoute, DaemonExpire, DelRoute
<1>12. CASE \E d, hop \in Addr : DaemonAddRoute(d, hop)
  BY <1>2, <1>12 DEF DaemonAddRoute
<1>13. CASE \E d, hop \in Addr : DaemonDemote(d, hop)
  BY <1>13 DEF DaemonDemote, NoPut
<1>14. CASE Crash
  BY <1>2, <1>14 DEF Crash
<1>15. CASE Start \/ UNCHANGED vars
  BY <1>1, <1>15 DEF Start, vars
<1> QED BY <1>3, <1>4, <1>5, <1>6, <1>7, <1>8, <1>9, <1>10, <1>11, <1>12, <1>13, <1>14, <1>15
        DEF Next

LEMMA InitType ==
  ASSUME Init
  PROVE  TypeInv /\ NoPut
<1>1. /\ expl \in Cache /\ expl.len = 0 /\ \A d \in Addr : expl.hop[d] = NoAddr
  BY DEF Init, Cache
<1>2. Entries(expl) = {}
  BY <1>1 DEF Entries
<1>3. Counts(expl)
  BY <1>1, <1>2, FS_EmptySet DEF Counts
<1>4. ASSUME NEW p \in Packet PROVE pkt[p] \in Pkt /\ pkt[p].at = "new"
  <2> DEFINE k == [at |-> "new", dest |-> Some, src |-> NoAddr, keys |-> <<>>, e |-> NoAddr,
                   then |-> "out"]
  <2>1. <<>> \in Seq(Key)
    OBVIOUS
  <2>2. k \in Pkt /\ k.at = "new"
    BY <2>1, SomeType DEF Pkt, Place
  <2>3. pkt[p] = k
    BY DEF Init
  <2> QED BY <2>2, <2>3
<1>5. pkt \in [Packet -> Pkt] /\ Copies
  BY <1>4 DEF Init, Copies
<1>6. nl \in Message /\ NoPut
  BY SomeType DEF Init, Message, NoPut
<1>7. queue \subseteq Packet /\ Cardinality(queue) <= QUEUE_QMAX
  BY FS_EmptySet, KaodvAssumption DEF Init
<1>8. inbox \in [Addr -> 0 .. Cardinality(Packet)] /\ Requests
  <2>1. 0 \in 0 .. Cardinality(Packet) /\ 0 <= Cardinality(Asked)
    BY AskedFinite
  <2> QED BY <2>1 DEF Init, Requests
<1>9. /\ rt \in [Addr -> Addr \cup {NoAddr}] /\ seek \subseteq Addr
      /\ ghost \subseteq {d \in Addr : rt[d] # NoAddr} /\ alive \in BOOLEAN
      /\ changes \in 0 .. ChangeBound
  BY KaodvAssumption DEF Init
<1>10. TypeOK
  BY <1>1, <1>5, <1>6, <1>7, <1>8, <1>9 DEF TypeOK, Cache
<1> QED BY <1>3, <1>5, <1>6, <1>8, <1>10 DEF TypeInv

LEMMA NextType ==
  ASSUME TypeInv, NoPut, [Next]_vars
  PROVE  TypeInv'
<1>1. CASE \E p \in Packet : HookStep(p) \/ NlVerdict(p)
  BY <1>1, QueueCheckType, RouteReqType, EnqueueType, ForwardType, RefreshGetType,
     RefreshPutType, NlVerdictType DEF HookStep
<1>2. CASE \E p \in Packet, d \in Addr : LocalOut(p, d)
  BY <1>2, LocalOutType
<1>3. CASE \E p \in Packet, s \in Addr, d \in Addr \cup {NoAddr} : PreRouting(p, s, d)
  BY <1>3, PreRoutingType
<1>4. CASE \E d \in Addr : DaemonRouteReq(d) \/ DaemonGiveUp(d) \/ DaemonSameRoute(d)
  BY <1>4, DaemonRouteReqType, DaemonGiveUpType, DaemonSameRouteType
<1>5. CASE \E d \in Addr : DaemonDelRoute(d) \/ DaemonExpire(d)
  BY <1>5, DelRouteType, DaemonKeeps DEF DaemonDelRoute, DaemonExpire
<1>6. CASE \E d, hop \in Addr : DaemonAddRoute(d, hop) \/ DaemonDemote(d, hop)
  BY <1>6, DaemonAddRouteType, DaemonDemoteType
<1>7. CASE NlGet \/ NlPut \/ NlDone \/ NlFlush
  BY <1>7, NlGetType, NlPutType, NlDoneType, NlFlushType
<1>8. CASE Crash \/ Start
  BY <1>8, CrashType, StartType
<1>9. CASE UNCHANGED vars
  BY <1>9 DEF vars, TypeInv, TypeOK, Counts, Entries, Requests, Asked, Copies
<1> QED BY <1>1, <1>2, <1>3, <1>4, <1>5, <1>6, <1>7, <1>8, <1>9 DEF Next

\* Every variable keeps its type, the queue never has more packets than its bound,
\* expl_len never falls below 0 and there are never more requests than packets,
\* whatever hooks and messages interleave and however often the daemon dies.
THEOREM TypeCorrect == Spec => []TypeOK
<1>1. Init => TypeInv /\ NoPut
  BY InitType
<1>2. (TypeInv /\ NoPut) /\ [Next]_vars => (TypeInv /\ NoPut)'
  BY NextType, NextNoPut
<1>3. TypeInv /\ NoPut => TypeOK
  BY DEF TypeInv
<1> QED BY <1>1, <1>2, <1>3, PTL DEF Spec

-----------------------------------------------------------------------------
(***************************************************************************)
(* The cache and the daemon's table.                                       *)
(***************************************************************************)
\* the list takes every entry
HasRoom == expl.len <= EXPL_MAX_LEN

Wanted(d) == rt[d] # NoAddr /\ d \notin ghost

\* the kernel has the route, and on one CPU its next hop
Agree(d) ==
  /\ expl.hop[d] # NoAddr <=> Wanted(d)
  /\ ~ Preempt /\ Wanted(d) => expl.hop[d] = rt[d]

\* What the message that is being handled has done and has still to do.
AddInStep ==
  /\ rt[nl.dest] = nl.hop /\ (nl.dest \in ghost <=> nl.del)
  /\ nl.at = "put" => (nl.found <=> expl.hop[nl.dest] # NoAddr)
  /\ nl.at = "verdict" => /\ expl.hop[nl.dest] # NoAddr
                          /\ ~ Preempt => expl.hop[nl.dest] = nl.hop

DelInStep == ~ Wanted(nl.dest) /\ (nl.at = "verdict" => expl.hop[nl.dest] = NoAddr)

ReleaseInStep ==
  /\ \A d \in Addr : rt[d] = NoAddr
  /\ nl.at = "verdict" => \A d \in Addr : expl.hop[d] = NoAddr

InStep ==
  /\ nl.del => nl.op = "ADDROUTE"
  /\ nl.op \in {"NONE", "NOROUTE"} => \A d \in Addr : Agree(d)
  /\ nl.op \in {"ADDROUTE", "DELROUTE"} => \A d \in Addr : d # nl.dest => Agree(d)
  /\ nl.op = "ADDROUTE" => AddInStep
  /\ nl.op = "DELROUTE" => DelInStep
  /\ nl.op = "RELEASE" => ReleaseInStep

\* On one CPU the copy of an entry is what the cache has.
Fresh ==
  ~ Preempt => \A p \in Packet : pkt[p].at = "write" =>
                 expl.hop[pkt[p].keys[1].addr] = pkt[p].e

KaodvInv == TypeInv /\ NoPut /\ InStep /\ Fresh

\* a step of a hook, up to what matters for the cache
HookMoves(p) ==
  /\ UNCHANGED <<nl, rt, ghost>>
  /\ \A q \in Packet : q # p => pkt'[q] = pkt[q]

LEMMA HookIs ==
  ASSUME TypeInv, NEW p \in Packet, NEW k, InHook(p, k)
  PROVE  HookMoves(p) /\ pkt'[p] = k
BY DEF InHook, HookMoves, TypeInv, TypeOK

\* only RefreshPut changes the cache, and only RefreshGet copies an entry
LEMMA OtherHooks ==
  ASSUME TypeInv, NEW p \in Packet,
         \/ QueueCheck(p) \/ RouteReq(p) \/ Enqueue(p) \/ Forward(p)
         \/ \E d \in Addr : LocalOut(p, d)
         \/ \E s \in Addr, d \in Addr \cup {NoAddr} : PreRouting(p, s, d)
  PROVE  HookMoves(p) /\ expl' = expl /\ pkt'[p].at # "write"
<1>1. pkt[p] \in Pkt
  BY DEF TypeInv, TypeOK
<1>2. ASSUME NEW k \in Pkt, NEW at \in Place, at # "write",
             InHook(p, [k EXCEPT !.at = at])
      PROVE  HookMoves(p) /\ pkt'[p].at # "write"
  BY <1>2, HookIs DEF Pkt
<1>3. ASSUME NEW k \in Pkt, InHook(p, PostRouting(k))
      PROVE  HookMoves(p) /\ pkt'[p].at # "write"
  BY <1>3, HookIs, PostRoutingType
<1>4. CASE QueueCheck(p)
  <2> DEFINE at == IF kaodv_queue_check(pkt[p].dest) THEN "enqueue" ELSE "ask"
  <2>1. at \in Place /\ at # "write"
    BY DEF Place, Hook
  <2>2. InHook(p, [pkt[p] EXCEPT !.at = at]) /\ expl' = expl
    BY <1>4 DEF QueueCheck
  <2> HIDE DEF at
  <2> QED BY <1>1, <1>2, <2>1, <2>2
<1>5. CASE RouteReq(p)
  <2>1. InHook(p, [pkt[p] EXCEPT !.at = "enqueue"]) /\ expl' = expl /\ "enqueue" \in Place
    BY <1>5 DEF RouteReq, Place, Hook
  <2> QED BY <1>1, <1>2, <2>1
<1>6. CASE Enqueue(p)
  <2> DEFINE at == IF p \in queue' THEN "queued" ELSE "leaked"
  <2>1. at \in Place /\ at # "write"
    BY DEF Place, Hook
  <2>2. InHook(p, [pkt[p] EXCEPT !.at = at]) /\ expl' = expl
    BY <1>6 DEF Enqueue
  <2> HIDE DEF at
  <2> QED BY <1>1, <1>2, <2>1, <2>2
<1>7. CASE Forward(p)
  <2>1. expl' = expl /\ "freed" \in Place
    BY <1>7 DEF Forward, Place
  <2>2. InHook(p, [pkt[p] EXCEPT !.at = "freed"]) \/ InHook(p, PostRouting(pkt[p]))
    BY <1>7 DEF Forward
  <2> QED BY <1>1, <1>2, <1>3, <2>1, <2>2
<1>8. ASSUME NEW d \in Addr, LocalOut(p, d)
      PROVE  HookMoves(p) /\ expl' = expl /\ pkt'[p].at # "write"
  <2> DEFINE k == [pkt[p] EXCEPT !.dest = d]
  <2>1. expl' = expl /\ "check" \in Place
    BY <1>8 DEF LocalOut, Place, Hook
  <2>2. InHook(p, [k EXCEPT !.at = "check"]) \/ InHook(p, PostRouting(k))
    BY <1>8 DEF LocalOut
  <2>3. k \in Pkt
    BY <1>1 DEF Pkt
  <2> HIDE DEF k
  <2> QED BY <1>2, <1>3, <2>1, <2>2, <2>3
<1>9. ASSUME NEW s \in Addr, NEW d \in Addr \cup {NoAddr}, PreRouting(p, s, d)
      PROVE  HookMoves(p) /\ expl' = expl /\ pkt'[p].at # "write"
  <2> DEFINE ks == keysOf(s, NoAddr)
             kd == keysOf(d, s)
             k == [pkt[p] EXCEPT !.at = "refresh", !.src = s]
             m == IF d = NoAddr THEN [k EXCEPT !.keys = ks]
                  ELSE [k EXCEPT !.dest = d, !.keys = kd, !.then = "forward"]
  <2>1. InHook(p, m) /\ expl' = expl
    BY <1>9 DEF PreRouting
  <2> HIDE DEF ks, kd
  <2>2. m.at = "refresh"
    BY <1>1 DEF Pkt
  <2> HIDE DEF m
  <2> QED BY <2>1, <2>2, HookIs
<1> QED BY <1>4, <1>5, <1>6, <1>7, <1>8, <1>9

\* a step that leaves the messages, the routes and the cache as they are
LEMMA InStepKept ==
  ASSUME TypeInv, InStep, UNCHANGED <<nl, rt, ghost>>,
         \A d \in Addr : expl'.hop[d] # NoAddr <=> expl.hop[d] # NoAddr,
         ~ Preempt => \A d \in Addr : expl'.hop[d] = expl.hop[d]
  PROVE  InStep'
<1>1. nl.dest \in Addr
  BY DaemonKeeps DEF Message
<1>2. ASSUME NEW d \in Addr, Agree(d) PROVE Agree(d)'
  BY <1>2 DEF Agree, Wanted
<1>3. AddInStep => AddInStep'
  BY <1>1 DEF AddInStep
<1>4. DelInStep => DelInStep'
  BY <1>1 DEF DelInStep, Wanted
<1>5. ReleaseInStep => ReleaseInStep'
  BY DEF ReleaseInStep
<1> QED BY <1>2, <1>3, <1>4, <1>5 DEF InStep

\* the copies of the other packets stay what they are
LEMMA FreshKept ==
  ASSUME TypeInv, Fresh, ~ Preempt => \A d \in Addr : expl'.hop[d] = expl.hop[d],
         \A q \in Packet : pkt'[q].at = "write" =>
           \/ pkt'[q] = pkt[q]
           \/ expl.hop[pkt'[q].keys[1].addr] = pkt'[q].e,
         TypeInv'
  PROVE  Fresh'
<1>1. ASSUME NEW q \in Packet, pkt'[q].at = "write" PROVE pkt'[q].keys[1].addr \in Addr
  <2>1. pkt'[q].keys \in Seq(Key) /\ pkt'[q].keys # <<>>
    BY <1>1 DEF TypeInv, TypeOK, Copies, Pkt
  <2>2. pkt'[q].keys[1] \in Key
    BY <2>1
  <2> QED BY <2>2 DEF Key
<1> QED BY <1>1 DEF Fresh

LEMMA OtherHooksInv ==
  ASSUME KaodvInv, TypeInv', NEW p \in Packet,
         HookMoves(p), expl' = expl, pkt'[p].at # "write"
  PROVE  InStep' /\ Fresh'
<1>1. InStep'
  BY InStepKept DEF HookMoves, KaodvInv
<1>2. Fresh'
  BY FreshKept DEF HookMoves, KaodvInv
<1> QED BY <1>1, <1>2

LEMMA RefreshGetInv ==
  ASSUME KaodvInv, TypeInv', NEW p \in Packet, RefreshGet(p)
  PROVE  InStep' /\ Fresh'
<1> DEFINE k == pkt[p]
           e == expl.hop[k.keys[1].addr]
           m == IF k.keys = <<>> THEN [k EXCEPT !.at = k.then]
                ELSE IF e = NoAddr THEN [k EXCEPT !.keys = Tail(@)]
                ELSE [k EXCEPT !.at = "write", !.e = e]
<1>1. InHook(p, m) /\ expl' = expl /\ k.at = "refresh"
  BY DEF RefreshGet
<1>2. HookMoves(p) /\ pkt'[p] = m
  BY <1>1, HookIs DEF KaodvInv
<1>3. k \in Pkt
  BY DEF KaodvInv, TypeInv, TypeOK
<1>4. InStep'
  BY <1>1, <1>2, InStepKept DEF HookMoves, KaodvInv
<1> HIDE DEF e
<1>5. m.at = "write" => expl.hop[m.keys[1].addr] = m.e
  <2>1. CASE k.keys = <<>>
    <3>1. m.at \in {"forward", "out"}
      BY <1>3, <2>1 DEF Pkt
    <3> QED BY <3>1
  <2>2. CASE k.keys # <<>> /\ e = NoAddr
    BY <1>1, <1>3, <2>2 DEF Pkt
  <2>3. CASE k.keys # <<>> /\ e # NoAddr
    <3>1. m = [k EXCEPT !.at = "write", !.e = e]
      BY <2>3
    <3> HIDE DEF m
    <3>2. m.keys = k.keys /\ m.e = e
      BY <1>3, <3>1 DEF Pkt
    <3> QED BY <3>2 DEF e
  <2> QED BY <2>1, <2>2, <2>3
<1> HIDE DEF m
<1>6. Fresh'
  BY <1>1, <1>2, <1>5, FreshKept DEF HookMoves, KaodvInv
<1> QED BY <1>4, <1>6

\* a refresh that races with the daemon writes an entry only where there is one
LEMMA RefreshPutInv ==
  ASSUME KaodvInv, HasRoom, TypeInv', NEW p \in Packet, RefreshPut(p)
  PROVE  InStep' /\ Fresh'
<1> DEFINE k == pkt[p]
           a == k.keys[1].addr
           next == IF k.keys[1].via /\ k.e # a THEN <<[addr |-> k.e, via |-> FALSE]>> ELSE <<>>
           ks == next \o Tail(k.keys)
           m == [k EXCEPT !.at = "refresh", !.keys = ks, !.e = NoAddr]
<1>1. InHook(p, m) /\ k.at = "write" /\ expl' = kaodv_expl_update(expl, a, k.e)
  BY DEF RefreshPut
<1>2. k \in Pkt /\ k.keys \in Seq(Key) /\ k.keys # <<>> /\ k.e \in Addr
  BY <1>1 DEF KaodvInv, TypeInv, TypeOK, Copies, Pkt
<1>3. a \in Addr
  <2>1. k.keys[1] \in Key
    BY <1>2
  <2> QED BY <2>1 DEF Key
<1>4. ~ Preempt => expl.hop[a] = k.e
  BY <1>1 DEF KaodvInv, Fresh
<1>5. HookMoves(p) /\ pkt'[p] = m
  BY <1>1, HookIs DEF KaodvInv
<1> HIDE DEF ks
<1>6. m.at = "refresh"
  BY <1>2 DEF Pkt
<1> HIDE DEF m, a, k
<1>7. expl \in Cache /\ Counts(expl)
  BY DEF KaodvInv, TypeInv, TypeOK, Cache
<1>8. \/ expl' = expl
      \/ expl.hop[a] # NoAddr /\ expl'.hop = [expl.hop EXCEPT ![a] = k.e]
  BY <1>1, <1>2, <1>3, <1>7, UpdateIs DEF HasRoom
<1>9. /\ \A d \in Addr : expl'.hop[d] # NoAddr <=> expl.hop[d] # NoAddr
      /\ ~ Preempt => \A d \in Addr : expl'.hop[d] = expl.hop[d]
  <2>1. expl.hop \in [Addr -> Addr \cup {NoAddr}] /\ k.e # NoAddr
    BY <1>2, <1>7, KaodvAssumption DEF Cache
  <2> QED BY <1>3, <1>4, <1>8, <2>1
<1>10. InStep'
  BY <1>5, <1>9, InStepKept DEF HookMoves, KaodvInv
<1>11. Fresh'
  BY <1>5, <1>6, <1>9, FreshKept DEF HookMoves, KaodvInv
<1> QED BY <1>10, <1>11

\* on one CPU, no entry is copied while the daemon or a handler runs
LEMMA FreshIdle ==
  ASSUME Scheduled, \A q \in Packet : pkt'[q].at = "write" => pkt'[q] = pkt[q]
  PROVE  Fresh'
BY DEF Scheduled, Fresh, Hook

LEMMA NlVerdictInv ==
  ASSUME KaodvInv, NEW p \in Packet, NlVerdict(p)
  PROVE  InStep' /\ Fresh'
<1> DEFINE k == IF nl.op = "ADDROUTE" /\ expl.hop[pkt[p].dest] # NoAddr
                THEN PostRouting(pkt[p]) ELSE [pkt[p] EXCEPT !.at = "freed"]
<1>1. /\ pkt' = [pkt EXCEPT ![p] = k] /\ Scheduled
      /\ UNCHANGED <<expl, nl, rt, ghost>>
  BY DEF NlVerdict, Handler
<1>2. pkt[p] \in Pkt /\ pkt \in [Packet -> Pkt]
  BY DEF KaodvInv, TypeInv, TypeOK
<1>3. k.at \in {"refresh", "freed"}
  BY <1>2, PostRoutingType DEF Pkt
<1> HIDE DEF k
<1>4. pkt'[p].at # "write" /\ \A q \in Packet : q # p => pkt'[q] = pkt[q]
  BY <1>1, <1>2, <1>3
<1>5. InStep'
  BY <1>1, InStepKept DEF KaodvInv
<1> QED BY <1>1, <1>4, <1>5, FreshIdle

\* the steps of the daemon that the kernel does not hear of
LEMMA SilentInv ==
  ASSUME KaodvInv, UNCHANGED <<expl, pkt, nl, rt, ghost>>
  PROVE  InStep' /\ Fresh'
<1>1. InStep'
  BY InStepKept DEF KaodvInv
<1>2. Fresh'
  BY DEF KaodvInv, Fresh
<1> QED BY <1>1, <1>2

\* a message of the daemon: it agrees with the kernel on every other destination
LEMMA AddRouteInv ==
  ASSUME KaodvInv, NEW d \in Addr, NEW hop \in Addr, NEW del \in BOOLEAN,
         Ready, rt' = [rt EXCEPT ![d] = hop],
         ghost' = IF del THEN ghost \cup {d} ELSE ghost \ {d},
         nl' = [op |-> "ADDROUTE", dest |-> d, hop |-> hop, at |-> "get", found |-> FALSE,
                del |-> del],
         UNCHANGED <<expl, pkt>>
  PROVE  InStep' /\ Fresh'
<1>1. nl.op = "NONE" /\ Scheduled /\ \A a \in Addr : Agree(a)
  BY DEF Ready, KaodvInv, InStep
<1>2. rt \in [Addr -> Addr \cup {NoAddr}]
  BY DaemonKeeps DEF KaodvInv
<1>3. ASSUME NEW a \in Addr, a # d PROVE Agree(a)'
  <2>1. rt'[a] = rt[a] /\ (a \in ghost' <=> a \in ghost)
    BY <1>2, <1>3
  <2> QED BY <1>1, <2>1 DEF Agree, Wanted
<1>4. AddInStep'
  <2>1. rt'[d] = hop /\ (d \in ghost' <=> del)
    BY <1>2
  <2> QED BY <2>1 DEF AddInStep
<1>5. InStep'
  BY <1>3, <1>4 DEF InStep
<1> QED BY <1>1, <1>5, FreshIdle

LEMMA DelRouteInv ==
  ASSUME KaodvInv, NEW d \in Addr, Ready, DelRoute(d)
  PROVE  InStep' /\ Fresh'
<1>1. nl.op = "NONE" /\ Scheduled /\ \A a \in Addr : Agree(a)
  BY DEF Ready, KaodvInv, InStep
<1>2. /\ rt' = [rt EXCEPT ![d] = NoAddr] /\ ghost' = ghost \ {d}
      /\ Send("DELROUTE", d, Some)
      /\ UNCHANGED <<expl, pkt>>
  BY DEF DelRoute
<1>3. rt \in [Addr -> Addr \cup {NoAddr}]
  BY DaemonKeeps DEF KaodvInv
<1>4. nl'.op = "DELROUTE" /\ nl'.dest = d /\ nl'.at = "get" /\ ~ nl'.del
  BY <1>2 DEF Send
<1>5. ASSUME NEW a \in Addr, a # d PROVE Agree(a)'
  <2>1. rt'[a] = rt[a] /\ (a \in ghost' <=> a \in ghost)
    BY <1>2, <1>3, <1>5
  <2> QED BY <1>1, <1>2, <2>1 DEF Agree, Wanted
<1>6. DelInStep'
  <2>1. rt'[d] = NoAddr
    BY <1>2, <1>3
  <2> QED BY <1>4, <2>1 DEF DelInStep, Wanted
<1>7. InStep'
  BY <1>4, <1>5, <1>6 DEF InStep
<1> QED BY <1>1, <1>2, <1>7, FreshIdle

LEMMA DaemonGiveUpInv ==
  ASSUME KaodvInv, NEW d \in Addr, DaemonGiveUp(d)
  PROVE  InStep' /\ Fresh'
<1>1. nl.op = "NONE" /\ Scheduled /\ \A a \in Addr : Agree(a)
  BY DEF DaemonGiveUp, Ready, KaodvInv, InStep
<1>2. Send("NOROUTE", d, Some) /\ UNCHANGED <<expl, pkt, rt, ghost>>
  BY DEF DaemonGiveUp
<1>3. nl'.op = "NOROUTE" /\ ~ nl'.del
  BY <1>2 DEF Send
<1>4. \A a \in Addr : Agree(a)'
  BY <1>1, <1>2 DEF Agree, Wanted
<1>5. InStep'
  BY <1>3, <1>4 DEF InStep
<1> QED BY <1>1, <1>2, <1>5, FreshIdle

LEMMA CrashInv ==
  ASSUME KaodvInv, Crash
  PROVE  InStep' /\ Fresh'
<1>1. /\ Scheduled /\ rt' = [d \in Addr |-> NoAddr] /\ ghost' = {}
      /\ Send("RELEASE", Some, Some) /\ UNCHANGED <<expl, pkt>>
  BY DEF Crash, Ready
<1>2. nl'.op = "RELEASE" /\ nl'.at = "get" /\ ~ nl'.del
  BY <1>1 DEF Send
<1>3. ReleaseInStep'
  BY <1>1, <1>2 DEF ReleaseInStep
<1>4. InStep'
  BY <1>2, <1>3 DEF InStep
<1> QED BY <1>1, <1>4, FreshIdle

LEMMA NlGetInv ==
  ASSUME KaodvInv, NlGet
  PROVE  InStep' /\ Fresh'
<1> DEFINE at == IF nl.op = "NOROUTE" THEN "verdict" ELSE "put"
           found == expl.hop[nl.dest] # NoAddr
<1>1. /\ nl' = [nl EXCEPT !.at = at, !.found = found] /\ Scheduled
      /\ nl.op # "NONE" /\ UNCHANGED <<expl, pkt, rt, ghost>>
  BY DEF NlGet, Handler
<1>2. nl \in Message
  BY DaemonKeeps DEF KaodvInv
<1>3. /\ nl'.op = nl.op /\ nl'.dest = nl.dest /\ nl'.hop = nl.hop /\ nl'.del = nl.del
      /\ nl'.at = at /\ nl'.found = found
  <2> HIDE DEF at, found
  <2> QED BY <1>1, <1>2 DEF Message
<1>4. \A d \in Addr : Agree(d) => Agree(d)'
  BY <1>1 DEF Agree, Wanted
<1>5. nl.op = "ADDROUTE" => AddInStep'
  <2> SUFFICES ASSUME nl.op = "ADDROUTE"
               PROVE  AddInStep'
    OBVIOUS
  <2>1. AddInStep
    BY DEF KaodvInv, InStep
  <2>2. nl'.at = "put"
    BY <1>3
  <2>3. nl'.found <=> expl'.hop[nl'.dest] # NoAddr
    <3>1. nl'.found = (expl.hop[nl.dest] # NoAddr)
      BY <1>3
    <3>2. expl' = expl /\ nl'.dest = nl.dest
      BY <1>1, <1>3
    <3> QED BY <3>1, <3>2, Zenon
  <2> QED BY <1>1, <1>3, <2>1, <2>2, <2>3 DEF AddInStep
<1>6. nl.op = "DELROUTE" => DelInStep'
  BY <1>1, <1>3 DEF DelInStep, Wanted, KaodvInv, InStep
<1>7. nl.op = "RELEASE" => ReleaseInStep'
  BY <1>1, <1>3 DEF ReleaseInStep, KaodvInv, InStep
<1> HIDE DEF at, found
<1>8. InStep'
  BY <1>3, <1>4, <1>5, <1>6, <1>7 DEF KaodvInv, InStep
<1> QED BY <1>1, <1>8, FreshIdle

\* the message reaches the cache: ADDROUTE makes or changes the entry, whichever it
\* found, and DELROUTE removes it
LEMMA NlPutInv ==
  ASSUME KaodvInv, HasRoom, NlPut
  PROVE  InStep' /\ Fresh'
<1>1. /\ nl' = [nl EXCEPT !.at = "verdict"] /\ nl.at = "put" /\ Scheduled
      /\ nl.op # "NONE" /\ UNCHANGED <<pkt, rt, ghost>>
  BY DEF NlPut, Handler
<1>2. nl \in Message /\ nl.dest \in Addr /\ nl.hop \in Addr
  BY DaemonKeeps DEF KaodvInv, Message
<1>3. /\ nl'.op = nl.op /\ nl'.dest = nl.dest /\ nl'.hop = nl.hop /\ nl'.del = nl.del
      /\ nl'.at = "verdict"
  BY <1>1, <1>2 DEF Message
<1>4. expl \in Cache /\ Counts(expl) /\ expl.hop \in [Addr -> Addr \cup {NoAddr}]
  BY DEF KaodvInv, TypeInv, TypeOK, Cache
<1>5. ASSUME NEW h \in Addr \cup {NoAddr}, expl'.hop = [expl.hop EXCEPT ![nl.dest] = h],
             nl.op \in {"ADDROUTE", "DELROUTE"}
      PROVE  expl'.hop[nl.dest] = h /\ \A d \in Addr : d # nl.dest => Agree(d)'
  <2>1. expl'.hop[nl.dest] = h /\ \A d \in Addr : d # nl.dest => expl'.hop[d] = expl.hop[d]
    BY <1>2, <1>4, <1>5
  <2>2. \A d \in Addr : d # nl.dest => Agree(d)
    BY <1>5 DEF KaodvInv, InStep
  <2> QED BY <1>1, <2>1, <2>2 DEF Agree, Wanted
<1>6. CASE nl.op = "ADDROUTE"
  <2>1. AddInStep
    BY <1>6 DEF KaodvInv, InStep
  <2>2. expl'.hop = [expl.hop EXCEPT ![nl.dest] = nl.hop]
    <3>1. CASE nl.found /\ expl' = kaodv_expl_update(expl, nl.dest, nl.hop)
      BY <1>1, <1>2, <1>4, <2>1, <3>1, UpdateIs DEF AddInStep, HasRoom
    <3>2. CASE ~ nl.found /\ expl' = kaodv_expl_add(expl, nl.dest, nl.hop)
      BY <1>1, <1>2, <1>4, <2>1, <3>2, AddIs DEF AddInStep, HasRoom
    <3> QED BY <1>6, <3>1, <3>2, NlPutIs DEF KaodvInv
  <2>3. expl'.hop[nl.dest] = nl.hop /\ \A d \in Addr : d # nl.dest => Agree(d)'
    BY <1>2, <1>5, <1>6, <2>2
  <2>4. AddInStep'
    BY <1>1, <1>2, <1>3, <2>1, <2>3, KaodvAssumption DEF AddInStep
  <2>5. InStep'
    BY <1>3, <1>6, <2>3, <2>4 DEF InStep
  <2> QED BY <1>1, <2>5, FreshIdle
<1>7. CASE nl.op = "DELROUTE"
  <2>1. expl'.hop = [expl.hop EXCEPT ![nl.dest] = NoAddr]
    BY <1>2, <1>4, <1>7, NlPutIs, DelIs DEF KaodvInv
  <2>2. expl'.hop[nl.dest] = NoAddr /\ \A d \in Addr : d # nl.dest => Agree(d)'
    BY <1>5, <1>7, <2>1
  <2>3. DelInStep'
    BY <1>1, <1>3, <1>7, <2>2 DEF DelInStep, Wanted, KaodvInv, InStep
  <2>4. ~ nl.del
    BY <1>7 DEF KaodvInv, InStep
  <2>5. InStep'
    BY <1>3, <1>7, <2>2, <2>3, <2>4 DEF InStep
  <2> QED BY <1>1, <2>5, FreshIdle
<1>8. CASE nl.op = "RELEASE"
  <2>1. \A d \in Addr : expl'.hop[d] = NoAddr
    BY <1>4, <1>8, NlPutIs, FlushIs DEF KaodvInv
  <2>2. ReleaseInStep'
    BY <1>1, <1>8, <2>1 DEF ReleaseInStep, KaodvInv, InStep
  <2>3. ~ nl.del
    BY <1>8 DEF KaodvInv, InStep
  <2>4. InStep'
    BY <1>3, <1>8, <2>2, <2>3 DEF InStep
  <2> QED BY <1>1, <2>4, FreshIdle
<1> QED BY <1>1, <1>6, <1>7, <1>8, NlPutIs DEF KaodvInv, NoPut

\* the message is done, or the DELROUTE of a link break follows it
LEMMA NlDoneInv ==
  ASSUME KaodvInv, NlDone
  PROVE  InStep' /\ Fresh'
<1>1. /\ nl.at = "verdict" /\ nl.op \notin {"NONE", "RELEASE"} /\ Scheduled
      /\ UNCHANGED <<expl, pkt, rt, ghost>>
  BY DEF NlDone, Handler
<1>2. nl \in Message /\ nl.dest \in Addr
  BY DaemonKeeps DEF KaodvInv, Message
<1>3. \A d \in Addr : Agree(d) => Agree(d)'
  BY <1>1 DEF Agree, Wanted
<1>4. CASE nl.del
  <2>1. nl.op = "ADDROUTE" /\ AddInStep
    BY <1>4 DEF KaodvInv, InStep
  <2>2. nl'.op = "DELROUTE" /\ nl'.dest = nl.dest /\ nl'.at = "get" /\ ~ nl'.del
    BY <1>4 DEF NlDone, Send
  <2>3. DelInStep'
    BY <1>1, <1>4, <2>1, <2>2 DEF AddInStep, DelInStep, Wanted
  <2>4. \A d \in Addr : d # nl.dest => Agree(d)'
    BY <1>3, <2>1 DEF KaodvInv, InStep
  <2>5. InStep'
    BY <2>2, <2>3, <2>4 DEF InStep
  <2> QED BY <1>1, <2>5, FreshIdle
<1>5. CASE ~ nl.del
  <2>1. nl'.op = "NONE" /\ ~ nl'.del
    BY <1>2, <1>5 DEF NlDone, Message
  <2>2. Agree(nl.dest)
    <3>1. CASE nl.op = "ADDROUTE"
      <4>1. AddInStep
        BY <3>1 DEF KaodvInv, InStep
      <4>2. nl.hop # NoAddr
        BY <1>2, KaodvAssumption DEF Message
      <4> QED BY <1>1, <1>5, <4>1, <4>2 DEF AddInStep, Agree, Wanted
    <3>2. CASE nl.op = "DELROUTE"
      BY <1>1, <3>2 DEF KaodvInv, InStep, DelInStep, Agree
    <3>3. CASE nl.op = "NOROUTE"
      BY <1>2, <3>3 DEF KaodvInv, InStep
    <3> QED BY <1>1, <1>2, <3>1, <3>2, <3>3 DEF Message
  <2>3. \A d \in Addr : d # nl.dest => Agree(d)
    BY <1>1, <1>2 DEF KaodvInv, InStep, Message
  <2>4. InStep'
    BY <1>3, <2>1, <2>2, <2>3 DEF InStep
  <2> QED BY <1>1, <2>4, FreshIdle
<1> QED BY <1>4, <1>5

LEMMA NlFlushInv ==
  ASSUME KaodvInv, NlFlush
  PROVE  InStep' /\ Fresh'
<1>1. /\ nl.at = "verdict" /\ nl.op = "RELEASE" /\ Scheduled /\ nl' = [nl EXCEPT !.op = "NONE"]
      /\ pkt' = [p \in Packet |-> IF p \in queue THEN [pkt[p] EXCEPT !.at = "freed"] ELSE pkt[p]]
      /\ UNCHANGED <<expl, rt, ghost>>
  BY DEF NlFlush, Handler
<1>2. nl'.op = "NONE" /\ nl'.del = nl.del
  BY <1>1, DaemonKeeps DEF KaodvInv, Message
<1>3. ReleaseInStep /\ ~ nl.del
  BY <1>1 DEF KaodvInv, InStep
<1>4. \A d \in Addr : Agree(d)'
  BY <1>1, <1>3 DEF ReleaseInStep, Agree, Wanted
<1>5. InStep'
  BY <1>2, <1>3, <1>4 DEF InStep
<1>6. ASSUME NEW q \in Packet, pkt'[q].at = "write" PROVE pkt'[q] = pkt[q]
  <2>1. pkt[q] \in Pkt
    BY DEF KaodvInv, TypeInv, TypeOK
  <2>2. [pkt[q] EXCEPT !.at = "freed"].at = "freed"
    BY <2>1 DEF Pkt
  <2> QED BY <1>1, <1>6, <2>2
<1> QED BY <1>1, <1>5, <1>6, FreshIdle

LEMMA NextKaodvInv ==
  ASSUME KaodvInv, HasRoom, [Next]_vars
  PROVE  KaodvInv'
<1>1. TypeInv' /\ NoPut'
  BY NextType, NextNoPut DEF KaodvInv
<1> SUFFICES InStep' /\ Fresh'
  BY <1>1 DEF KaodvInv
<1>2. CASE \E p \in Packet : QueueCheck(p) \/ RouteReq(p) \/ Enqueue(p) \/ Forward(p)
  BY <1>1, <1>2, OtherHooks, OtherHooksInv DEF KaodvInv
<1>3. CASE \E p \in Packet : RefreshGet(p)
  BY <1>1, <1>3, RefreshGetInv
<1>4. CASE \E p \in Packet : RefreshPut(p)
  BY <1>1, <1>4, RefreshPutInv
<1>5. CASE \E p \in Packet : NlVerdict(p)
  BY <1>5, NlVerdictInv
<1>6. CASE \E p \in Packet, d \in Addr : LocalOut(p, d)
  BY <1>1, <1>6, OtherHooks, OtherHooksInv DEF KaodvInv
<1>7. CASE \E p \in Packet, s \in Addr, d \in Addr \cup {NoAddr} : PreRouting(p, s, d)
  BY <1>1, <1>7, OtherHooks, OtherHooksInv DEF KaodvInv
<1>8. CASE \E d \in Addr : DaemonRouteReq(d) \/ DaemonSameRoute(d)
  BY <1>8, SilentInv DEF DaemonRouteReq, DaemonSameRoute
<1>9. CASE \E d \in Addr : DaemonGiveUp(d)
  BY <1>9, DaemonGiveUpInv
<1>10. CASE \E d \in Addr : DaemonDelRoute(d) \/ DaemonExpire(d)
  BY <1>10, DelRouteInv DEF DaemonDelRoute, DaemonExpire
<1>11. ASSUME NEW d \in Addr, NEW hop \in Addr, DaemonAddRoute(d, hop)
       PROVE  InStep' /\ Fresh'
  <2>1. /\ Ready /\ rt' = [rt EXCEPT ![d] = hop] /\ UNCHANGED <<expl, pkt>>
        /\ ghost' = IF FALSE THEN ghost \cup {d} ELSE ghost \ {d}
        /\ nl' = [op |-> "ADDROUTE", dest |-> d, hop |-> hop, at |-> "get", found |-> FALSE,
                  del |-> FALSE]
    BY <1>11 DEF DaemonAddRoute, Send
  <2> QED BY <2>1, AddRouteInv
<1>12. ASSUME NEW d \in Addr, NEW hop \in Addr, DaemonDemote(d, hop)
       PROVE  InStep' /\ Fresh'
  <2>1. /\ Ready /\ rt' = [rt EXCEPT ![d] = hop] /\ UNCHANGED <<expl, pkt>>
        /\ ghost' = IF TRUE THEN ghost \cup {d} ELSE ghost \ {d}
        /\ nl' = [op |-> "ADDROUTE", dest |-> d, hop |-> hop, at |-> "get", found |-> FALSE,
                  del |-> TRUE]
    BY <1>12 DEF DaemonDemote
  <2> QED BY <2>1, AddRouteInv
<1>13. CASE NlGet \/ NlPut \/ NlDone \/ NlFlush
  BY <1>13, NlGetInv, NlPutInv, NlDoneInv, NlFlushInv
<1>14. CASE Crash
  BY <1>14, CrashInv
<1>15. CASE Start \/ UNCHANGED vars
  BY <1>15, SilentInv DEF Start, vars
<1> QED BY <1>2, <1>3, <1>4, <1>5, <1>6, <1>7, <1>8, <1>9, <1>10, <1>11, <1>12, <1>13, <1>14,
           <1>15 DEF Next, HookStep

LEMMA InitKaodvInv ==
  ASSUME Init
  PROVE  KaodvInv
<1>1. TypeInv /\ NoPut
  BY InitType
<1>2. nl.op = "NONE" /\ ~ nl.del /\ \A d \in Addr : expl.hop[d] = NoAddr /\ rt[d] = NoAddr
  BY DEF Init
<1>3. InStep
  BY <1>2 DEF InStep, Agree, Wanted
<1>4. Fresh
  <2>1. \A p \in Packet : pkt[p].at # "write"
    BY DEF Init
  <2> QED BY <2>1 DEF Fresh
<1> QED BY <1>1, <1>3, <1>4 DEF KaodvInv

\* While the list has room, the invariant holds.
THEOREM Invariance == Spec /\ []HasRoom => []KaodvInv
<1>1. Init => KaodvInv
  BY InitKaodvInv
<1>2. KaodvInv /\ HasRoom /\ [Next]_vars => KaodvInv'
  BY NextKaodvInv
<1> QED BY <1>1, <1>2, PTL DEF Spec

\* On any number of CPUs, as long as the list has room: between two messages of the
\* daemon the cache has an entry for exactly its routes, so a packet that refreshes an
\* entry (kaodv_update_route_timeouts) never brings back one that DELROUTE or a crash
\* of the daemon removed, and never loses one.
THEOREM EntriesFollowDaemon == Spec /\ []HasRoom => []ExplHasRoutes
<1>1. KaodvInv => ExplHasRoutes
  BY DEF KaodvInv, InStep, Agree, Wanted, ExplHasRoutes
<1> QED BY <1>1, Invariance, PTL

\* On one CPU, as long as the list has room, also the next hops are the daemon's.
THEOREM NextHopsFollowDaemon ==
  ASSUME ~ Preempt
  PROVE  Spec /\ []HasRoom => []ExplFollows
<1>1. KaodvInv => ExplFollows
  <2> SUFFICES ASSUME KaodvInv, nl.op = "NONE"
               PROVE  expl.hop = [d \in Addr |-> IF d \in ghost THEN NoAddr ELSE rt[d]]
    BY DEF ExplFollows
  <2>1. expl.hop \in [Addr -> Addr \cup {NoAddr}]
    BY DEF KaodvInv, TypeInv, TypeOK
  <2>2. \A d \in Addr : expl.hop[d] = IF d \in ghost THEN NoAddr ELSE rt[d]
    BY DEF KaodvInv, InStep, Agree, Wanted
  <2> QED BY <2>1, <2>2
<1> QED BY <1>1, Invariance, PTL

-----------------------------------------------------------------------------
(***************************************************************************)
(* When there is room: a list that never refuses an entry has as many as   *)
(* expl_len says, so it has room for a network of EXPL_MAX_LEN hosts.      *)
(***************************************************************************)
Exact(x) == Cardinality(Entries(x)) = x.len

LEMMA ExactHasRoom ==
  ASSUME Cardinality(Addr) <= EXPL_MAX_LEN, NEW x \in Cache, Exact(x)
  PROVE  x.len <= EXPL_MAX_LEN
<1>1. IsFiniteSet(Addr) /\ Entries(x) \in SUBSET Addr /\ EXPL_MAX_LEN \in Nat
  BY KaodvAssumption DEF Entries
<1>2. Cardinality(Entries(x)) <= Cardinality(Addr)
  BY <1>1, FS_Subset
<1>3. Cardinality(Addr) \in Nat /\ Cardinality(Entries(x)) \in Nat
  BY <1>1, EntriesFinite, FS_CardinalityType
<1> QED BY <1>1, <1>2, <1>3 DEF Exact

LEMMA AddExact ==
  ASSUME NEW x \in Cache, NEW d \in Addr, NEW hop \in Addr, Exact(x), x.len <= EXPL_MAX_LEN
  PROVE  Exact(kaodv_expl_add(x, d, hop))
<1> DEFINE y == kaodv_expl_add(x, d, hop)
           h == [x.hop EXCEPT ![d] = hop]
<1>1. CASE x.hop[d] # NoAddr
  BY <1>1 DEF kaodv_expl_add
<1>2. CASE x.hop[d] = NoAddr
  <2>1. x.len \in Nat /\ EXPL_MAX_LEN \in Nat /\ ~ x.len > EXPL_MAX_LEN
    BY KaodvAssumption DEF Cache
  <2>2. y = [hop |-> h, len |-> x.len + 1]
    BY <1>2, <2>1 DEF kaodv_expl_add
  <2>3. h[d] = hop /\ hop # NoAddr /\ \A a \in Addr : a # d => h[a] = x.hop[a]
    BY KaodvAssumption DEF Cache
  <2> HIDE DEF h, y
  <2>4. y.hop = h /\ y.len = x.len + 1
    BY <2>2
  <2>5. Entries(y) = Entries(x) \cup {d} /\ d \notin Entries(x)
    BY <1>2, <2>3, <2>4 DEF Entries
  <2>6. IsFiniteSet(Entries(x))
    BY EntriesFinite
  <2>7. Cardinality(Entries(y)) = Cardinality(Entries(x)) + 1
    BY <2>5, <2>6, FS_AddElement
  <2>8. Exact(y)
    BY <2>4, <2>7 DEF Exact
  <2> QED BY <2>8 DEF y
<1> QED BY <1>1, <1>2

LEMMA UpdateExact ==
  ASSUME NEW x \in Cache, NEW d \in Addr, NEW hop \in Addr, Exact(x), x.len <= EXPL_MAX_LEN
  PROVE  Exact(kaodv_expl_update(x, d, hop))
<1> DEFINE y == kaodv_expl_update(x, d, hop)
           h == [x.hop EXCEPT ![d] = hop]
<1>1. CASE x.hop[d] = NoAddr
  BY <1>1 DEF kaodv_expl_update
<1>2. CASE x.hop[d] # NoAddr
  <2>1. x.len \in Nat /\ EXPL_MAX_LEN \in Nat /\ ~ x.len > EXPL_MAX_LEN
    BY KaodvAssumption DEF Cache
  <2>2. y = [x EXCEPT !.hop = h]
    BY <1>2, <2>1 DEF kaodv_expl_update
  <2>3. h[d] = hop /\ hop # NoAddr /\ \A a \in Addr : a # d => h[a] = x.hop[a]
    BY KaodvAssumption DEF Cache
  <2> HIDE DEF h, y
  <2>4. y.hop = h /\ y.len = x.len
    BY <2>2 DEF Cache
  <2>5. Entries(y) = Entries(x)
    BY <1>2, <2>3, <2>4 DEF Entries
  <2> QED BY <2>4, <2>5 DEF Exact, y
<1> QED BY <1>1, <1>2

LEMMA DelExact ==
  ASSUME NEW x \in Cache, NEW d \in Addr, Exact(x)
  PROVE  Exact(kaodv_expl_del(x, d))
<1> DEFINE y == kaodv_expl_del(x, d)
           h == [x.hop EXCEPT ![d] = NoAddr]
<1>1. CASE x.hop[d] = NoAddr
  BY <1>1 DEF kaodv_expl_del
<1>2. CASE x.hop[d] # NoAddr
  <2>1. y = [hop |-> h, len |-> x.len - 1]
    BY <1>2 DEF kaodv_expl_del
  <2>2. h[d] = NoAddr /\ \A a \in Addr : a # d => h[a] = x.hop[a]
    BY DEF Cache
  <2> HIDE DEF h, y
  <2>3. y.hop = h /\ y.len = x.len - 1
    BY <2>1
  <2>4. Entries(y) = Entries(x) \ {d} /\ d \in Entries(x)
    BY <1>2, <2>2, <2>3 DEF Entries
  <2>5. IsFiniteSet(Entries(x))
    BY EntriesFinite
  <2>6. Cardinality(Entries(y)) = Cardinality(Entries(x)) - 1
    BY <2>4, <2>5, FS_RemoveElement
  <2> QED BY <2>3, <2>6 DEF Exact, y
<1> QED BY <1>1, <1>2

LEMMA FlushExact ==
  ASSUME NEW x \in Cache, Exact(x)
  PROVE  Exact(kaodv_expl_flush(x))
<1> DEFINE y == kaodv_expl_flush(x)
           h == [d \in Addr |-> NoAddr]
<1>1. y = [hop |-> h, len |-> x.len - Cardinality(Entries(x))]
  BY DEF kaodv_expl_flush, Entries
<1>2. \A d \in Addr : h[d] = NoAddr
  OBVIOUS
<1> HIDE DEF h, y
<1>3. y.hop = h /\ y.len = x.len - Cardinality(Entries(x))
  BY <1>1
<1>4. Entries(y) = {} /\ x.len \in Nat
  BY <1>2, <1>3 DEF Entries, Cache
<1>5. y.len = 0
  BY <1>3, <1>4 DEF Exact
<1> QED BY <1>4, <1>5, FS_EmptySet DEF Exact, y

LEMMA NextExact ==
  ASSUME Cardinality(Addr) <= EXPL_MAX_LEN, TypeInv, NoPut, Exact(expl), [Next]_vars
  PROVE  Exact(expl)'
<1>1. expl \in Cache /\ expl.len <= EXPL_MAX_LEN
  <2>1. expl \in Cache
    BY DEF TypeInv, TypeOK, Cache
  <2> QED BY <2>1, ExactHasRoom
<1>2. CASE UNCHANGED expl
  BY <1>2 DEF Exact, Entries
<1>3. CASE NlPut
  <2>1. nl.dest \in Addr /\ nl.hop \in Addr /\ nl.at = "put"
    BY <1>3, DaemonKeeps DEF Message, NlPut, Handler
  <2>2. CASE expl' = kaodv_expl_update(expl, nl.dest, nl.hop)
    BY <1>1, <2>1, <2>2, UpdateExact
  <2>3. CASE expl' = kaodv_expl_add(expl, nl.dest, nl.hop)
    BY <1>1, <2>1, <2>3, AddExact
  <2>4. CASE expl' = kaodv_expl_del(expl, nl.dest)
    BY <1>1, <2>1, <2>4, DelExact
  <2>5. CASE expl' = kaodv_expl_flush(expl)
    BY <1>1, <2>5, FlushExact
  <2> QED BY <1>3, <2>1, <2>2, <2>3, <2>4, <2>5, NlPutIs DEF NoPut
<1>4. ASSUME NEW p \in Packet, RefreshPut(p)
      PROVE  Exact(expl)'
  <2> DEFINE a == pkt[p].keys[1].addr
             e == pkt[p].e
  <2>1. expl' = kaodv_expl_update(expl, a, e) /\ pkt[p].at = "write"
    BY <1>4 DEF RefreshPut
  <2>2. pkt[p].keys \in Seq(Key) /\ pkt[p].keys # <<>> /\ e \in Addr
    BY <2>1 DEF TypeInv, TypeOK, Copies, Pkt
  <2>3. a \in Addr
    <3>1. pkt[p].keys[1] \in Key
      BY <2>2
    <3> QED BY <3>1 DEF Key
  <2> HIDE DEF a, e
  <2> QED BY <1>1, <2>1, <2>2, <2>3, UpdateExact
<1>5. CASE \E p \in Packet : QueueCheck(p) \/ RouteReq(p) \/ Enqueue(p) \/ Forward(p) \/ RefreshGet(p)
  BY <1>2, <1>5 DEF QueueCheck, RouteReq, Enqueue, Forward, RefreshGet
<1>6. CASE \E p \in Packet : NlVerdict(p)
  BY <1>2, <1>6 DEF NlVerdict
<1>7. CASE \/ \E p \in Packet, d \in Addr : LocalOut(p, d)
           \/ \E p \in Packet, s \in Addr, d \in Addr \cup {NoAddr} : PreRouting(p, s, d)
  BY <1>2, <1>7 DEF LocalOut, PreRouting
<1>8. CASE \E d \in Addr : \/ DaemonRouteReq(d) \/ DaemonGiveUp(d)
                           \/ DaemonDelRoute(d) \/ DaemonExpire(d) \/ DaemonSameRoute(d)
  BY <1>2, <1>8 DEF DaemonRouteReq, DaemonGiveUp, DaemonDelRoute, DaemonExpire, DelRoute,
                    DaemonSameRoute
<1>9. CASE \E d, hop \in Addr : DaemonAddRoute(d, hop) \/ DaemonDemote(d, hop)
  BY <1>2, <1>9 DEF DaemonAddRoute, DaemonDemote
<1>10. CASE NlGet \/ NlDone \/ NlFlush \/ Crash \/ Start \/ UNCHANGED vars
  BY <1>2, <1>10 DEF NlGet, NlDone, NlFlush, Crash, Start, vars
<1> QED BY <1>3, <1>4, <1>5, <1>6, <1>7, <1>8, <1>9, <1>10 DEF Next, HookStep

\* In a network of no more hosts than EXPL_MAX_LEN the list never refuses an entry:
\* expl_len is then the number of its entries, however refreshes and deletions race.
THEOREM RoomForAll ==
  ASSUME Cardinality(Addr) <= EXPL_MAX_LEN
  PROVE  Spec => []HasRoom
<1>1. Init => TypeInv /\ NoPut /\ Exact(expl)
  <2> SUFFICES ASSUME Init PROVE TypeInv /\ NoPut /\ Exact(expl)
    OBVIOUS
  <2>1. expl.len = 0 /\ Entries(expl) = {}
    BY DEF Init, Entries
  <2> QED BY <2>1, InitType, FS_EmptySet DEF Exact
<1>2. (TypeInv /\ NoPut /\ Exact(expl)) /\ [Next]_vars => (TypeInv /\ NoPut /\ Exact(expl))'
  BY NextType, NextNoPut, NextExact
<1>3. TypeInv /\ NoPut /\ Exact(expl) => HasRoom
  <2> SUFFICES ASSUME TypeInv, Exact(expl) PROVE HasRoom
    OBVIOUS
  <2>1. expl \in Cache
    BY DEF TypeInv, TypeOK, Cache
  <2> QED BY <2>1, ExactHasRoom DEF HasRoom
<1> QED BY <1>1, <1>2, <1>3, PTL DEF Spec
=============================================================================
