------------------------- MODULE AodvNetwork_proofs -------------------------
(***************************************************************************)
(* The invariants of a network, for any hosts, any links, any number of    *)
(* events and whatever is lost.  A route is real because the messages that *)
(* made it are honest, and a message is honest because the route or the    *)
(* message it was made from is: NetInv carries both.                       *)
(***************************************************************************)
EXTENDS AodvNetwork, AodvSteps_proofs

\* What the host i knows of the network: no numbers, and routes that exist.
Real(n, i) ==
  \A d \in Addr :
    /\ n.rt[d].seqno = 0 /\ n.seek[d].dest_seqno = 0
    /\ Present(n, d) => /\ <<n.rt[d].next, i>> \in Links
                        /\ n.rt[d].hopcnt >= 1
                        /\ Walk(d, n.rt[d].next, n.rt[d].hopcnt - 1)

\* What a message that the host i sends says of the network.
Honest(q, i) ==
  /\ q.type = "RREQ" => /\ Walk(q.orig, i, q.hopcnt) /\ (q.hopcnt = 0 <=> q.orig = i)
                        /\ q.dest_seqno = 0 /\ q.orig_seqno = 0
  /\ q.type = "RREP" => /\ Walk(q.dest, i, q.hopcnt) /\ (q.hopcnt = 0 <=> q.dest = i)
                        /\ q.dest_seqno = 0 /\ q.lifetime = "POS"
  /\ q.type = "RERR" => \A d \in Addr : q.seqno[d] = 0

\* Only what was built is sent, and no RREP is broadcast: no host sends HELLOs.
Sayable(s, i) ==
  Honest(s.msg, i) /\ s.msg.type # "NONE" /\ (s.msg.type = "RREP" => s.to # BCast)

Speaks(n, i) ==
  n.seqno = 0 /\ Honest(n.send_buf, i) /\ \A s \in n.out : Sayable(s, i)

Truth(n, i) ==
  n \in Node /\ n.ip = i /\ ~Present(n, i) /\ Real(n, i) /\ Speaks(n, i)

\* What is on its way left a neighbour that may say it.
Carried(p) ==
  /\ <<p.from, p.to>> \in Links /\ Honest(p.msg, p.from)
  /\ p.msg.type # "NONE" /\ (p.msg.type = "RREP" => ~p.bcast)

NetInv ==
  /\ TypeOK
  /\ \A i \in Addr : Good(node[i], {}) /\ Truth(node[i], i) /\ Timed(node[i])
  /\ \A p \in medium : Carried(p)

-----------------------------------------------------------------------------
\* A host has walked to itself, and one more link makes a longer walk.
LEMMA WalkSelf == ASSUME NEW d \in Addr PROVE Walk(d, d, 0)
<1> DEFINE w == [j \in 0 .. 0 |-> d]
<1>1. w \in [0 .. 0 -> Addr] /\ w[0] = d /\ \A j \in 1 .. 0 : <<w[j - 1], w[j]>> \in Links
  OBVIOUS
<1> HIDE DEF w
<1> QED BY <1>1 DEF Walk

LEMMA WalkOn ==
  ASSUME NEW d \in Addr, NEW i \in Addr, NEW j \in Addr, NEW k \in Nat,
         Walk(d, i, k), <<i, j>> \in Links
  PROVE  Walk(d, j, k + 1)
<1>1. PICK w \in [0 .. k -> Addr] :
        w[0] = d /\ w[k] = i /\ \A x \in 1 .. k : <<w[x - 1], w[x]>> \in Links
  BY DEF Walk
<1> DEFINE v == [x \in 0 .. k + 1 |-> IF x = k + 1 THEN j ELSE w[x]]
<1>2. v \in [0 .. k + 1 -> Addr] /\ v[0] = d /\ v[k + 1] = j /\ v[k] = i
  BY <1>1
<1>3. ASSUME NEW x \in 1 .. k + 1 PROVE <<v[x - 1], v[x]>> \in Links
  <2>1. CASE x = k + 1
    BY <1>2, <2>1
  <2>2. CASE x # k + 1
    <3>1. x \in 1 .. k /\ v[x] = w[x] /\ v[x - 1] = w[x - 1]
      BY <2>2
    <3> QED BY <1>1, <3>1
  <2> QED BY <2>1, <2>2
<1> HIDE DEF v
<1> QED BY <1>2, <1>3 DEF Walk

\* Links are between different hosts.
LEMMA LinkType ==
  ASSUME NEW i, NEW j, <<i, j>> \in Links
  PROVE  i \in Addr /\ j \in Addr /\ i # j
BY NetworkAssumption

-----------------------------------------------------------------------------
(***************************************************************************)
(* Operations on the table.                                                *)
(***************************************************************************)
\* A number that is 0 stays 0.
LEMMA IncrZero == seqno_incr(0) = 0
BY DEF seqno_incr

\* What is Tame, or even Quiet, invents no route.
LEMMA TameTruth ==
  ASSUME NEW n, NEW i, Truth(n, i), NEW m \in Node, Tame(n, m), Speaks(m, i)
  PROVE  Truth(m, i)
<1>1. ASSUME NEW d \in Addr
      PROVE  /\ m.rt[d].seqno = 0 /\ m.rt[d].next = n.rt[d].next
             /\ m.rt[d].hopcnt = n.rt[d].hopcnt /\ (Present(m, d) => Present(n, d))
  <2>1. Mild(n.rt[d], m.rt[d])
    BY DEF Tame
  <2>2. n.rt[d].seqno = 0
    BY DEF Truth, Real
  <2> QED BY <2>1, <2>2, IncrZero DEF Mild, Present
<1>2. m.ip = n.ip /\ m.seek = n.seek /\ n.ip \in Addr
  BY DEF Tame, Truth, Node
<1>3. Real(m, i)
  BY <1>1, <1>2 DEF Truth, Real
<1> QED BY <1>1, <1>2, <1>3 DEF Truth

LEMMA SameSpeaks ==
  ASSUME NEW n, NEW i, Speaks(n, i), NEW m, m.seqno = n.seqno, m.send_buf = n.send_buf,
         m.out = n.out
  PROVE  Speaks(m, i)
BY DEF Speaks

\* An honest message that was built may be sent.
LEMMA SendTruth ==
  ASSUME NEW n, NEW i, Truth(n, i), n.send_buf.type # "NONE",
         NEW to \in Addr \cup {BCast}, n.send_buf.type = "RREP" => to # BCast, NEW ttl \in Int
  PROVE  Truth(aodv_socket_send(n, to, ttl), i)
<1> DEFINE s == [to |-> to, ttl |-> ttl, msg |-> n.send_buf]
           m == aodv_socket_send(n, to, ttl)
<1>1. m \in Node
  BY NodeIsGood, SocketGood DEF Truth
<1>2. Tame(n, m)
  BY SocketQuiet DEF Truth, Quiet
<1>3. m \in {n, [n EXCEPT !.out = @ \cup {s}]}
  BY DEF aodv_socket_send
<1>4. Sayable(s, i)
  BY DEF Sayable, Truth, Speaks
<1> HIDE DEF s
<1>5. m.seqno = n.seqno /\ m.send_buf = n.send_buf /\ m.out \subseteq n.out \cup {s}
  BY <1>3 DEF Truth, Node
<1> HIDE DEF m
<1>6. Speaks(m, i)
  BY <1>4, <1>5 DEF Truth, Speaks
<1> QED BY <1>1, <1>2, <1>6, TameTruth DEF m

\* An honest message may be built.
LEMMA BufferTruth ==
  ASSUME NEW n, NEW i, Truth(n, i), NEW q \in Msg, Honest(q, i)
  PROVE  LET m == [n EXCEPT !.send_buf = q] IN Truth(m, i) /\ m.send_buf = q /\ m.rt = n.rt
<1> DEFINE m == [n EXCEPT !.send_buf = q]
<1>1. m \in Node /\ Tame(n, m)
  BY NodeIsGood, BufferGood, BufferQuiet DEF Truth, Quiet
<1>2. m.send_buf = q /\ m.seqno = n.seqno /\ m.out = n.out /\ m.rt = n.rt
  BY DEF Truth, Node
<1> HIDE DEF m
<1>3. Speaks(m, i)
  BY <1>2 DEF Truth, Speaks
<1> QED BY <1>1, <1>2, <1>3, TameTruth DEF m

\* A RERR about a table without numbers is honest.
LEMMA RerrHonest ==
  ASSUME NEW n, \A d \in Addr : n.rt[d].seqno = 0, NEW L, NEW b, NEW i
  PROVE  Honest(rerr_create(n, L, b), i) /\ rerr_create(n, L, b).type = "RERR"
BY DEF rerr_create, Honest

\* Operations that change only entries, without inventing a route.
LEMMA SilentTruth ==
  ASSUME NEW n, NEW i, Truth(n, i), NEW m \in Node, Tame(n, m),
         m.seqno = n.seqno, m.send_buf = n.send_buf, m.out = n.out
  PROVE  Truth(m, i)
BY TameTruth, SameSpeaks DEF Truth

LEMMA InvalidateTruth ==
  ASSUME NEW n, NEW i, Truth(n, i), NEW D \in SUBSET Addr
  PROVE  LET m == rt_table_invalidate(n, D) IN Truth(m, i) /\ m.send_buf = n.send_buf
<1> DEFINE m == rt_table_invalidate(n, D)
<1>1. m \in Node /\ Tame(n, m)
  BY NodeIsGood, InvalidateGood, InvalidateTame DEF Truth
<1>2. m.seqno = n.seqno /\ m.send_buf = n.send_buf /\ m.out = n.out
  BY DEF Truth, Node, rt_table_invalidate
<1> HIDE DEF m
<1> QED BY <1>1, <1>2, SilentTruth DEF m

LEMMA DestroyTruth ==
  ASSUME NEW n, NEW i, Truth(n, i), NEW D
  PROVE  LET m == precursor_list_destroy(n, D) IN Truth(m, i) /\ m.send_buf = n.send_buf
<1> DEFINE m == precursor_list_destroy(n, D)
<1>1. m \in Node /\ Tame(n, m)
  BY NodeIsGood, PrecursorDestroyGood, DestroyTame DEF Truth
<1>2. m.seqno = n.seqno /\ m.send_buf = n.send_buf /\ m.out = n.out
  BY DEF Truth, Node, precursor_list_destroy
<1> HIDE DEF m
<1> QED BY <1>1, <1>2, SilentTruth DEF m

LEMMA PrecursorAddTruth ==
  ASSUME NEW n, NEW i, Truth(n, i), NEW d \in Addr, NEW a \in Addr
  PROVE  Truth(precursor_add(n, d, a), i)
<1> DEFINE m == precursor_add(n, d, a)
<1>1. m \in Node /\ Tame(n, m)
  BY NodeIsGood, PrecursorAddGood, PrecursorAddQuiet DEF Truth, Quiet
<1>2. m.seqno = n.seqno /\ m.send_buf = n.send_buf /\ m.out = n.out
  BY DEF Truth, Node, precursor_add
<1> HIDE DEF m
<1> QED BY <1>1, <1>2, SilentTruth DEF m

LEMMA KeepRouteTruth ==
  ASSUME NEW n, NEW i, Truth(n, i), NEW d \in Addr
  PROVE  LET m == KeepRoute(n, d) IN Truth(m, i) /\ m.send_buf = n.send_buf
<1> DEFINE e == rt_table_update_timeout(n.rt[d], "POS")
           m == KeepRoute(n, d)
<1>1. n \in Node /\ n.rt[d] \in Entry
  BY DEF Truth, Node
<1>2. e \in Entry
  BY <1>1 DEF rt_table_update_timeout, Entry
<1>3. m = [n EXCEPT !.rt[d] = e]
  BY <1>1 DEF KeepRoute, Node
<1>4. Tame(n, m)
  BY <1>1, KeepRouteQuiet DEF Quiet
<1> HIDE DEF e, m
<1>5. m \in Node
  BY <1>1, <1>2, <1>3, EntryGood, NodeIsGood
<1>6. m.seqno = n.seqno /\ m.send_buf = n.send_buf /\ m.out = n.out
  BY <1>1, <1>3 DEF Node
<1> QED BY <1>4, <1>5, <1>6, SilentTruth DEF m

\* One entry changes its flags.
LEMMA FlagsTruth ==
  ASSUME NEW n, NEW i, Truth(n, i), NEW d \in Addr, NEW e \in Entry,
         Mild(n.rt[d], e), e.state = n.rt[d].state
  PROVE  LET m == [n EXCEPT !.rt[d] = e] IN Truth(m, i) /\ m.send_buf = n.send_buf
<1> DEFINE m == [n EXCEPT !.rt[d] = e]
<1>1. m \in Node /\ Tame(n, m)
  BY NodeIsGood, EntryGood, EntryTame DEF Truth
<1>2. m.seqno = n.seqno /\ m.send_buf = n.send_buf /\ m.out = n.out
  BY DEF Truth, Node
<1> HIDE DEF m
<1> QED BY <1>1, <1>2, SilentTruth DEF m

\* The RERR of a link break is honest.
LEMMA TellTruth ==
  ASSUME NEW n, NEW i, Truth(n, i), NEW lost \in SUBSET Addr
  PROVE  LET m == link_break_tell(n, lost)
         IN  Truth(m, i) /\ (m.send_buf = n.send_buf \/ m.send_buf.type = "RERR")
<1> DEFINE L  == {u \in lost : n.rt[u].prec # {}}
           n1 == precursor_list_destroy(n, lost)
           q  == rerr_create(n, L, FALSE)
           k  == [n1 EXCEPT !.send_buf = q]
           to == rerr_dest(n, L)
           j  == aodv_socket_send(k, to, 1)
           m  == link_break_tell(n, lost)
<1>1. m = IF L = {} THEN n1 ELSE j
  BY DEF link_break_tell
<1> HIDE DEF m
<1>2. Truth(n1, i) /\ n1.send_buf = n.send_buf
  BY DestroyTruth
<1> HIDE DEF n1
<1>3. L \in SUBSET Addr /\ n \in Node
  BY DEF Truth
<1> HIDE DEF L
<1>4. q \in Msg /\ Honest(q, i) /\ q.type = "RERR"
  BY <1>3, RerrType, NodeIsGood, RerrHonest DEF Truth, Real
<1>5. to \in Addr \cup {BCast} /\ 1 \in Int
  BY RerrDestType
<1> HIDE DEF q, to
<1>6. Truth(k, i) /\ k.send_buf = q
  BY <1>2, <1>4, BufferTruth
<1> HIDE DEF k
<1>7. Truth(j, i)
  BY <1>4, <1>5, <1>6, SendTruth
<1>8. j.send_buf = q
  BY <1>6 DEF aodv_socket_send, Truth, Node
<1> HIDE DEF j
<1> QED BY <1>1, <1>2, <1>4, <1>7, <1>8 DEF m

LEMMA LinkBreakTruth ==
  ASSUME NEW n, NEW i, Truth(n, i), NEW d \in Addr
  PROVE  LET m == neighbor_link_break(n, d)
         IN  Truth(m, i) /\ (m.send_buf = n.send_buf \/ m.send_buf.type = "RERR")
<1> DEFINE n1   == rt_table_invalidate(n, {d})
           keep == n1.rt[d].repair
           U    == {u \in Addr \ {d} : Valid(n1, u) /\ n1.rt[u].next = d}
           R    == {u \in U : keep /\ n1.rt[u].hopcnt <= MAX_REPAIR_TTL}
           rt   == [u \in Addr |-> IF u \in R THEN [n1.rt[u] EXCEPT !.repair = TRUE]
                                              ELSE n1.rt[u]]
           n2   == [n1 EXCEPT !.rt = rt]
           n3   == rt_table_invalidate(n2, U)
           lost == (U \ R) \cup (IF keep THEN {} ELSE {d})
           m    == neighbor_link_break(n, d)
<1>1. m = IF n.rt[d].hopcnt # 1 THEN n ELSE link_break_tell(n3, lost)
  BY DEF neighbor_link_break, link_break_through
<1> HIDE DEF m
<1>2. Truth(n1, i) /\ n1.send_buf = n.send_buf
  BY InvalidateTruth
<1>3. U \in SUBSET Addr /\ lost \in SUBSET Addr
  OBVIOUS
<1> HIDE DEF n1, R
<1>4. Truth(n2, i) /\ n2.send_buf = n.send_buf
  <2>1. \A u \in Addr : n1.rt[u] \in Entry
    BY <1>2 DEF Truth, Node
  <2>2. \A e \in Entry : LET f == [e EXCEPT !.repair = TRUE]
                         IN  f \in Entry /\ Mild(e, f) /\ f.state = e.state
    BY DEF Entry, Mild
  <2>3. rt \in [Addr -> Entry] /\ \A u \in Addr : Mild(n1.rt[u], rt[u]) /\ rt[u].state = n1.rt[u].state
    BY <2>1, <2>2 DEF Mild
  <2> HIDE DEF rt
  <2>4. n2 \in Node /\ n2.send_buf = n1.send_buf /\ n2.seqno = n1.seqno /\ n2.out = n1.out
    BY <1>2, <2>3 DEF Truth, Node
  <2>5. Tame(n1, n2)
    BY <1>2, <2>3, TableTame DEF Truth
  <2> HIDE DEF n2
  <2> QED BY <1>2, <2>4, <2>5, SilentTruth
<1> HIDE DEF n2, U, lost
<1>5. Truth(n3, i) /\ n3.send_buf = n.send_buf
  BY <1>3, <1>4, InvalidateTruth
<1> HIDE DEF n3
<1>6. LET k == link_break_tell(n3, lost)
      IN  Truth(k, i) /\ (k.send_buf = n3.send_buf \/ k.send_buf.type = "RERR")
  BY <1>3, <1>5, TellTruth
<1> QED BY <1>1, <1>5, <1>6 DEF m

\* A route that is learned from a neighbour that has walked it exists.
Route(d, next, hops, i) ==
  d # i /\ Hop(d, next, hops) /\ <<next, i>> \in Links /\ Walk(d, next, hops - 1)

\* The entry for d is replaced by such a route, and d is no longer sought.
LEMMA LearnTruth ==
  ASSUME NEW n, NEW i, Truth(n, i), NEW d \in Addr, NEW e \in Entry, e.seqno = 0, d # i,
         e.state # "NONE" => /\ <<e.next, i>> \in Links /\ e.hopcnt >= 1
                             /\ Walk(d, e.next, e.hopcnt - 1),
         NEW m \in Node, m.ip = n.ip, m.rt = [n.rt EXCEPT ![d] = e],
         \A u \in Addr : m.seek[u] \in {n.seek[u], NoSeek},
         m.seqno = n.seqno, m.send_buf = n.send_buf, m.out = n.out
  PROVE  Truth(m, i)
<1>1. ASSUME NEW u \in Addr PROVE m.rt[u] = IF u = d THEN e ELSE n.rt[u]
  BY DEF Truth, Node
<1>2. m.ip = i /\ i \in Addr
  BY DEF Truth, Node
<1>3. Real(m, i)
  <2> SUFFICES ASSUME NEW u \in Addr
               PROVE  /\ m.rt[u].seqno = 0 /\ m.seek[u].dest_seqno = 0
                      /\ Present(m, u) => /\ <<m.rt[u].next, i>> \in Links
                                          /\ m.rt[u].hopcnt >= 1
                                          /\ Walk(u, m.rt[u].next, m.rt[u].hopcnt - 1)
    BY DEF Real
  <2>1. m.seek[u].dest_seqno = 0
    <3>1. n.seek[u].dest_seqno = 0 /\ NoSeek.dest_seqno = 0
      BY DEF Truth, Real, NoSeek
    <3>2. m.seek[u] = n.seek[u] \/ m.seek[u] = NoSeek
      OBVIOUS
    <3> QED BY <3>1, <3>2
  <2>2. CASE u = d
    BY <1>1, <2>1, <2>2 DEF Present
  <2>3. CASE u # d
    <3>1. m.rt[u] = n.rt[u]
      BY <1>1, <2>3
    <3> QED BY <2>1, <3>1 DEF Truth, Real, Present
  <2> QED BY <2>2, <2>3
<1>4. ~Present(m, i)
  BY <1>1, <1>2 DEF Truth, Present
<1>5. Speaks(m, i)
  BY SameSpeaks DEF Truth
<1> QED BY <1>2, <1>3, <1>4, <1>5 DEF Truth

LEMMA InsertTruth ==
  ASSUME NEW n, NEW i, Truth(n, i), NEW d \in Addr, NEW next, NEW hops,
         Route(d, next, hops, i), NEW life \in Life
  PROVE  LET m == rt_table_insert(n, d, next, hops, 0, life)
         IN  Truth(m, i) /\ m.send_buf = n.send_buf
<1> DEFINE a == (life = "POS")
           e == [NoEntry EXCEPT !.state = "VALID", !.next = next, !.hopcnt = hops,
                                !.seqno = 0, !.armed = a]
           m == rt_table_insert(n, d, next, hops, 0, life)
<1>1. 0 \in Seqno /\ next \in Addr /\ hops \in Nat /\ hops >= 1 /\ n \in Node
  BY U32Assumption DEF Route, Hop, Seqno, Truth
<1>2. m \in Node
  BY <1>1, InsertGood, NodeIsGood DEF Route
<1>3. a \in BOOLEAN
  OBVIOUS
<1> HIDE DEF a
<1>4. e \in Entry /\ e.seqno = 0 /\ e.state = "VALID" /\ e.next = next /\ e.hopcnt = hops
  BY <1>1, <1>3 DEF NoEntry, Entry
<1>5. m.rt = [n.rt EXCEPT ![d] = e]
  BY <1>1 DEF rt_table_insert, Node, a
<1>6. /\ m.ip = n.ip /\ m.seqno = n.seqno /\ m.send_buf = n.send_buf /\ m.out = n.out
      /\ \A u \in Addr : m.seek[u] \in {n.seek[u], NoSeek}
  BY <1>1 DEF rt_table_insert, Node
<1> HIDE DEF e, m
<1>7. Truth(m, i)
  BY <1>1, <1>2, <1>4, <1>5, <1>6, LearnTruth DEF Route
<1> QED BY <1>6, <1>7 DEF m

LEMMA DeleteTruth ==
  ASSUME NEW n, NEW i, Good(n, {}), Truth(n, i), NEW d \in Addr, Present(n, d)
  PROVE  Truth(rt_table_delete(n, d), i)
<1> DEFINE m == rt_table_delete(n, d)
<1>1. m \in Node /\ n \in Node
  BY DeleteGood DEF Good
<1>2. m.rt = [n.rt EXCEPT ![d] = NoEntry] /\ m.seek = n.seek
      /\ m.ip = n.ip /\ m.seqno = n.seqno /\ m.send_buf = n.send_buf /\ m.out = n.out
  BY <1>1 DEF rt_table_delete, Node
<1> HIDE DEF m
<1>3. NoEntry \in Entry /\ NoEntry.seqno = 0 /\ NoEntry.state = "NONE" /\ d # i
  BY NoEntrySound DEF NoEntry, Truth
<1> HIDE DEF m
<1>4. Truth(m, i)
  BY <1>1, <1>2, <1>3, LearnTruth
<1> QED BY <1>4 DEF m

\* A change of what the table and the messages do not depend on.
LEMMA SameTruth ==
  ASSUME NEW n, NEW i, Truth(n, i), NEW m \in Node, m.ip = n.ip, m.rt = n.rt,
         \A u \in Addr : m.seek[u].dest_seqno = 0,
         m.seqno = n.seqno, m.send_buf = n.send_buf, m.out = n.out
  PROVE  Truth(m, i)
<1>1. Real(m, i) /\ ~Present(m, i)
  BY DEF Truth, Real, Present
<1>2. Speaks(m, i)
  BY SameSpeaks DEF Truth
<1> QED BY <1>1, <1>2 DEF Truth

LEMMA UpdateTruth ==
  ASSUME NEW n, NEW i, Good(n, {}), Truth(n, i), NEW d \in Addr, Present(n, d),
         NEW next, NEW hops, Route(d, next, hops, i), NEW life \in Life
  PROVE  Truth(rt_table_update(n, d, next, hops, 0, life), i)
<1> DEFINE a  == update_kernel(n, d, next, hops)
           f  == [a.rt[d] EXCEPT !.hello = FALSE]
           h  == [a EXCEPT !.rt[d] = f]
           n1 == update_link(a, d, hops)
           e  == update_entry(n1.rt[d], n.rt[d], next, hops, 0, life)
           m  == rt_table_update(n, d, next, hops, 0, life)
<1>1. n.rt[d] \in Entry /\ n \in Node /\ 0 \in Seqno /\ Hop(d, next, hops)
  BY U32Assumption DEF Truth, Node, Seqno, Route
<1>2. a \in Node /\ Truth(a, i)
  <2> DEFINE ex == [n.expl EXCEPT ![d] = next]
             nl == n.nl \cup {nl_send_add_route_msg(d, next, hops)}
             c  == (n.num_active + 1) % U32
  <2>1. c \in Seqno
    BY <1>1, ModType DEF Node, Seqno
  <2>2. nl \in SUBSET NlMsg
    BY <1>1, NlType DEF Node, Hop
  <2>3. ex \in [Addr -> Addr \cup {NoAddr}]
    BY <1>1 DEF Node, Hop
  <2>4. \/ a = [n EXCEPT !.expl = ex, !.nl = nl, !.num_active = c]
        \/ a = [n EXCEPT !.expl = ex, !.nl = nl]
        \/ a = n
    BY <1>1 DEF update_kernel, Node
  <2> HIDE DEF ex, nl, a, c
  <2>5. /\ a \in Node /\ a.rt = n.rt /\ a.ip = n.ip /\ a.seek = n.seek
        /\ a.seqno = n.seqno /\ a.send_buf = n.send_buf /\ a.out = n.out
    BY <1>1, <2>1, <2>2, <2>3, <2>4 DEF Node
  <2>6. \A u \in Addr : a.seek[u].dest_seqno = 0
    BY <2>5 DEF Truth, Real
  <2> QED BY <2>5, <2>6, SameTruth
<1>3. m = [n1 EXCEPT !.rt[d] = e, !.seek[d] = NoSeek]
  BY DEF rt_table_update
<1>4. Truth(n1, i)
  <2> HIDE DEF a
  <2>1. CASE hops > 1 /\ a.rt[d].hopcnt = 1
    <3>1. f \in Entry /\ Mild(a.rt[d], f) /\ f.state = a.rt[d].state
      <4>1. a.rt[d] \in Entry
        BY <1>2 DEF Node
      <4> QED BY <4>1 DEF Entry, Mild
    <3> HIDE DEF f
    <3>2. Truth(h, i)
      BY <1>2, <3>1, FlagsTruth
    <3>3. n1 = neighbor_link_break(h, d)
      BY <2>1 DEF update_link, f
    <3> HIDE DEF h, n1
    <3> QED BY <3>2, <3>3, LinkBreakTruth
  <2>2. CASE ~(hops > 1 /\ a.rt[d].hopcnt = 1)
    BY <1>2, <2>2 DEF update_link
  <2> QED BY <2>1, <2>2
<1> HIDE DEF a, n1
<1>5. m \in Node
  BY <1>1, UpdateGood DEF Good
<1>6. Learned(m.rt[d], next, hops, 0)
  BY <1>1, UpdateEffect
<1>7. n1 \in Node
  BY <1>4 DEF Truth
<1> HIDE DEF e
<1>8. m.rt = [n1.rt EXCEPT ![d] = e] /\ m.rt[d] = e
  BY <1>3, <1>7 DEF Node
<1>9. /\ m.ip = n1.ip /\ m.seqno = n1.seqno /\ m.send_buf = n1.send_buf /\ m.out = n1.out
      /\ \A u \in Addr : m.seek[u] \in {n1.seek[u], NoSeek}
  BY <1>3, <1>7 DEF Node
<1> HIDE DEF m
<1>10. e \in Entry /\ e.seqno = 0 /\ e.next = next /\ e.hopcnt = hops
  BY <1>5, <1>6, <1>8 DEF Node, Learned
<1>11. d # i /\ <<e.next, i>> \in Links /\ e.hopcnt >= 1 /\ Walk(d, e.next, e.hopcnt - 1)
  BY <1>10 DEF Route, Hop
<1>12. Truth(m, i)
  BY <1>4, <1>5, <1>8, <1>9, <1>10, <1>11, LearnTruth
<1> QED BY <1>12 DEF m

\* The sender of a message is a neighbour.
LEMMA NeighborAddTruth ==
  ASSUME NEW n, NEW i, Good(n, {}), Truth(n, i), NEW src \in Addr, <<src, i>> \in Links
  PROVE  Truth(neighbor_add(n, src), i)
<1>1. Route(src, src, 1, i) /\ "POS" \in Life
  BY LinkType, WalkSelf DEF Route, Hop, Life
<1>2. n.rt[src].seqno = 0
  BY DEF Truth, Real
<1> QED BY <1>1, <1>2, InsertTruth, UpdateTruth DEF neighbor_add

-----------------------------------------------------------------------------
(***************************************************************************)
(* Messages that a host builds.                                            *)
(***************************************************************************)
LEMMA RreqSendTruth ==
  ASSUME NEW n, NEW i, Truth(n, i), NEW dest \in Addr, NEW ttl \in Int
  PROVE  LET m == rreq_send(n, dest, 0, ttl) IN Truth(m, i) /\ m.seek = n.seek
<1> DEFINE id == (n.rreq_id + 1) % U32
           q == [type |-> "RREQ", hopcnt |-> 0, rreq_id |-> n.rreq_id,
                 dest |-> dest, dest_seqno |-> 0, orig |-> n.ip,
                 orig_seqno |-> 0, d |-> FALSE, g |-> FALSE]
           a == [n EXCEPT !.rreq_id = id]
           k == [a EXCEPT !.send_buf = q]
           m == aodv_socket_send(k, BCast, ttl)
<1>1. n \in Node /\ n.seqno = 0 /\ n.ip = i /\ i \in Addr
  BY DEF Truth, Speaks, Node
<1>2. id \in Seqno /\ 0 \in Seqno
  BY <1>1, ModType, U32Assumption DEF Node, Seqno
<1>3. rreq_send(n, dest, 0, ttl) = m
  <2>1. rreq_create(n, dest, 0) = k
    BY <1>1, IncrZero DEF rreq_create, Node
  <2> HIDE DEF k
  <2> QED BY <2>1 DEF rreq_send
<1>4. q \in Msg
  BY <1>1, <1>2 DEF RREQ, Msg, Node
<1>5. Honest(q, i) /\ q.type = "RREQ"
  BY <1>1, WalkSelf DEF Honest
<1> HIDE DEF id, q
<1>6. Truth(a, i) /\ a.seek = n.seek
  <2>1. a \in Node /\ a.ip = n.ip /\ a.rt = n.rt /\ a.seek = n.seek
        /\ a.seqno = n.seqno /\ a.send_buf = n.send_buf /\ a.out = n.out
    BY <1>1, <1>2 DEF Node
  <2>2. \A u \in Addr : a.seek[u].dest_seqno = 0
    BY <2>1 DEF Truth, Real
  <2> HIDE DEF a
  <2> QED BY <2>1, <2>2, SameTruth
<1> HIDE DEF a
<1>7. Truth(k, i) /\ k.send_buf = q
  BY <1>4, <1>5, <1>6, BufferTruth
<1>8. BCast \in Addr \cup {BCast} /\ k.seek = n.seek
  BY <1>6 DEF Truth, Node
<1> HIDE DEF k
<1>9. Truth(m, i)
  BY <1>5, <1>7, <1>8, SendTruth
<1>10. m.seek = k.seek
  BY <1>7 DEF aodv_socket_send, Truth, Node
<1> HIDE DEF m
<1> QED BY <1>3, <1>8, <1>9, <1>10

LEMMA RequestAckTruth ==
  ASSUME NEW n, NEW i, Good(n, {}), Truth(n, i), NEW r \in Addr, Present(n, r)
  PROVE  LET m == rrep_request_ack(n, r)
         IN  Truth(m, i) /\ (m.send_buf = n.send_buf \/ m.send_buf.type = "RERR")
<1> DEFINE x  == n.rt[r].next
           g  == [n.rt[x] EXCEPT !.unidir = TRUE, !.hello = FALSE]
           k  == [n EXCEPT !.rt[x] = g]
           b  == neighbor_link_break(k, x)
           h  == [b.rt[x] EXCEPT !.ack = TRUE]
           m  == [b EXCEPT !.rt[x] = h]
<1>1. x \in Addr /\ n \in Node
  BY NextType DEF Good
<1>2. n.rt[x] \in Entry
  BY <1>1 DEF Node
<1>3. g \in Entry /\ Mild(n.rt[x], g) /\ g.state = n.rt[x].state
  BY <1>2 DEF Entry, Mild
<1>4. rrep_request_ack(n, r) \in {n, m}
  <2>1. [n EXCEPT !.rt[x].unidir = TRUE, !.rt[x].hello = FALSE] = k
    BY <1>1 DEF Node
  <2>2. m = [b EXCEPT !.rt[x].ack = TRUE]
    OBVIOUS
  <2> HIDE DEF g, k, b, m
  <2>3. \/ rrep_request_ack(n, r) = n
        \/ rrep_request_ack(n, r) = [neighbor_link_break(k, x) EXCEPT !.rt[x].ack = TRUE]
    BY <2>1 DEF rrep_request_ack
  <2> QED BY <2>2, <2>3 DEF b
<1> HIDE DEF g
<1>5. Truth(k, i) /\ k.send_buf = n.send_buf
  BY <1>1, <1>3, FlagsTruth
<1> HIDE DEF k
<1>6. Truth(b, i) /\ (b.send_buf = n.send_buf \/ b.send_buf.type = "RERR")
  BY <1>1, <1>5, LinkBreakTruth
<1> HIDE DEF b
<1>7. b.rt[x] \in Entry
  BY <1>1, <1>6 DEF Truth, Node
<1>8. h \in Entry /\ Mild(b.rt[x], h) /\ h.state = b.rt[x].state
  BY <1>7 DEF Entry, Mild
<1> HIDE DEF h
<1>9. Truth(m, i) /\ m.send_buf = b.send_buf
  BY <1>1, <1>6, <1>8, FlagsTruth
<1> HIDE DEF m, x
<1> QED BY <1>4, <1>6, <1>9

\* A RREP, or the RERR that a link break put in its place, goes to one neighbour.
LEMMA RrepSendTruth ==
  ASSUME NEW n, NEW i, Good(n, {}), Truth(n, i), n.send_buf.type # "NONE",
         NEW r \in Addr, Present(n, r)
  PROVE  Truth(rrep_send(n, r, NoAddr), i)
<1> DEFINE n1 == rrep_request_ack(n, r)
           t  == n1.rt[r].next
<1>1. rrep_send(n, r, NoAddr) = aodv_socket_send(n1, t, MAXTTL)
  BY DEF rrep_send
<1>2. Good(n1, {}) /\ Stays(n, n1)
  BY RequestAckGood
<1>3. Truth(n1, i) /\ n1.send_buf.type # "NONE"
  BY RequestAckTruth
<1> HIDE DEF n1
<1>4. t \in Addr /\ t # BCast
  BY <1>2, NextType, AddrAssumption DEF Stays
<1>5. MAXTTL \in Int
  BY DEF MAXTTL
<1> HIDE DEF t
<1> QED BY <1>1, <1>3, <1>4, <1>5, SendTruth

\* What a host knows of a route, it may tell.
LEMMA TableHonest ==
  ASSUME NEW n, NEW i, Truth(n, i), NEW f \in Addr, Present(n, f)
  PROVE  /\ Walk(f, i, n.rt[f].hopcnt) /\ n.rt[f].hopcnt \in Nat
         /\ n.rt[f].hopcnt = 0 <=> f = i
<1> DEFINE e == n.rt[f]
<1>1. /\ e \in Entry /\ e.hopcnt >= 1 /\ <<e.next, i>> \in Links
      /\ Walk(f, e.next, e.hopcnt - 1) /\ f # i
  BY DEF Truth, Real, Node
<1> HIDE DEF e
<1>2. e.hopcnt \in Nat /\ e.hopcnt - 1 \in Nat /\ (e.hopcnt - 1) + 1 = e.hopcnt
  BY <1>1 DEF Entry
<1>3. e.next \in Addr /\ i \in Addr
  BY <1>1, LinkType
<1>4. Walk(f, i, (e.hopcnt - 1) + 1)
  BY <1>1, <1>2, <1>3, WalkOn
<1> QED BY <1>1, <1>2, <1>4 DEF e

LEMMA RrepForwardTruth ==
  ASSUME NEW n, NEW i, Good(n, {}), Truth(n, i), NEW m \in RREP, m.dest_seqno = 0,
         m.lifetime = "POS", NEW r \in Addr, Present(n, r), Present(n, m.dest), NEW ttl \in Int
  PROVE  Truth(rrep_forward(n, m, r, m.dest, ttl), i)
<1> DEFINE f   == m.dest
           x   == n.rt[r].next
           ask == Present(n, x) /\ ~n.rt[x].ack
           g   == [n.rt[x] EXCEPT !.unidir = TRUE, !.ack = TRUE]
           n1  == IF ask THEN [n EXCEPT !.rt[x] = g] ELSE n
           c   == n1.rt[f].hopcnt
           q   == [m EXCEPT !.a = ask, !.hopcnt = c]
           b   == [n1 EXCEPT !.send_buf = q]
           n2  == aodv_socket_send(b, x, ttl)
           n3  == precursor_add(n2, f, x)
           y   == n2.rt[f].next
           n4  == precursor_add(n3, r, y)
           n5  == KeepRoute(n4, r)
<1>1. x \in Addr /\ n \in Node /\ x # BCast
  BY NextType, AddrAssumption DEF Good
<1>2. n.rt[x] \in Entry /\ f \in Addr
  BY <1>1 DEF Node, RREP
<1>3. g \in Entry /\ Mild(n.rt[x], g) /\ g.state = n.rt[x].state
  BY <1>2 DEF Entry, Mild
<1>4. rrep_forward(n, m, r, f, ttl) = n5
  <2>1. ask => [n EXCEPT !.rt[x].unidir = TRUE, !.rt[x].ack = TRUE] = [n EXCEPT !.rt[x] = g]
    BY <1>1 DEF Node
  <2> QED BY <2>1 DEF rrep_forward
<1>5. ask \in BOOLEAN
  BY <1>1 DEF Present, Node
<1> HIDE DEF g, ask, x
<1>6. Truth(n1, i) /\ Present(n1, f)
  <2>1. Truth(n1, i)
    BY <1>1, <1>3, FlagsTruth
  <2>2. n1.rt[f].state = n.rt[f].state
    BY <1>1, <1>2, <1>3 DEF Node
  <2> QED BY <2>1, <2>2 DEF Present
<1> HIDE DEF n1
<1>7. c \in Nat /\ Walk(f, i, c) /\ (c = 0 <=> f = i)
  BY <1>2, <1>6, TableHonest
<1> HIDE DEF c
<1>8. q \in Msg /\ q.type = "RREP" /\ Honest(q, i)
  <2>1. q \in RREP /\ q.type = "RREP" /\ q.hopcnt = c /\ q.dest = m.dest /\ q.dest_seqno = 0
        /\ q.lifetime = "POS"
    BY <1>5, <1>7 DEF RREP
  <2> HIDE DEF q
  <2> QED BY <1>7, <2>1 DEF Msg, Honest
<1> HIDE DEF q
<1>9. Truth(b, i) /\ b.send_buf = q /\ b.rt = n1.rt
  BY <1>6, <1>8, BufferTruth
<1> HIDE DEF b
<1>10. Truth(n2, i)
  BY <1>1, <1>8, <1>9, SendTruth
<1>11. n2.rt = n1.rt
  BY <1>9 DEF aodv_socket_send, Truth, Node
<1> HIDE DEF n2
<1>12. y \in Addr
  BY <1>2, <1>6, <1>11, LinkType DEF Truth, Real
<1>13. Truth(n3, i)
  BY <1>1, <1>2, <1>10, PrecursorAddTruth
<1> HIDE DEF n3, y
<1>14. Truth(n4, i)
  BY <1>12, <1>13, PrecursorAddTruth
<1> HIDE DEF n4
<1>15. Truth(n5, i)
  BY <1>14, KeepRouteTruth
<1> QED BY <1>4, <1>15

-----------------------------------------------------------------------------
(***************************************************************************)
(* Messages that a host i receives from src.                               *)
(***************************************************************************)
\* An honest RREQ shows a route to its originator.
LEMMA ReverseTruth ==
  ASSUME NEW n, NEW i, Good(n, {}), Truth(n, i), NEW m \in RREQ, NEW src \in Addr,
         <<src, i>> \in Links, Honest(m, src), m.orig # i
  PROVE  Truth(RREQ_reverse(n, m, src), i)
<1> DEFINE h == m.hopcnt + 1
<1>1. /\ m.orig \in Addr /\ m.hopcnt \in Nat /\ m.orig_seqno = 0 /\ "POS" \in Life
      /\ Walk(m.orig, src, m.hopcnt) /\ (m.hopcnt = 0 <=> m.orig = src)
  BY DEF RREQ, Honest, Life
<1>2. h \in Nat /\ h >= 1 /\ (h = 1 <=> m.hopcnt = 0) /\ h - 1 = m.hopcnt
  BY <1>1
<1>3. Route(m.orig, src, h, i)
  BY <1>1, <1>2 DEF Route, Hop
<1>4. \/ /\ ~Present(n, m.orig)
         /\ RREQ_reverse(n, m, src) = rt_table_insert(n, m.orig, src, h, 0, "POS")
      \/ /\ Present(n, m.orig)
         /\ RREQ_reverse(n, m, src) = rt_table_update(n, m.orig, src, h, 0, "POS")
      \/ RREQ_reverse(n, m, src) = n
  BY <1>1 DEF RREQ_reverse
<1> HIDE DEF h
<1> QED BY <1>1, <1>3, <1>4, InsertTruth, UpdateTruth

LEMMA AnswerTruth ==
  ASSUME NEW n, NEW i, Good(n, {}), Truth(n, i), NEW m \in RREQ, m.dest_seqno = 0,
         Present(n, m.orig)
  PROVE  Truth(RREQ_answer(n, m), i)
<1> DEFINE q == [type |-> "RREP", hopcnt |-> 0, dest |-> i, dest_seqno |-> 0,
                 orig |-> m.orig, lifetime |-> "POS", a |-> FALSE]
           b == [n EXCEPT !.send_buf = q]
<1>1. n \in Node /\ n.seqno = 0 /\ n.ip = i /\ i \in Addr /\ m.orig \in Addr
  BY DEF Truth, Speaks, Node, RREQ
<1>2. RREQ_answer(n, m) = rrep_send(b, m.orig, NoAddr)
  <2>1. [n EXCEPT !.seqno = 0] = n
    BY <1>1 DEF Node
  <2>2. rrep_create(n, 0, i, 0, m.orig, "POS") = b
    BY DEF rrep_create
  <2> HIDE DEF b
  <2> QED BY <1>1, <2>1, <2>2 DEF RREQ_answer
<1>3. q \in Msg /\ q.type = "RREP" /\ Honest(q, i)
  BY <1>1, WalkSelf, U32Assumption DEF Msg, RREP, Honest, Seqno, Life
<1> HIDE DEF q
<1>4. Good(b, {}) /\ Truth(b, i) /\ b.send_buf = q /\ b.rt = n.rt
  BY <1>3, BufferGood, BufferTruth
<1> HIDE DEF b
<1>5. Present(b, m.orig)
  BY <1>4 DEF Present
<1> QED BY <1>1, <1>2, <1>3, <1>4, <1>5, RrepSendTruth

LEMMA RreqForwardTruth ==
  ASSUME NEW n, NEW i, Truth(n, i), NEW m \in RREQ, NEW src \in Addr, <<src, i>> \in Links,
         Honest(m, src), m.orig # i, NEW ttl \in Int
  PROVE  Truth(rreq_forward(n, m, ttl), i)
<1> DEFINE q == [m EXCEPT !.dest_seqno = 0, !.hopcnt = @ + 1]
           b == [n EXCEPT !.send_buf = q]
<1>1. /\ m.orig \in Addr /\ m.hopcnt \in Nat /\ m.orig_seqno = 0 /\ m.dest_seqno = 0
      /\ Walk(m.orig, src, m.hopcnt) /\ m.dest \in Addr
  BY DEF RREQ, Honest
<1>2. n.rt[m.dest].seqno = 0 /\ n.ip = i /\ i \in Addr
  BY <1>1 DEF Truth, Real, Node
<1>3. rreq_forward(n, m, ttl) = aodv_socket_send(b, BCast, ttl)
  BY <1>1, <1>2 DEF rreq_forward
<1>4. q \in Msg /\ q.type = "RREQ" /\ Honest(q, i)
  <2>1. Walk(m.orig, i, m.hopcnt + 1)
    BY <1>1, <1>2, WalkOn
  <2>2. 0 \in Seqno /\ m.hopcnt + 1 \in Nat /\ m.hopcnt + 1 # 0
    BY <1>1, U32Assumption DEF Seqno
  <2>3. q \in RREQ /\ q.hopcnt = m.hopcnt + 1 /\ q.orig = m.orig
        /\ q.dest_seqno = 0 /\ q.orig_seqno = m.orig_seqno /\ q.type = "RREQ"
    BY <2>2 DEF RREQ
  <2> HIDE DEF q
  <2> QED BY <1>1, <2>1, <2>2, <2>3 DEF Msg, Honest
<1> HIDE DEF q
<1>5. Truth(b, i) /\ b.send_buf = q
  BY <1>4, BufferTruth
<1>6. BCast \in Addr \cup {BCast}
  OBVIOUS
<1> HIDE DEF b
<1> QED BY <1>3, <1>4, <1>5, <1>6, SendTruth

LEMMA RreqProcessTruth ==
  ASSUME NEW n, NEW i, Good(n, {}), Truth(n, i), NEW m \in RREQ, NEW src \in Addr,
         <<src, i>> \in Links, Honest(m, src), NEW ttl \in Int, NEW life
  PROVE  Truth(rreq_process(n, m, src, ttl, life), i)
<1> DEFINE R  == n.records \cup {<<m.orig, m.rreq_id>>}
           a  == [n EXCEPT !.records = R]
           n1 == RREQ_reverse(a, m, src)
           f  == n1.rt[m.dest]
           r  == rreq_process(n, m, src, ttl, life)
<1>1. \/ r = n
      \/ /\ m.orig # n.ip
         /\ \/ r = RREQ_answer(n1, m)
            \/ f.seqno # 0
            \/ r = rreq_forward(n1, m, ttl - 1)
            \/ r = n1
  BY DEF rreq_process
<1>2. n.ip = i /\ n \in Node /\ R \in SUBSET (Addr \X Seqno)
  BY DEF Truth, Node, RREQ
<1> HIDE DEF r, R
<1>3. Good(a, {}) /\ Truth(a, i)
  <2>1. Good(a, {})
    BY <1>2 DEF Good, Node
  <2>2. /\ a.ip = n.ip /\ a.rt = n.rt /\ a.seek = n.seek
        /\ a.seqno = n.seqno /\ a.send_buf = n.send_buf /\ a.out = n.out
    BY <1>2 DEF Node
  <2>3. \A u \in Addr : a.seek[u].dest_seqno = 0
    BY <2>2 DEF Truth, Real
  <2> HIDE DEF a
  <2> QED BY <2>1, <2>2, <2>3, SameTruth DEF Good
<1> HIDE DEF a
<1>4. /\ (m.hopcnt = 0 <=> src = m.orig) /\ m.dest_seqno = 0
      /\ m.dest \in Addr /\ ttl - 1 \in Int
  BY DEF Honest, RREQ
<1>5. ASSUME m.orig # i PROVE Good(n1, {}) /\ Present(n1, m.orig) /\ Truth(n1, i)
  BY <1>3, <1>4, <1>5, ReverseGood, ReverseTruth
<1> HIDE DEF n1
<1>6. m.orig # i => f.seqno = 0
  BY <1>4, <1>5 DEF Truth, Real
<1> HIDE DEF f
<1>7. Truth(r, i)
  BY <1>1, <1>2, <1>4, <1>5, <1>6, AnswerTruth, RreqForwardTruth
<1> QED BY <1>7 DEF r

\* An honest RREP shows a route to the host it is about.
LEMMA RrepProcessTruth ==
  ASSUME NEW n, NEW i, Good(n, {}), Truth(n, i), NEW m \in RREP, NEW src \in Addr,
         <<src, i>> \in Links, Honest(m, src), NEW ttl \in Int
  PROVE  Truth(rrep_process(n, m, src, ttl), i)
<1> DEFINE d   == m.dest
           h   == m.hopcnt + 1
           l   == m.lifetime
           e   == n.rt[d]
           n1  == IF ~Present(n, d) THEN rt_table_insert(n, d, src, h, 0, l)
                                    ELSE rt_table_update(n, d, src, h, 0, l)
           x   == n1.rt[d].next
           A   == [type |-> "RREP_ACK"]
           b   == [n1 EXCEPT !.send_buf = A]
           k   == aodv_socket_send(b, x, MAXTTL)
           n2  == IF m.a THEN k ELSE n1
           r   == rrep_process(n, m, src, ttl)
<1>1. /\ d \in Addr /\ l \in Life /\ m.orig \in Addr /\ m.hopcnt \in Nat /\ m.dest_seqno = 0
      /\ Walk(d, src, m.hopcnt) /\ (m.hopcnt = 0 <=> d = src) /\ 0 \in Seqno
      /\ m.lifetime = "POS"
  BY U32Assumption DEF RREP, Honest, Seqno
<1>2. h \in Nat /\ h >= 1 /\ (h = 1 <=> m.hopcnt = 0) /\ h - 1 = m.hopcnt
  BY <1>1
<1>3. d # i => Route(d, src, h, i)
  BY <1>1, <1>2 DEF Route, Hop
<1>4. n.ip = i /\ Hop(d, src, h)
  BY <1>1, <1>2 DEF Truth, Hop
<1>5. \/ r = n
      \/ /\ d # n.ip
         /\ \/ r = n2
            \/ r = RREP_repaired(n2, e, d)
            \/ Valid(n2, m.orig) /\ r = rrep_forward(n2, m, m.orig, d, ttl - 1)
  BY <1>1 DEF rrep_process, RREP_ack_send
<1> HIDE DEF r, h
<1>6. SUFFICES ASSUME d # i PROVE Truth(r, i)
  BY <1>4, <1>5 DEF r
<1>7. Good(n1, {}) /\ Present(n1, d)
  BY <1>1, <1>4, InsertGood, UpdateGood DEF Present, Valid
<1>8. Truth(n1, i)
  BY <1>1, <1>3, <1>6, InsertTruth, UpdateTruth
<1> HIDE DEF n1
<1>9. x \in Addr /\ MAXTTL \in Int /\ A \in Msg /\ A.type = "RREP_ACK" /\ Honest(A, i)
  BY <1>1, <1>7, NextType DEF MAXTTL, Msg, RREP_ack, Honest
<1> HIDE DEF x, A
<1>10. Good(b, {}) /\ Truth(b, i) /\ b.send_buf = A /\ b.rt = n1.rt
  BY <1>7, <1>8, <1>9, BufferGood, BufferTruth
<1> HIDE DEF b
<1>11. Good(k, {}) /\ Truth(k, i) /\ k.rt = n1.rt
  BY <1>9, <1>10, SocketGood, SocketSame, SendTruth
<1> HIDE DEF k
<1>12. Good(n2, {}) /\ Truth(n2, i) /\ Present(n2, d)
  BY <1>7, <1>8, <1>11 DEF Present
<1> HIDE DEF n2, e
<1>13. Truth(RREP_repaired(n2, e, d), i)
  <2> DEFINE q == rerr_create(n2, {d}, TRUE)
             c == [n2 EXCEPT !.send_buf = q]
             j == aodv_socket_send(c, BCast, 1)
  <2>1. q \in Msg /\ Honest(q, i) /\ q.type = "RERR"
    BY <1>1, <1>12, RerrType, RerrHonest DEF Truth, Real
  <2>2. RREP_repaired(n2, e, d) \in {n2, c, j}
    BY DEF RREP_repaired
  <2> HIDE DEF q
  <2>3. Truth(c, i) /\ c.send_buf = q
    BY <1>12, <2>1, BufferTruth
  <2> HIDE DEF c
  <2>4. BCast \in Addr \cup {BCast} /\ 1 \in Int
    OBVIOUS
  <2>5. Truth(j, i)
    BY <2>1, <2>3, <2>4, SendTruth
  <2> HIDE DEF j
  <2> QED BY <1>12, <2>2, <2>3, <2>5
<1>14. Valid(n2, m.orig) => Truth(rrep_forward(n2, m, m.orig, d, ttl - 1), i)
  <2>1. (Valid(n2, m.orig) => Present(n2, m.orig)) /\ ttl - 1 \in Int
    BY DEF Valid, Present
  <2> QED BY <1>1, <1>12, <2>1, RrepForwardTruth
<1> QED BY <1>4, <1>5, <1>6, <1>12, <1>13, <1>14

\* The numbers that an honest RERR brings are 0.
LEMMA RerrProcessTruth ==
  ASSUME NEW n, NEW i, Truth(n, i), NEW m \in RERR, NEW src \in Addr, Honest(m, src)
  PROVE  Truth(rerr_process(n, m, src), i)
<1> DEFINE S  == {d \in m.dests : /\ Valid(n, d) /\ n.rt[d].next = src
                                  /\ ~(Signed(n.rt[d].seqno) > Signed(m.seqno[d]))}
           n1 == IF m.n THEN n ELSE rt_table_invalidate(n, S)
           rt == [d \in Addr |-> IF d \in S THEN [n1.rt[d] EXCEPT !.seqno = m.seqno[d]]
                                            ELSE n1.rt[d]]
           n2 == [n1 EXCEPT !.rt = rt]
           L  == {d \in S : n2.rt[d].prec # {} /\ ~n2.rt[d].repair}
           to == rerr_dest(n2, L)
           n3 == precursor_list_destroy(n2, {d \in S : n2.rt[d].state = "INVALID"})
           q  == rerr_create(n2, L, m.n)
           n4 == [n3 EXCEPT !.send_buf = q]
           n5 == aodv_socket_send(n4, to, 1)
           r  == rerr_process(n, m, src)
<1>1. r \in {n3, n4, n5}
  BY DEF rerr_process
<1>2. /\ m.dests \in SUBSET Addr /\ m.n \in BOOLEAN /\ \A d \in Addr : m.seqno[d] = 0
  BY DEF RERR, Honest
<1>3. S \in SUBSET Addr /\ L \in SUBSET Addr
  BY <1>2
<1> HIDE DEF S, r
<1>4. Truth(n1, i)
  BY <1>3, InvalidateTruth
<1> HIDE DEF n1
<1>5. n1 \in Node /\ \A d \in Addr : n1.rt[d] \in Entry /\ n1.rt[d].seqno = 0
  BY <1>4 DEF Truth, Node, Real
<1>6. ASSUME NEW d \in Addr PROVE rt[d] = n1.rt[d]
  <2>1. [n1.rt[d] EXCEPT !.seqno = 0] = n1.rt[d]
    BY <1>5 DEF Entry
  <2> QED BY <1>2, <2>1
<1>7. rt = n1.rt
  BY <1>5, <1>6 DEF Node
<1>8. n2 = n1
  BY <1>5, <1>7 DEF Node
<1> HIDE DEF rt, n2, L
<1>9. Truth(n3, i)
  BY <1>4, <1>8, DestroyTruth
<1>10. q \in Msg /\ Honest(q, i) /\ q.type = "RERR"
  BY <1>2, <1>3, <1>5, <1>8, RerrType, NodeIsGood, RerrHonest
<1>11. to \in Addr \cup {BCast} /\ 1 \in Int
  BY RerrDestType
<1> HIDE DEF n3, q, to
<1>12. Truth(n4, i) /\ n4.send_buf = q
  BY <1>9, <1>10, BufferTruth
<1> HIDE DEF n4
<1>13. Truth(n5, i)
  BY <1>10, <1>11, <1>12, SendTruth
<1> HIDE DEF n5
<1>14. Truth(r, i)
  BY <1>1, <1>9, <1>12, <1>13
<1> QED BY <1>14 DEF r

\* One flag of an entry changes.
LEMMA AckTruth ==
  ASSUME NEW n, NEW i, Truth(n, i), NEW d \in Addr, NEW b \in BOOLEAN
  PROVE  Truth([n EXCEPT !.rt[d].ack = b], i)
<1> DEFINE e == [n.rt[d] EXCEPT !.ack = b]
<1>1. n.rt[d] \in Entry
  BY DEF Truth, Node
<1>2. e \in Entry /\ Mild(n.rt[d], e) /\ e.state = n.rt[d].state
  BY <1>1 DEF Entry, Mild
<1>3. [n EXCEPT !.rt[d].ack = b] = [n EXCEPT !.rt[d] = e]
  OBVIOUS
<1> HIDE DEF e
<1> QED BY <1>2, <1>3, FlagsTruth

\* Every message of a neighbour but a HELLO, which nobody sends.
LEMMA PackageTruth ==
  ASSUME NEW n, NEW i, Good(n, {}), Truth(n, i), NEW m \in Msg, NEW src \in Addr,
         <<src, i>> \in Links, Honest(m, src), m.type # "NONE", NEW to,
         m.type = "RREP" => to # BCast, NEW ttl \in Int, NEW life \in Life
  PROVE  LET r == aodv_socket_package_process(n, m, src, to, ttl, life)
         IN  Good(r, {}) /\ Truth(r, i) /\ (Timed(n) => Timed(r))
<1> DEFINE n1 == neighbor_add(n, src)
           r  == aodv_socket_package_process(n, m, src, to, ttl, life)
<1>1. m \in RREQ \cup RREP \cup RERR \cup RREP_ack
  BY DEF Msg, NoMsg
<1>2. WellFormed(m, src, to, ttl)
  BY <1>1 DEF WellFormed, Honest
<1>3. Good(r, {}) /\ (Timed(n) => Timed(r))
  <2>1. src # n.ip /\ (m.type = "RREP" => m.lifetime = "POS")
    BY LinkType DEF Truth, Honest
  <2> QED BY <1>2, <2>1, PackageGood, PackageProgress DEF Progress
<1>4. Good(n1, {}) /\ Truth(n1, i)
  BY NeighborAddGood, NeighborAddTruth
<1>5. CASE m \in RREQ
  <2>1. m.type = "RREQ"
    BY <1>5 DEF RREQ
  <2>2. r = rreq_process(n1, m, src, ttl, life)
    BY <2>1 DEF aodv_socket_package_process
  <2> HIDE DEF n1
  <2>3. Truth(rreq_process(n1, m, src, ttl, life), i)
    BY <1>4, <1>5, RreqProcessTruth
  <2> QED BY <1>3, <2>2, <2>3
<1>6. CASE m \in RREP
  <2>1. m.type = "RREP"
    BY <1>6 DEF RREP
  <2>2. r = rrep_process(n1, m, src, ttl)
    BY <2>1 DEF aodv_socket_package_process
  <2> HIDE DEF n1
  <2>3. Truth(rrep_process(n1, m, src, ttl), i)
    BY <1>4, <1>6, RrepProcessTruth
  <2> QED BY <1>3, <2>2, <2>3
<1>7. CASE m \in RERR
  <2>1. m.type = "RERR"
    BY <1>7 DEF RERR
  <2>2. r = rerr_process(n1, m, src)
    BY <2>1 DEF aodv_socket_package_process
  <2> HIDE DEF n1
  <2>3. Truth(rerr_process(n1, m, src), i)
    BY <1>4, <1>7, RerrProcessTruth
  <2> QED BY <1>3, <2>2, <2>3
<1>8. CASE m \in RREP_ack
  <2>1. m.type = "RREP_ACK"
    BY <1>8 DEF RREP_ack
  <2>2. r = rrep_ack_process(n1, src)
    BY <2>1 DEF aodv_socket_package_process
  <2> HIDE DEF n1
  <2>3. Truth(rrep_ack_process(n1, src), i)
    BY <1>4, AckTruth DEF rrep_ack_process
  <2> QED BY <1>3, <2>2, <2>3
<1> QED BY <1>1, <1>5, <1>6, <1>7, <1>8

-----------------------------------------------------------------------------
(***************************************************************************)
(* Kernel messages and timers.                                             *)
(***************************************************************************)
LEMMA DiscoveryTruth ==
  ASSUME NEW n, NEW i, Truth(n, i), NEW d \in Addr
  PROVE  Truth(rreq_route_discovery(n, d), i)
<1> DEFINE ttl == IF ~ExpandingRing THEN NET_DIAMETER
                  ELSE IF Present(n, d) THEN n.rt[d].hopcnt + TTL_INCREMENT ELSE TTL_START
           k   == KeepRoute(n, d)
           n1  == rreq_send(k, d, 0, ttl)
           s   == [dest_seqno |-> 0, ttl |-> ttl, rreq_cnt |-> 1]
           m   == [n1 EXCEPT !.seek[d] = s]
<1>1. n.rt[d] \in Entry /\ n.rt[d].seqno = 0
  BY DEF Truth, Real, Node
<1>2. ttl \in Nat /\ ttl \in Int
  BY <1>1 DEF NET_DIAMETER, TTL_INCREMENT, TTL_START, Entry
<1>3. rreq_route_discovery(n, d) \in {n, m}
  BY <1>1 DEF rreq_route_discovery
<1> HIDE DEF ttl
<1>4. Truth(k, i)
  BY KeepRouteTruth
<1> HIDE DEF k
<1>5. Truth(n1, i)
  BY <1>2, <1>4, RreqSendTruth
<1> HIDE DEF n1
<1>6. s \in Seek /\ s.dest_seqno = 0
  BY <1>2, U32Assumption DEF Seek, Seqno
<1> HIDE DEF s
<1>7. /\ m \in Node /\ m.ip = n1.ip /\ m.rt = n1.rt /\ m.seek = [n1.seek EXCEPT ![d] = s]
      /\ m.seqno = n1.seqno /\ m.send_buf = n1.send_buf /\ m.out = n1.out
  BY <1>5, <1>6 DEF Truth, Node
<1> HIDE DEF m
<1>8. \A u \in Addr : m.seek[u].dest_seqno = 0
  BY <1>5, <1>6, <1>7 DEF Truth, Real, Node
<1>9. Truth(m, i)
  BY <1>5, <1>7, <1>8, SameTruth
<1> QED BY <1>3, <1>9

LEMMA NlSendRerrTruth ==
  ASSUME NEW n, NEW i, Truth(n, i), NEW s \in Addr, NEW d \in Addr
  PROVE  Truth(nl_send_rerr(n, s, d), i)
<1> DEFINE q  == rerr_create(n, {d}, FALSE)
           b  == [n EXCEPT !.send_buf = q]
           k  == KeepRoute(b, d)
           to == IF Valid(n, s) THEN n.rt[s].next ELSE BCast
<1>1. nl_send_rerr(n, s, d) = aodv_socket_send(k, to, 1)
  BY DEF nl_send_rerr
<1>2. to \in Addr \cup {BCast} /\ 1 \in Int
  <2>1. Valid(n, s) => <<n.rt[s].next, i>> \in Links
    BY DEF Truth, Real, Valid, Present
  <2>2. Valid(n, s) => n.rt[s].next \in Addr
    BY <2>1, LinkType
  <2> QED BY <2>2
<1>3. q \in Msg /\ Honest(q, i) /\ q.type = "RERR"
  BY RerrType, NodeIsGood, RerrHonest DEF Truth, Real
<1> HIDE DEF q, to
<1>4. Truth(b, i) /\ b.send_buf = q
  BY <1>3, BufferTruth
<1> HIDE DEF b
<1>5. Truth(k, i) /\ k.send_buf = q
  BY <1>4, KeepRouteTruth
<1> HIDE DEF k
<1> QED BY <1>1, <1>2, <1>3, <1>5, SendTruth

LEMMA ExpireTimeoutTruth ==
  ASSUME NEW n, NEW i, Truth(n, i), NEW d \in Addr
  PROVE  Truth(route_expire_timeout(n, d), i)
<1> DEFINE n1 == [n EXCEPT !.rt[d].armed = FALSE]
           n2 == rt_table_invalidate(n1, {d})
<1>1. n \in Node /\ n.rt[d] \in Entry
  BY DEF Truth, Node
<1>2. Truth(n1, i)
  <2> DEFINE e == [n.rt[d] EXCEPT !.armed = FALSE]
  <2>1. /\ e \in Entry /\ e.seqno = n.rt[d].seqno /\ e.state = n.rt[d].state
        /\ e.next = n.rt[d].next /\ e.hopcnt = n.rt[d].hopcnt
    BY <1>1 DEF Entry
  <2>2. n1 = [n EXCEPT !.rt[d] = e]
    OBVIOUS
  <2> HIDE DEF e
  <2>3. /\ n1 \in Node /\ n1.ip = n.ip /\ n1.rt = [n.rt EXCEPT ![d] = e] /\ n1.seek = n.seek
        /\ n1.seqno = n.seqno /\ n1.send_buf = n.send_buf /\ n1.out = n.out
    BY <1>1, <2>1, <2>2 DEF Node
  <2> HIDE DEF n1
  <2>4. Real(n1, i) /\ ~Present(n1, i)
    <3>1. \A u \in Addr : /\ n1.rt[u].seqno = n.rt[u].seqno /\ n1.rt[u].state = n.rt[u].state
                          /\ n1.rt[u].next = n.rt[u].next /\ n1.rt[u].hopcnt = n.rt[u].hopcnt
      BY <1>1, <2>1, <2>3 DEF Node
    <3>2. i \in Addr
      BY DEF Truth, Node
    <3> QED BY <2>3, <3>1, <3>2 DEF Truth, Real, Present
  <2>5. Speaks(n1, i)
    BY <2>3, SameSpeaks DEF Truth
  <2> QED BY <2>3, <2>4, <2>5 DEF Truth
<1>3. route_expire_timeout(n, d) \in {neighbor_link_break(n1, d), precursor_list_destroy(n2, {d})}
  BY DEF route_expire_timeout
<1> HIDE DEF n1
<1>4. Truth(n2, i)
  BY <1>2, InvalidateTruth
<1> HIDE DEF n2
<1> QED BY <1>2, <1>3, <1>4, LinkBreakTruth, DestroyTruth

\* The repair has failed: the RERR that it held back is sent.
LEMMA RepairTimeoutTruth ==
  ASSUME NEW n, NEW i, Truth(n, i), NEW d \in Addr
  PROVE  Truth(local_repair_timeout(n, d), i)
<1> DEFINE nl == n.nl \cup {nl_send_del_route_msg(d, n.rt[d].next, n.rt[d].hopcnt)}
           g  == [n.rt[d] EXCEPT !.repair = FALSE]
           n1 == [n EXCEPT !.rt[d] = g, !.expl[d] = NoAddr, !.nl = nl]
           q  == rerr_create(n1, {d}, FALSE)
           b  == [n1 EXCEPT !.send_buf = q]
           to == rerr_dest(n1, {d})
           c  == aodv_socket_send(b, to, 1)
           n2 == IF n.rt[d].prec = {} THEN n1 ELSE c
           h  == [n2.rt[d] EXCEPT !.prec = {}, !.handler = "delete", !.armed = TRUE]
           m  == [n2 EXCEPT !.rt[d] = h]
<1>1. n \in Node /\ n.rt[d] \in Entry
  BY DEF Truth, Node
<1>2. local_repair_timeout(n, d) =
        [n2 EXCEPT !.rt[d].prec = {}, !.rt[d].handler = "delete", !.rt[d].armed = TRUE]
  <2>1. [n EXCEPT !.rt[d].repair = FALSE, !.expl[d] = NoAddr, !.nl = nl] = n1
    OBVIOUS
  <2> QED BY <2>1 DEF local_repair_timeout
<1>3. nl \in SUBSET NlMsg
  BY <1>1, NlType DEF Node, Entry
<1>4. /\ g \in Entry /\ g.seqno = n.rt[d].seqno /\ g.state = n.rt[d].state
      /\ g.next = n.rt[d].next /\ g.hopcnt = n.rt[d].hopcnt
  BY <1>1 DEF Entry
<1> HIDE DEF nl, g, m
<1>5. Truth(n1, i)
  <2>1. /\ n1 \in Node /\ n1.ip = n.ip /\ n1.rt = [n.rt EXCEPT ![d] = g] /\ n1.seek = n.seek
        /\ n1.seqno = n.seqno /\ n1.send_buf = n.send_buf /\ n1.out = n.out
    BY <1>1, <1>3, <1>4 DEF Node
  <2> HIDE DEF n1
  <2>2. Real(n1, i) /\ ~Present(n1, i)
    <3>1. \A u \in Addr : /\ n1.rt[u].seqno = n.rt[u].seqno /\ n1.rt[u].state = n.rt[u].state
                          /\ n1.rt[u].next = n.rt[u].next /\ n1.rt[u].hopcnt = n.rt[u].hopcnt
      BY <1>1, <1>4, <2>1 DEF Node
    <3>2. i \in Addr
      BY DEF Truth, Node
    <3> QED BY <2>1, <3>1, <3>2 DEF Truth, Real, Present
  <2>3. Speaks(n1, i)
    BY <2>1, SameSpeaks DEF Truth
  <2> QED BY <2>1, <2>2, <2>3 DEF Truth
<1> HIDE DEF n1
<1>6. q \in Msg /\ Honest(q, i) /\ q.type = "RERR"
  BY <1>5, RerrType, NodeIsGood, RerrHonest DEF Truth, Real
<1>7. to \in Addr \cup {BCast} /\ 1 \in Int
  BY RerrDestType
<1> HIDE DEF q, to
<1>8. Truth(b, i) /\ b.send_buf = q
  BY <1>5, <1>6, BufferTruth
<1> HIDE DEF b
<1>9. Truth(c, i)
  BY <1>6, <1>7, <1>8, SendTruth
<1> HIDE DEF c
<1>10. Truth(n2, i)
  BY <1>5, <1>9
<1> HIDE DEF n2
<1>11. n2.rt[d] \in Entry /\ local_repair_timeout(n, d) = m
  <2>1. n2 \in Node /\ n2.rt[d] \in Entry
    BY <1>10 DEF Truth, Node
  <2>2. [n2 EXCEPT !.rt[d].prec = {}, !.rt[d].handler = "delete", !.rt[d].armed = TRUE] = m
    BY <2>1 DEF Node, m
  <2> QED BY <1>2, <2>1, <2>2
<1>12. h \in Entry /\ Mild(n2.rt[d], h) /\ h.state = n2.rt[d].state
  BY <1>11 DEF Entry, Mild
<1> HIDE DEF h
<1>13. Truth(m, i)
  BY <1>10, <1>12, FlagsTruth DEF m
<1> QED BY <1>11, <1>13

LEMMA DiscoveryTimeoutTruth ==
  ASSUME NEW n, NEW i, Truth(n, i), NEW d \in Addr
  PROVE  Truth(route_discovery_timeout(n, d), i)
<1> DEFINE s   == n.seek[d]
           ttl == IF ~ExpandingRing THEN s.ttl
                  ELSE IF s.ttl < TTL_THRESHOLD THEN s.ttl + TTL_INCREMENT ELSE NET_DIAMETER
           nl  == n.nl \cup {nl_send_no_route_found_msg(d)}
           n1  == [n EXCEPT !.seek[d] = NoSeek, !.nl = nl]
           k   == KeepRoute(n, d)
           r   == rreq_send(k, d, 0, ttl)
           c   == s.rreq_cnt + 1
           q   == [s EXCEPT !.ttl = ttl, !.rreq_cnt = c]
           m   == [r EXCEPT !.seek[d] = q]
<1>1. s \in Seek /\ NoSeek \in Seek /\ s.dest_seqno = 0 /\ NoSeek.dest_seqno = 0 /\ n \in Node
  BY U32Assumption DEF Truth, Real, Node, NoSeek, Seek, Seqno
<1>2. \/ route_discovery_timeout(n, d) =
           [r EXCEPT !.seek[d].ttl = ttl, !.seek[d].rreq_cnt = @ + 1]
      \/ route_discovery_timeout(n, d) = local_repair_timeout(n1, d)
      \/ route_discovery_timeout(n, d) = n1
  BY <1>1 DEF route_discovery_timeout
<1>3. ttl \in Nat /\ ttl \in Int /\ c \in Nat
  BY <1>1 DEF Seek, NET_DIAMETER, TTL_INCREMENT
<1> HIDE DEF ttl
<1>4. Truth(r, i) /\ r.seek = n.seek
  <2>1. Truth(k, i)
    BY KeepRouteTruth
  <2>2. k.seek = n.seek
    BY <1>1 DEF KeepRoute, Node
  <2> HIDE DEF k
  <2> QED BY <1>3, <2>1, <2>2, RreqSendTruth
<1>5. [r EXCEPT !.seek[d].ttl = ttl, !.seek[d].rreq_cnt = @ + 1] = m
  <2> HIDE DEF r
  <2>1. r \in Node
    BY <1>4 DEF Truth
  <2> QED BY <1>1, <1>4, <2>1 DEF Node, Seek
<1> HIDE DEF r, c
<1>6. q \in Seek /\ q.dest_seqno = 0
  BY <1>1, <1>3 DEF Seek
<1> HIDE DEF q
<1>7. Truth(m, i)
  <2>1. /\ m \in Node /\ m.ip = r.ip /\ m.rt = r.rt /\ m.seek = [r.seek EXCEPT ![d] = q]
        /\ m.seqno = r.seqno /\ m.send_buf = r.send_buf /\ m.out = r.out
    BY <1>4, <1>6 DEF Truth, Node
  <2> HIDE DEF m
  <2>2. \A u \in Addr : m.seek[u].dest_seqno = 0
    BY <1>4, <1>6, <2>1 DEF Truth, Real, Node
  <2> QED BY <1>4, <2>1, <2>2, SameTruth
<1>8. Truth(n1, i)
  <2>1. nl \in SUBSET NlMsg
    BY <1>1 DEF Node, nl_send_no_route_found_msg, NlMsg
  <2> HIDE DEF nl
  <2>2. /\ n1 \in Node /\ n1.ip = n.ip /\ n1.rt = n.rt /\ n1.seek = [n.seek EXCEPT ![d] = NoSeek]
        /\ n1.seqno = n.seqno /\ n1.send_buf = n.send_buf /\ n1.out = n.out
    BY <1>1, <2>1 DEF Node
  <2> HIDE DEF n1
  <2>3. \A u \in Addr : n1.seek[u].dest_seqno = 0
    BY <1>1, <2>2 DEF Truth, Real, Node
  <2> QED BY <2>2, <2>3, SameTruth
<1> HIDE DEF n1, m
<1> QED BY <1>2, <1>5, <1>7, <1>8, RepairTimeoutTruth

LEMMA AckTimeoutTruth ==
  ASSUME NEW n, NEW i, Truth(n, i), NEW d \in Addr
  PROVE  Truth(rrep_ack_timeout(n, d), i)
<1> DEFINE a == [n EXCEPT !.rt[d].ack = FALSE]
           B == a.blacklist \cup {d}
           m == [a EXCEPT !.blacklist = B]
<1>1. Truth(a, i)
  BY AckTruth
<1>2. rrep_ack_timeout(n, d) = m
  BY DEF rrep_ack_timeout, Truth, Node
<1> HIDE DEF a
<1>3. /\ m \in Node /\ m.ip = a.ip /\ m.rt = a.rt /\ m.seek = a.seek
      /\ m.seqno = a.seqno /\ m.send_buf = a.send_buf /\ m.out = a.out
  BY <1>1 DEF Truth, Node
<1> HIDE DEF m
<1>4. \A u \in Addr : m.seek[u].dest_seqno = 0
  BY <1>1, <1>3 DEF Truth, Real
<1> QED BY <1>1, <1>2, <1>3, <1>4, SameTruth

LEMMA ListTimeoutTruth ==
  ASSUME NEW n, NEW i, Truth(n, i), NEW x
  PROVE  Truth(rreq_record_timeout(n, x), i) /\ Truth(rreq_blacklist_timeout(n, x), i)
<1>1. ASSUME NEW m \in {rreq_record_timeout(n, x), rreq_blacklist_timeout(n, x)}
      PROVE  Truth(m, i)
  <2>1. /\ m \in Node /\ m.ip = n.ip /\ m.rt = n.rt /\ m.seek = n.seek
        /\ m.seqno = n.seqno /\ m.send_buf = n.send_buf /\ m.out = n.out
    BY <1>1 DEF rreq_record_timeout, rreq_blacklist_timeout, Truth, Node
  <2>2. \A u \in Addr : m.seek[u].dest_seqno = 0
    BY <2>1 DEF Truth, Real
  <2> QED BY <2>1, <2>2, SameTruth
<1> QED BY <1>1

\* A host starts with an empty table and has said nothing.
LEMMA HostInitTruth ==
  ASSUME NEW i \in Addr
  PROVE  Good(host_init(i), {}) /\ Truth(host_init(i), i) /\ Timed(host_init(i))
<1> DEFINE n == host_init(i)
<1>1. Good(n, {})
  BY HostInitGood
<1>2. n.ip = i /\ n.seqno = 0 /\ n.send_buf.type = "NONE" /\ n.out = {}
  BY DEF host_init, NoMsg
<1>3. \A d \in Addr : /\ n.rt[d].state = "NONE" /\ n.rt[d].seqno = 0 /\ n.seek[d].dest_seqno = 0
  BY DEF host_init, NoEntry, NoSeek
<1> HIDE DEF n
<1>4. Real(n, i) /\ ~Present(n, i)
  BY <1>3 DEF Real, Present
<1>5. Speaks(n, i)
  BY <1>2 DEF Speaks, Honest
<1>6. Good(n, {}) /\ Truth(n, i) /\ Timed(n)
  BY <1>1, <1>2, <1>3, <1>4, <1>5 DEF Truth, Good, Timed, Valid
<1> QED BY <1>6 DEF n

\* The handler is over: its send buffer is of no more use.
LEMMA IdleTruth ==
  ASSUME NEW n, NEW i, Good(n, {}), Truth(n, i)
  PROVE  Good(Idle(n), {}) /\ Truth(Idle(n), i)
<1> DEFINE m == Idle(n)
<1>1. Good(m, {}) /\ m.rt = n.rt /\ m.seek = n.seek
  BY IdleGood
<1>2. m.ip = n.ip /\ m.seqno = n.seqno /\ m.send_buf.type = "NONE" /\ m.out = {}
  BY DEF Idle, Truth, Node, NoMsg
<1> HIDE DEF m
<1>3. Real(m, i) /\ ~Present(m, i)
  BY <1>1, <1>2 DEF Truth, Real, Present
<1>4. Speaks(m, i)
  BY <1>2 DEF Truth, Speaks, Honest
<1>5. Good(m, {}) /\ Truth(m, i)
  BY <1>1, <1>2, <1>3, <1>4 DEF Truth, Good
<1> QED BY <1>5 DEF m

-----------------------------------------------------------------------------
(***************************************************************************)
(* Timers of VALID routes, whoever runs.                                   *)
(***************************************************************************)
LEMMA TameTimed ==
  ASSUME NEW n, NEW m, Tame(n, m), Timed(n)
  PROVE  Timed(m)
BY DEF Tame, Mild, Timed, Valid

LEMMA SeekTimed ==
  ASSUME NEW n, Timed(n), NEW k \in Node, Quiet(n, k), NEW d, NEW q
  PROVE  Timed([k EXCEPT !.seek[d] = q])
<1> DEFINE m == [k EXCEPT !.seek[d] = q]
<1>1. m.rt = k.rt
  BY DEF Node
<1>2. Timed(k)
  BY TameTimed DEF Quiet
<1> HIDE DEF m
<1> QED BY <1>1, <1>2 DEF Timed, Valid, m

LEMMA DiscoveryTimed ==
  ASSUME NEW n, Good(n, {}), Timed(n), NEW d \in Addr
  PROVE  Timed(rreq_route_discovery(n, d))
<1>1. CASE n.seek[d].rreq_cnt = 0
  <2>1. PICK k, q : Good(k, {}) /\ Quiet(n, k) /\ rreq_route_discovery(n, d) = [k EXCEPT !.seek[d] = q]
    BY <1>1, DiscoveryQuiet
  <2>2. k \in Node
    BY <2>1 DEF Good
  <2> QED BY <2>1, <2>2, SeekTimed
<1>2. CASE n.seek[d].rreq_cnt # 0
  BY <1>2 DEF rreq_route_discovery
<1> QED BY <1>1, <1>2

LEMMA DiscoveryTimeoutTimed ==
  ASSUME NEW n, Good(n, {}), Timed(n), NEW d \in Addr
  PROVE  Timed(route_discovery_timeout(n, d))
<1> DEFINE m  == route_discovery_timeout(n, d)
           n1 == [n EXCEPT !.seek[d] = NoSeek, !.nl = @ \cup {nl_send_no_route_found_msg(d)}]
<1>1. \/ \E k, q : Good(k, {}) /\ Quiet(n, k) /\ m = [k EXCEPT !.seek[d] = q]
      \/ Quiet(n1, m)
  BY DiscoveryTimeoutQuiet
<1> HIDE DEF m
<1>2. n1.rt = n.rt
  BY DEF Good, Node
<1> HIDE DEF n1
<1>3. Timed(n1)
  BY <1>2 DEF Timed, Valid
<1>4. Timed(m)
  BY <1>1, <1>3, SeekTimed, TameTimed DEF Good, Quiet
<1> QED BY <1>4 DEF m

LEMMA TimeoutsTimed ==
  ASSUME NEW n, Good(n, {}), Timed(n), NEW d \in Addr, NEW s \in Addr, NEW x
  PROVE  /\ Valid(n, d) => Timed(route_expire_timeout(n, d))
         /\ Present(n, d) /\ ~Valid(n, d) => Timed(rt_table_delete(n, d))
         /\ Timed(nl_send_rerr(n, s, d)) /\ Timed(rrep_ack_timeout(n, d))
         /\ Timed(rreq_record_timeout(n, x)) /\ Timed(rreq_blacklist_timeout(n, x))
<1>1. n \in Node
  BY DEF Good
<1>2. Valid(n, d) => Timed(route_expire_timeout(n, d))
  BY ExpireTimeoutTame, TameTimed
<1>3. Present(n, d) /\ ~Valid(n, d) => Timed(rt_table_delete(n, d))
  BY DeleteProgress DEF Progress
<1>4. Timed(nl_send_rerr(n, s, d)) /\ Timed(rrep_ack_timeout(n, d))
  BY <1>1, NlSendRerrQuiet, AckTimeoutQuiet, TameTimed DEF Quiet
<1>5. Timed(rreq_record_timeout(n, x)) /\ Timed(rreq_blacklist_timeout(n, x))
  BY <1>1, ListTimeoutQuiet, TameTimed DEF Quiet
<1> QED BY <1>2, <1>3, <1>4, <1>5

\* What the limiter leaves of a handler's messages is honest, and the table is real.
LEMMA ReturnedTruth ==
  ASSUME NEW n, NEW i, Good(n, {}), Truth(n, i), Timed(n), NEW m \in Returned(n)
  PROVE  Good(m, {}) /\ Truth(m, i) /\ Timed(m)
<1>1. /\ Good(m, {}) /\ Tame(n, m) /\ m.seqno = n.seqno /\ m.send_buf = NoMsg
      /\ m.out \cup m.dropped = n.out
  BY ReturnedTame
<1>2. Speaks(m, i)
  BY <1>1 DEF Truth, Speaks, Honest, NoMsg
<1> QED BY <1>1, <1>2, TameTruth, TameTimed DEF Good

-----------------------------------------------------------------------------
(***************************************************************************)
(* The network.                                                            *)
(***************************************************************************)
\* What a host may say becomes datagrams that carry it.
LEMMA DeliverCarried ==
  ASSUME NEW n, NEW i, Truth(n, i), NEW p \in Deliver(i, n.out)
  PROVE  p \in Datagram /\ Carried(p)
<1>1. PICK s \in n.out, j \in Addr :
        /\ <<i, j>> \in Links /\ s.to \in {j, BCast}
        /\ p = [from |-> i, to |-> j, bcast |-> s.to = BCast, ttl |-> s.ttl, msg |-> s.msg]
  BY DEF Deliver
<1> DEFINE b == (s.to = BCast)
<1>2. b \in BOOLEAN
  OBVIOUS
<1>3. s \in Sent /\ Sayable(s, i) /\ i \in Addr
  BY DEF Truth, Speaks, Node
<1>4. b => s.to = BCast
  OBVIOUS
<1>5. p = [from |-> i, to |-> j, bcast |-> b, ttl |-> s.ttl, msg |-> s.msg]
  BY <1>1
<1> HIDE DEF b
<1>6. p \in Datagram /\ p.from = i /\ p.to = j /\ p.bcast = b /\ p.msg = s.msg
  BY <1>2, <1>3, <1>5 DEF Datagram, Sent
<1> QED BY <1>1, <1>3, <1>4, <1>6 DEF Carried, Sayable

\* A handler that ends well leaves the network well.
LEMMA RanInv ==
  ASSUME NetInv, NEW i \in Addr, NEW n, Good(n, {}), Truth(n, i), Timed(n),
         NEW rest \in SUBSET medium, Ran(i, n, rest), events' \in 0 .. EventBound
  PROVE  NetInv'
<1>1. PICK k \in Returned(n) : node' = [node EXCEPT ![i] = Idle(k)]
                               /\ medium' = rest \cup Deliver(i, k.out)
  BY DEF Ran
<1> DEFINE m == Idle(k)
<1>2. Good(k, {}) /\ Truth(k, i) /\ Timed(k)
  BY ReturnedTruth
<1>3. Good(m, {}) /\ Truth(m, i) /\ m.rt = k.rt
  BY <1>2, IdleTruth, IdleGood
<1> HIDE DEF m
<1>4. Timed(m)
  BY <1>2, <1>3 DEF Timed, Valid
<1>5. node' \in [Addr -> Node] /\ \A u \in Addr : node'[u] = IF u = i THEN m ELSE node[u]
  BY <1>1, <1>3 DEF NetInv, TypeOK, Good, m
<1>6. \A p \in medium' : p \in Datagram /\ Carried(p)
  BY <1>1, <1>2, DeliverCarried DEF NetInv, TypeOK
<1>7. \A u \in Addr : Good(node'[u], {}) /\ Truth(node'[u], u) /\ Timed(node'[u])
  BY <1>3, <1>4, <1>5 DEF NetInv
<1> QED BY <1>5, <1>6, <1>7 DEF NetInv, TypeOK

LEMMA InitInv == Init => NetInv
<1> SUFFICES ASSUME Init PROVE NetInv
  OBVIOUS
<1>1. \A i \in Addr : /\ node[i] = host_init(i) /\ Good(host_init(i), {})
                      /\ Truth(host_init(i), i) /\ Timed(host_init(i))
  BY HostInitTruth DEF Init
<1>2. node \in [Addr -> Node]
  BY <1>1 DEF Init, Good
<1>3. medium = {} /\ events \in 0 .. EventBound
  BY NetworkAssumption DEF Init
<1> QED BY <1>1, <1>2, <1>3 DEF NetInv, TypeOK

LEMMA ReceiveInv ==
  ASSUME NetInv, NEW p \in medium, Receive(p)
  PROVE  NetInv'
<1> DEFINE i  == p.to
           to == IF p.bcast THEN BCast ELSE i
           r(life) == aodv_socket_package_process(node[i], p.msg, p.from, to, p.ttl, life)
<1>1. p \in Datagram /\ Carried(p) /\ events \in 0 .. EventBound
  BY DEF NetInv, TypeOK
<1>2. /\ i \in Addr /\ p.from \in Addr /\ p.msg \in Msg /\ p.ttl \in Int
      /\ <<p.from, i>> \in Links /\ Honest(p.msg, p.from) /\ p.msg.type # "NONE"
  BY <1>1 DEF Datagram, Carried
<1>3. p.msg.type = "RREP" => to # BCast
  BY <1>1, <1>2, AddrAssumption DEF Carried
<1>4. Good(node[i], {}) /\ Truth(node[i], i) /\ Timed(node[i])
  BY <1>2 DEF NetInv
<1>5. PICK life \in Life : Ran(i, r(life), medium \ {p})
  BY DEF Receive
<1>6. events' = events
  BY DEF Receive
<1> HIDE DEF i, to
<1>7. Good(r(life), {}) /\ Truth(r(life), i) /\ Timed(r(life))
  BY <1>2, <1>3, <1>4, PackageTruth
<1> HIDE DEF r
<1>8. medium \ {p} \in SUBSET medium /\ events' \in 0 .. EventBound
  BY <1>1, <1>6
<1> QED BY <1>2, <1>5, <1>7, <1>8, RanInv

\* Timers and events keep the count of events within its bound.
LEMMA TimerCount ==
  ASSUME NetInv, Timer \/ Event
  PROVE  events' \in 0 .. EventBound
BY NetworkAssumption DEF NetInv, TypeOK, Timer, Event

LEMMA KernelInv ==
  ASSUME NetInv, NEW i \in Addr, NEW s \in Addr, NEW d \in Addr,
         KernelRouteReq(i, d) \/ KernelSendRERR(i, s, d) \/ Restart(i)
  PROVE  NetInv'
<1>1. /\ Good(node[i], {}) /\ Truth(node[i], i) /\ Timed(node[i])
      /\ medium \in SUBSET medium /\ events' \in 0 .. EventBound
  BY TimerCount DEF NetInv, KernelRouteReq, KernelSendRERR, Restart
<1>2. CASE KernelRouteReq(i, d)
  BY <1>1, <1>2, DiscoveryGood, DiscoveryTruth, DiscoveryTimed, RanInv
     DEF KernelRouteReq
<1>3. CASE KernelSendRERR(i, s, d)
  BY <1>1, <1>3, NlSendRerrGood, NlSendRerrTruth, TimeoutsTimed, RanInv
     DEF KernelSendRERR
<1>4. CASE Restart(i)
  BY <1>1, <1>4, HostInitTruth, RanInv DEF Restart
<1> QED BY <1>2, <1>3, <1>4

LEMMA TimerInv ==
  ASSUME NetInv, NEW i \in Addr, NEW d \in Addr,
         RtTimer(i, d) \/ AckTimer(i, d) \/ SeekTimer(i, d) \/ RecordTimer(i) \/ BlacklistTimer(i)
  PROVE  NetInv'
<1>1. Good(node[i], {}) /\ Truth(node[i], i) /\ Timed(node[i]) /\ medium \in SUBSET medium
  BY DEF NetInv
<1>2. events' \in 0 .. EventBound
  BY TimerCount DEF RtTimer, AckTimer, SeekTimer, RecordTimer, BlacklistTimer
<1>3. CASE RtTimer(i, d)
  <2>1. Present(node[i], d)
    BY <1>3 DEF RtTimer
  <2>2. CASE node[i].rt[d].handler = "expire"
    <3>1. Valid(node[i], d)
      <4>1. EntrySound(d, node[i].rt[d], node[i].expl[d]) /\ node[i].rt[d] \in Entry
        BY <1>1 DEF Good, Node
      <4> QED BY <2>1, <2>2, <4>1 DEF EntrySound, Entry, Present, Valid
    <3>2. Ran(i, route_expire_timeout(node[i], d), medium)
      BY <1>3, <2>2 DEF RtTimer
    <3> QED BY <1>1, <1>2, <3>1, <3>2, ExpireTimeoutGood, ExpireTimeoutTruth,
           TimeoutsTimed, RanInv
  <2>3. CASE node[i].rt[d].handler # "expire"
    <3>1. Ran(i, rt_table_delete(node[i], d), medium)
      BY <1>3, <2>3 DEF RtTimer, route_delete_timeout
    <3>2. ~Valid(node[i], d)
      BY <1>1, <2>3 DEF Good, EntrySound, Valid
    <3> QED BY <1>1, <1>2, <2>1, <3>1, <3>2, DeleteGood, DeleteTruth, TimeoutsTimed, RanInv
  <2> QED BY <2>2, <2>3
<1>4. CASE AckTimer(i, d)
  BY <1>1, <1>2, <1>4, AckTimeoutGood, AckTimeoutTruth, TimeoutsTimed, RanInv
     DEF AckTimer
<1>5. CASE SeekTimer(i, d)
  BY <1>1, <1>2, <1>5, DiscoveryTimeoutGood, DiscoveryTimeoutTruth,
     DiscoveryTimeoutTimed, RanInv DEF SeekTimer
<1>6. CASE RecordTimer(i)
  BY <1>1, <1>2, <1>6, ListTimeoutGood, ListTimeoutTruth, TimeoutsTimed, RanInv
     DEF RecordTimer
<1>7. CASE BlacklistTimer(i)
  BY <1>1, <1>2, <1>7, ListTimeoutGood, ListTimeoutTruth, TimeoutsTimed, RanInv
     DEF BlacklistTimer
<1> QED BY <1>3, <1>4, <1>5, <1>6, <1>7

LEMMA NextInv == NetInv /\ [Next]_vars => NetInv'
<1> SUFFICES ASSUME NetInv, [Next]_vars PROVE NetInv'
  OBVIOUS
<1>1. CASE UNCHANGED vars
  BY <1>1 DEF vars, NetInv, TypeOK
<1>2. ASSUME NEW p \in medium, Receive(p) PROVE NetInv'
  BY <1>2, ReceiveInv
<1>3. ASSUME NEW p \in medium, Lose(p) PROVE NetInv'
  BY <1>3 DEF Lose, NetInv, TypeOK
<1>4. ASSUME NEW f \in Flows,
             \/ KernelRouteReq(f[1], f[2])
             \/ \E i \in Addr \ {f[1], f[2]} : KernelSendRERR(i, f[1], f[2])
      PROVE  NetInv'
  <2>1. f[1] \in Addr /\ f[2] \in Addr
    BY NetworkAssumption
  <2> QED BY <1>4, <2>1, KernelInv
<1>5. ASSUME NEW i \in Addr, NEW d \in Addr, RtTimer(i, d) \/ AckTimer(i, d) \/ SeekTimer(i, d)
      PROVE  NetInv'
  BY <1>5, TimerInv
<1>6. ASSUME NEW i \in Addr, RecordTimer(i) \/ BlacklistTimer(i) \/ Restart(i)
      PROVE  NetInv'
  BY <1>6, TimerInv, KernelInv
<1> QED BY <1>1, <1>2, <1>3, <1>4, <1>5, <1>6 DEF Next

-----------------------------------------------------------------------------
\* Whatever handlers run, whatever is lost, overtaken or restarted, the tables are
\* real and the messages honest.
THEOREM Invariance == Spec => []NetInv
BY InitInv, NextInv, PTL DEF Spec

\* Every host and every datagram keeps its type (the state of main.c, aodv_rreq.c,
\* aodv_rrep.c, aodv_rerr.c on each host, and what aodv_socket.c sends).
THEOREM TypeCorrect == Spec => []TypeOK
<1>1. NetInv => TypeOK
  BY DEF NetInv
<1> QED BY <1>1, Invariance, PTL

\* No sequence number ever leaves 0: this_host.seqno starts with 0, seqno_incr keeps
\* it, and every other number in a table or a message was copied from one of them.
THEOREM NumbersStayZero == Spec => []SeqnosZero
<1>1. NetInv => SeqnosZero
  <2> SUFFICES ASSUME NetInv PROVE SeqnosZero
    OBVIOUS
  <2>1. \A i, d \in Addr : node[i].seqno = 0 /\ node[i].rt[d].seqno = 0
    BY DEF NetInv, Truth, Real, Speaks
  <2>2. ASSUME NEW p \in medium
        PROVE  CASE p.msg.type = "RREQ" -> p.msg.dest_seqno = 0 /\ p.msg.orig_seqno = 0
                 [] p.msg.type = "RREP" -> p.msg.dest_seqno = 0
                 [] p.msg.type = "RERR" -> \A d \in Addr : p.msg.seqno[d] = 0
                 [] OTHER -> TRUE
    BY DEF NetInv, Carried, Honest
  <2> QED BY <2>1, <2>2 DEF SeqnosZero
<1> QED BY <1>1, Invariance, PTL

\* Every VALID route has its rt_timer armed: no RREP with a lifetime of 0 or less,
\* which rt_table_insert would take without a timer, is ever sent, because the
\* only host that would send one (aodv_rreq.c:183) needs a number other than 0.
THEOREM RoutesAreTimed == Spec => []ValidHasTimer
<1>1. NetInv => ValidHasTimer
  BY DEF NetInv, Timed, ValidHasTimer
<1> QED BY <1>1, Invariance, PTL

\* The hop count of every route is the length of a walk from its destination over
\* links of the network, the last one from the next hop, in any topology: what
\* rreq_forward and rrep_forward count and what the table is updated with agree.
THEOREM HopsReal == Spec => []HopsAreReal
<1>1. NetInv => HopsAreReal
  BY DEF NetInv, Truth, Real, Present, HopsAreReal
<1> QED BY <1>1, Invariance, PTL

\* A route has one hop exactly if its next hop is its destination, the test by which
\* neighbor_link_break and rt_table_update know a neighbour.
THEOREM NeighbourHops == Spec => []NeighbourHop
<1>1. NetInv => NeighbourHop
  BY DEF NetInv, Good, EntrySound, Present, NeighbourHop
<1> QED BY <1>1, Invariance, PTL
====
