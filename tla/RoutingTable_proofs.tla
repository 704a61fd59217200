------------------------- MODULE RoutingTable_proofs ------------------------
(***************************************************************************)
(* What the operations on the routing table preserve: the type of a node   *)
(* and NodeSound.  Every operation changes entries one by one, so the      *)
(* lemmas are about an entry and the kernel's next hop for it first.       *)
(***************************************************************************)
EXTENDS RoutingTable, FiniteSetTheorems, TLAPS

\* A well-typed node whose table, timers and kernel cache fit together, but
\* perhaps for the destinations in X.
Good(n, X) == n \in Node /\ \A d \in Addr \ X : EntrySound(d, n.rt[d], n.expl[d])

\* No entry is removed from the table.
Stays(n, m) == \A u \in Addr : Present(n, u) => Present(m, u)

\* Entries that stay through two calls stay through both.
LEMMA StaysTrans ==
  ASSUME NEW n, NEW m, NEW k, Stays(n, m), Stays(m, k)
  PROVE  Stays(n, k)
BY DEF Stays

\* A u32_t counter stays a u32_t.
LEMMA ModType == \A k \in Int : k % U32 \in Seqno
BY U32Assumption DEF Seqno

\* seqno_incr stays within a u32_t.
LEMMA IncrType == \A s \in Seqno : seqno_incr(s) \in Seqno
BY U32Assumption DEF Seqno, seqno_incr

\* An entry with no route is sound when the kernel has none either.
LEMMA NoEntrySound == NoEntry \in Entry /\ \A d \in Addr : EntrySound(d, NoEntry, NoAddr)
BY U32Assumption, AddrAssumption DEF NoEntry, Entry, Seqno, EntrySound

\* A link break marks VALID entries for repair before it invalidates them: in
\* between, an entry is only this sound.
RepairMarked(d, e, x) == e.state # "NONE" /\ EntrySound(d, [e EXCEPT !.repair = FALSE], x)

\* What rt_table_invalidate makes of an entry is an entry.
LEMMA InvalidatedType == \A e \in Entry : Invalidated(e) \in Entry
BY IncrType DEF Entry, Invalidated

\* rt_table_invalidate leaves a sound entry that the kernel must forget.
LEMMA InvalidatedSound ==
  ASSUME NEW d \in Addr, NEW e \in Entry, NEW x, e.state = "VALID",
         EntrySound(d, e, x) \/ RepairMarked(d, e, x)
  PROVE  /\ Invalidated(e) \in Entry
         /\ EntrySound(d, Invalidated(e), NoAddr)
BY IncrType DEF Entry, Invalidated, EntrySound, RepairMarked

\* A timeout update keeps an entry sound.
LEMMA TimeoutSound ==
  ASSUME NEW d \in Addr, NEW e \in Entry, NEW x, EntrySound(d, e, x), NEW life \in Life
  PROVE  /\ rt_table_update_timeout(e, life) \in Entry
         /\ EntrySound(d, rt_table_update_timeout(e, life), x)
BY DEF Entry, rt_table_update_timeout, EntrySound

-----------------------------------------------------------------------------
\* A change of the send buffer or of what was sent leaves the table alone.
LEMMA SocketGood ==
  ASSUME NEW n, NEW X, Good(n, X), NEW to \in Addr \cup {BCast}, NEW ttl \in Int
  PROVE  Good(aodv_socket_send(n, to, ttl), X)
BY DEF Good, Node, aodv_socket_send, Sent

\* Any message may be put into the send buffer.
LEMMA BufferGood ==
  ASSUME NEW n, NEW X, Good(n, X), NEW m \in Msg
  PROVE  Good([n EXCEPT !.send_buf = m], X)
BY DEF Good, Node

\* A step that leaves the table and the kernel cache alone.
LEMMA SameTable ==
  ASSUME NEW n, NEW X, Good(n, X), NEW m \in Node, m.rt = n.rt, m.expl = n.expl
  PROVE  Good(m, X)
BY DEF Good

\* A route has a next hop.
LEMMA NextType ==
  ASSUME NEW n, Good(n, {}), NEW d \in Addr, Present(n, d)
  PROVE  n.rt[d].next \in Addr
BY DEF Good, Present, EntrySound

\* One entry is replaced, and perhaps made sound again.
LEMMA EntryGood ==
  ASSUME NEW n, NEW X, Good(n, X), NEW d \in Addr, NEW e \in Entry,
         NEW Y, X \subseteq Y \cup {d}, d \notin Y => EntrySound(d, e, n.expl[d])
  PROVE  LET m == [n EXCEPT !.rt[d] = e]
         IN  Good(m, Y) /\ m.rt[d] = e /\ m.expl = n.expl /\ m.seek = n.seek
<1> DEFINE rt == [n.rt EXCEPT ![d] = e]
           m  == [n EXCEPT !.rt = rt]
<1>1. rt \in [Addr -> Entry] /\ rt[d] = e /\ \A u \in Addr \ {d} : rt[u] = n.rt[u]
  BY DEF Good, Node
<1>2. [n EXCEPT !.rt[d] = e] = m
  OBVIOUS
<1> HIDE DEF rt
<1>3. m \in Node /\ m.rt = rt /\ m.expl = n.expl /\ m.seek = n.seek
  BY <1>1 DEF Good, Node
<1> HIDE DEF m
<1>4. Good(m, Y)
  BY <1>1, <1>3 DEF Good
<1> QED BY <1>1, <1>2, <1>3, <1>4

\* A change of one entry that keeps its state removes none.
LEMMA EntryStays ==
  ASSUME NEW n \in Node, NEW d \in Addr, NEW e, e.state # "NONE" \/ ~Present(n, d)
  PROVE  Stays(n, [n EXCEPT !.rt[d] = e])
BY DEF Stays, Present, Node

\* A change of the seek list leaves the table alone.
LEMMA SeekGood ==
  ASSUME NEW n, NEW X, Good(n, X), NEW d \in Addr, NEW s \in Seek
  PROVE  Good([n EXCEPT !.seek[d] = s], X)
BY DEF Good, Node

\* A RERR about any entries of the table is well typed.
LEMMA RerrType ==
  ASSUME NEW n, NEW X, Good(n, X), NEW L \in SUBSET Addr, NEW b \in BOOLEAN
  PROVE  rerr_create(n, L, b) \in Msg
<1>1. 0 \in Seqno
  BY U32Assumption DEF Seqno
<1>2. \A d \in Addr : n.rt[d].seqno \in Seqno
  BY DEF Good, Node, Entry
<1> QED BY <1>1, <1>2 DEF rerr_create, Msg, RERR

\* A RERR goes to a precursor or to all neighbours.
LEMMA RerrDestType ==
  ASSUME NEW n, NEW L
  PROVE  rerr_dest(n, L) \in Addr \cup {BCast}
BY DEF rerr_dest

\* precursor_add changes nothing but the precursors of one entry.
LEMMA PrecursorAddGood ==
  ASSUME NEW n, NEW X, Good(n, X), NEW d \in Addr, NEW a \in Addr
  PROVE  Good(precursor_add(n, d, a), X)
<1> DEFINE e == [n.rt[d] EXCEPT !.prec = @ \cup {a}]
<1>1. e \in Entry /\ (d \notin X => EntrySound(d, e, n.expl[d]))
  BY DEF Good, Node, Entry, EntrySound
<1>2. precursor_add(n, d, a) = [n EXCEPT !.rt = [n.rt EXCEPT ![d] = e]]
  BY DEF precursor_add
<1> HIDE DEF e
<1> QED BY <1>1, <1>2 DEF Good, Node

\* precursor_list_destroy changes nothing but precursors.
LEMMA PrecursorDestroyGood ==
  ASSUME NEW n, NEW X, Good(n, X), NEW D
  PROVE  Good(precursor_list_destroy(n, D), X)
<1>1. \A d \in Addr : LET e == [n.rt[d] EXCEPT !.prec = {}]
                      IN  e \in Entry /\ (d \notin X => EntrySound(d, e, n.expl[d]))
  BY DEF Good, Node, Entry, EntrySound
<1> QED BY <1>1 DEF Good, Node, precursor_list_destroy

-----------------------------------------------------------------------------
\* What a caller may pass as next hop and hop count of a route to d.
Hop(d, next, hops) ==
  next \in Addr /\ hops \in Nat /\ hops >= 1 /\ (hops = 1 <=> next = d)

\* Route messages to the kernel are well typed.
LEMMA NlType ==
  ASSUME NEW d \in Addr, NEW hop \in Addr \cup {NoAddr}, NEW metric \in Nat
  PROVE  /\ nl_send_add_route_msg(d, hop, metric) \in NlMsg
         /\ nl_send_del_route_msg(d, hop, metric) \in NlMsg
         /\ nl_send_no_route_found_msg(d) \in NlMsg
BY DEF NlMsg, nl_send_add_route_msg, nl_send_del_route_msg, nl_send_no_route_found_msg

\* So is what is sent about an entry of the table.
LEMMA NlDelType ==
  ASSUME NEW n \in Node, NEW d \in Addr
  PROVE  nl_send_del_route_msg(d, n.rt[d].next, n.rt[d].hopcnt) \in NlMsg
<1>1. n.rt[d].next \in Addr \cup {NoAddr} /\ n.rt[d].hopcnt \in Nat
  BY DEF Node, Entry
<1> QED BY <1>1, NlType

\* A change of the table and of the kernel cache that is sound entry by entry.
LEMMA TableGood ==
  ASSUME NEW n, NEW X, Good(n, X),
         NEW rt \in [Addr -> Entry], NEW expl \in [Addr -> Addr \cup {NoAddr}],
         NEW act \in Seqno, NEW nl \in SUBSET NlMsg,
         \A d \in Addr \ X : EntrySound(d, rt[d], expl[d])
  PROVE  Good([n EXCEPT !.rt = rt, !.num_active = act, !.expl = expl, !.nl = nl], X)
BY DEF Good, Node

\* The counters and the seek list are no part of what is sound.
LEMMA CountSeekGood ==
  ASSUME NEW n, NEW X, Good(n, X), NEW k \in Seqno, NEW seek \in [Addr -> Seek]
  PROVE  Good([n EXCEPT !.num_entries = k, !.seek = seek], X)
BY DEF Good, Node

\* rt_table_insert makes a sound entry: its next hop goes to the kernel too.
LEMMA InsertGood ==
  ASSUME NEW n, NEW X, Good(n, X), NEW d \in Addr, NEW next, NEW hops, Hop(d, next, hops),
         NEW seqno \in Seqno, NEW life \in Life
  PROVE  LET m == rt_table_insert(n, d, next, hops, seqno, life)
         IN  Good(m, X) /\ Present(m, d)
<1> DEFINE e == [NoEntry EXCEPT !.state = "VALID", !.next = next, !.hopcnt = hops,
                                !.seqno = seqno, !.armed = (life = "POS")]
<1>1. e \in Entry /\ EntrySound(d, e, next) /\ e.state = "VALID"
  BY NoEntrySound DEF NoEntry, Entry, EntrySound, Hop
<1>2. NoSeek \in Seek
  BY U32Assumption DEF NoSeek, Seek, Seqno
<1>3. (n.num_entries + 1) % U32 \in Seqno /\ (n.num_active + 1) % U32 \in Seqno
  BY ModType DEF Good, Node, Seqno
<1> HIDE DEF e
<1> DEFINE rt   == [n.rt EXCEPT ![d] = e]
           expl == [n.expl EXCEPT ![d] = next]
           seek == [n.seek EXCEPT ![d] = NoSeek]
           nl   == n.nl \cup {nl_send_add_route_msg(d, next, hops)}
           n1   == [n EXCEPT !.rt = rt, !.num_active = (n.num_active + 1) % U32,
                             !.expl = expl, !.nl = nl]
<1>4. /\ rt \in [Addr -> Entry] /\ expl \in [Addr -> Addr \cup {NoAddr}]
      /\ \A u \in Addr \ X : EntrySound(u, rt[u], expl[u])
  BY <1>1 DEF Good, Node, Hop
<1>5. Good(n1, X)
  <2>1. nl \in SUBSET NlMsg
    BY NlType DEF Good, Node, Hop
  <2> HIDE DEF rt, expl, nl
  <2> QED BY <1>3, <1>4, <2>1, TableGood
<1>6. seek \in [Addr -> Seek]
  BY <1>2 DEF Good, Node
<1>7. rt_table_insert(n, d, next, hops, seqno, life) =
        [n1 EXCEPT !.num_entries = (n.num_entries + 1) % U32, !.seek = seek]
  BY DEF rt_table_insert, e, Good, Node
<1> HIDE DEF n1, seek
<1>8. Good([n1 EXCEPT !.num_entries = (n.num_entries + 1) % U32, !.seek = seek], X)
  BY <1>3, <1>5, <1>6, CountSeekGood
<1>9. rt_table_insert(n, d, next, hops, seqno, life).rt[d] = e
  BY DEF rt_table_insert, e, Good, Node
<1> QED BY <1>1, <1>7, <1>8, <1>9 DEF Present

-----------------------------------------------------------------------------
\* A node as Good, but for marks on VALID entries in D.
Marked(n, D, X) ==
  /\ n \in Node
  /\ \A d \in Addr \ X : \/ EntrySound(d, n.rt[d], n.expl[d])
                         \/ d \in D /\ Valid(n, d) /\ RepairMarked(d, n.rt[d], n.expl[d])

\* rt_table_invalidate makes entries sound that were just marked for repair.
LEMMA InvalidateMarked ==
  ASSUME NEW n, NEW D \in SUBSET Addr, NEW X, Marked(n, D, X)
  PROVE  Good(rt_table_invalidate(n, D), X)
<1> DEFINE V == {d \in D : Valid(n, d)}
<1>1. Cardinality(V) \in Nat
  BY AddrAssumption, FS_Subset, FS_CardinalityType
<1>2. (n.num_active - Cardinality(V)) % U32 \in Seqno
  BY <1>1, ModType DEF Marked, Node, Seqno
<1>3. \A d \in V : /\ Invalidated(n.rt[d]) \in Entry
                   /\ d \notin X => EntrySound(d, Invalidated(n.rt[d]), NoAddr)
  BY InvalidatedType, InvalidatedSound DEF Marked, Node, Valid
<1>4. V \subseteq Addr /\ \A d \in Addr \ (V \cup X) : EntrySound(d, n.rt[d], n.expl[d])
  BY DEF Marked
<1> DEFINE rt   == [d \in Addr |-> IF d \in V THEN Invalidated(n.rt[d]) ELSE n.rt[d]]
           expl == [d \in Addr |-> IF d \in V THEN NoAddr ELSE n.expl[d]]
           act  == (n.num_active - Cardinality(V)) % U32
           nl   == n.nl \cup {nl_send_del_route_msg(d, n.rt[d].next, n.rt[d].hopcnt) : d \in V}
<1>5. rt_table_invalidate(n, D) =
        [n EXCEPT !.rt = rt, !.num_active = act, !.expl = expl, !.nl = nl]
  BY DEF rt_table_invalidate
<1> HIDE DEF V
<1>6. /\ rt \in [Addr -> Entry] /\ expl \in [Addr -> Addr \cup {NoAddr}]
      /\ \A u \in Addr \ X : EntrySound(u, rt[u], expl[u])
  BY <1>3, <1>4 DEF Marked, Node
<1>8. nl \in SUBSET NlMsg
  <2>1. n.nl \in SUBSET NlMsg /\ n \in Node
    BY DEF Marked, Node
  <2>2. \A d \in V : nl_send_del_route_msg(d, n.rt[d].next, n.rt[d].hopcnt) \in NlMsg
    BY <2>1, <1>4, NlDelType
  <2> QED BY <2>1, <2>2
<1> HIDE DEF rt, expl, act, nl
<1>7. act \in Seqno
  BY <1>2 DEF act
<1> QED BY <1>5, <1>6, <1>7, <1>8 DEF Good, Marked, Node

\* rt_table_invalidate on a Good node.
LEMMA InvalidateGood ==
  ASSUME NEW n, NEW X, Good(n, X), NEW D \in SUBSET Addr
  PROVE  Good(rt_table_invalidate(n, D), X)
<1>1. Marked(n, D, X)
  BY DEF Marked, Good
<1> QED BY <1>1, InvalidateMarked

\* rt_table_delete forgets the entry here and in the kernel.
LEMMA DeleteGood ==
  ASSUME NEW n, Good(n, {}), NEW d \in Addr
  PROVE  Good(rt_table_delete(n, d), {})
<1>1. (n.num_entries - 1) % U32 \in Seqno /\ (n.num_active - 1) % U32 \in Seqno
  BY ModType DEF Good, Node, Seqno
<1>2. NoEntry \in Entry /\ EntrySound(d, NoEntry, NoAddr)
  BY NoEntrySound
<1>3. ~Valid(n, d) => n.expl[d] = NoAddr
  BY DEF Good, EntrySound, Valid
<1> DEFINE nl == IF Valid(n, d)
                   THEN n.nl \cup {nl_send_del_route_msg(d, n.rt[d].next, n.rt[d].hopcnt)}
                   ELSE n.nl
<1>4. nl \in SUBSET NlMsg
  BY NlDelType DEF Good, Node
<1>5. rt_table_delete(n, d) =
        [n EXCEPT !.rt[d] = NoEntry,
                  !.num_entries = (n.num_entries - 1) % U32,
                  !.num_active  = IF Valid(n, d) THEN (n.num_active - 1) % U32 ELSE n.num_active,
                  !.expl[d] = IF Valid(n, d) THEN NoAddr ELSE n.expl[d],
                  !.nl = nl]
  BY DEF rt_table_delete, Good, Node
<1> HIDE DEF nl
<1> DEFINE m == rt_table_delete(n, d)
<1>6. m \in Node
  <2> DEFINE rt == [n.rt EXCEPT ![d] = NoEntry]
             na == IF Valid(n, d) THEN (n.num_active - 1) % U32 ELSE n.num_active
             ex == [n.expl EXCEPT ![d] = IF Valid(n, d) THEN NoAddr ELSE n.expl[d]]
  <2>1. rt \in [Addr -> Entry] /\ na \in Seqno /\ ex \in [Addr -> Addr \cup {NoAddr}]
    BY <1>1, <1>2 DEF Good, Node
  <2>2. m = [n EXCEPT !.rt = rt, !.num_entries = (n.num_entries - 1) % U32,
                      !.num_active = na, !.expl = ex, !.nl = nl]
    BY <1>5
  <2> HIDE DEF rt, na, ex, m
  <2> QED BY <1>1, <1>4, <2>1, <2>2 DEF Good, Node
<1>7. /\ m.rt[d] = NoEntry /\ m.expl[d] = NoAddr
      /\ \A x \in Addr \ {d} : m.rt[x] = n.rt[x] /\ m.expl[x] = n.expl[x]
  BY <1>3, <1>5 DEF Good, Node
<1> HIDE DEF m
<1>8. \A x \in Addr : EntrySound(x, m.rt[x], m.expl[x])
  BY <1>2, <1>7 DEF Good
<1> QED BY <1>6, <1>8 DEF Good, m

\* A mark for repair on a sound VALID entry.
LEMMA MarkedForRepair ==
  ASSUME NEW d \in Addr, NEW e \in Entry, NEW x, e.state = "VALID"
  PROVE  /\ [e EXCEPT !.repair = TRUE] \in Entry
         /\ EntrySound(d, e, x) => RepairMarked(d, [e EXCEPT !.repair = TRUE], x)
<1> DEFINE f == [e EXCEPT !.repair = TRUE]
<1>1. f \in Entry /\ f.state = "VALID"
  BY DEF Entry
<1>2. ASSUME EntrySound(d, e, x) PROVE [f EXCEPT !.repair = FALSE] = e
  <2>1. e.repair = FALSE
    BY <1>2 DEF EntrySound, Entry
  <2> QED BY <2>1 DEF Entry
<1> QED BY <1>1, <1>2 DEF RepairMarked

\* The link break of a neighbour, itself marked for repair or not.
LEMMA LinkBreakMarked ==
  ASSUME NEW n, NEW d \in Addr, NEW X, Marked(n, {d}, X), n.rt[d].hopcnt = 1
  PROVE  Good(neighbor_link_break(n, d), X)
<1> DEFINE n1   == rt_table_invalidate(n, {d})
           e    == n1.rt[d]
           U    == {u \in Addr \ {d} : Valid(n1, u) /\ n1.rt[u].next = d}
           R    == {u \in U : e.repair /\ n1.rt[u].hopcnt <= MAX_REPAIR_TTL}
           n2   == [n1 EXCEPT !.rt = [u \in Addr |->
                                        IF u \in R THEN [n1.rt[u] EXCEPT !.repair = TRUE]
                                                   ELSE n1.rt[u]]]
           n3   == rt_table_invalidate(n2, U)
           lost == (U \ R) \cup (IF e.repair THEN {} ELSE {d})
           L    == {u \in lost : n3.rt[u].prec # {}}
           n4   == precursor_list_destroy(n3, lost)
           n5   == [n4 EXCEPT !.send_buf = rerr_create(n3, L, FALSE)]
           to   == rerr_dest(n3, L)
<1>1. neighbor_link_break(n, d) = IF L = {} THEN n4 ELSE aodv_socket_send(n5, to, 1)
  BY DEF neighbor_link_break, link_break_through, link_break_tell
<1>2. Good(n1, X)
  BY InvalidateMarked
<1>3. U \in SUBSET Addr /\ R \subseteq U /\ \A u \in U : Valid(n1, u)
  OBVIOUS
<1>4. L \in SUBSET Addr
  OBVIOUS
<1>5. Marked(n2, U, X)
  <2> HIDE DEF n1, U, R
  <2> DEFINE f(u) == [n1.rt[u] EXCEPT !.repair = TRUE]
  <2>1. \A u \in R : /\ f(u) \in Entry /\ f(u).state = "VALID"
                     /\ u \notin X => RepairMarked(u, f(u), n1.expl[u])
    <3>1. \A u \in R : n1.rt[u] \in Entry /\ n1.rt[u].state = "VALID" /\ u \in Addr
      BY <1>2, <1>3 DEF Good, Node, Valid
    <3>2. \A u \in R : u \notin X => EntrySound(u, n1.rt[u], n1.expl[u])
      BY <1>2, <1>3 DEF Good
    <3>3. \A u \in R : f(u).state = "VALID"
      BY <3>1 DEF Entry
    <3> QED BY <3>1, <3>2, <3>3, MarkedForRepair
  <2> HIDE DEF f
  <2>2. n2 = [n1 EXCEPT !.rt = [u \in Addr |-> IF u \in R THEN f(u) ELSE n1.rt[u]]]
    BY DEF f
  <2> HIDE DEF n2
  <2> QED BY <1>2, <1>3, <2>1, <2>2 DEF Good, Node, Marked, Valid
<1> HIDE DEF n1, U, R, n2
<1>6. Good(n3, X)
  BY <1>3, <1>5, InvalidateMarked
<1> HIDE DEF n3, lost
<1>7. Good(n4, X)
  BY <1>6, PrecursorDestroyGood
<1> HIDE DEF n4, L
<1>8. rerr_create(n3, L, FALSE) \in Msg
  BY <1>4, <1>6, RerrType
<1>9. Good(n5, X)
  BY <1>7, <1>8, BufferGood
<1>10. to \in Addr \cup {BCast} /\ 1 \in Int
  BY RerrDestType
<1> HIDE DEF n5, to
<1>11. Good(aodv_socket_send(n5, to, 1), X)
  BY <1>9, <1>10, SocketGood
<1> QED BY <1>1, <1>7, <1>11

\* The link break as most handlers ask for it.
LEMMA LinkBreakGood ==
  ASSUME NEW n, NEW X, Good(n, X), NEW d \in Addr
  PROVE  Good(neighbor_link_break(n, d), X)
<1>1. CASE n.rt[d].hopcnt = 1
  <2>1. Marked(n, {d}, X)
    BY DEF Marked, Good
  <2> QED BY <1>1, <2>1, LinkBreakMarked
<1>2. CASE n.rt[d].hopcnt # 1
  BY <1>2 DEF neighbor_link_break
<1> QED BY <1>1, <1>2

-----------------------------------------------------------------------------
\* What a link break leaves alone in the entry of the neighbour itself.
Keeps(n, m, d) ==
  /\ Stays(n, m)
  /\ m.expl[d] \in {NoAddr, n.expl[d]}
  /\ m.rt[d].unidir = n.rt[d].unidir
  /\ m.rt[d].hello => n.rt[d].hello

\* Keeps is transitive.
LEMMA KeepsTrans ==
  ASSUME NEW n, NEW m, NEW k, NEW d, Keeps(n, m, d), Keeps(m, k, d)
  PROVE  Keeps(n, k, d)
BY DEF Keeps, Stays

\* rt_table_invalidate removes no entry and starts no hello timer.
LEMMA InvalidateKeeps ==
  ASSUME NEW n \in Node, NEW D \in SUBSET Addr, NEW d \in Addr
  PROVE  Keeps(n, rt_table_invalidate(n, D), d)
<1> DEFINE V == {u \in D : Valid(n, u)}
<1>1. /\ rt_table_invalidate(n, D).rt[d] =
           IF d \in V THEN Invalidated(n.rt[d]) ELSE n.rt[d]
      /\ rt_table_invalidate(n, D).expl[d] = IF d \in V THEN NoAddr ELSE n.expl[d]
  BY DEF rt_table_invalidate, Node
<1>2. n.rt[d] \in Entry
  BY DEF Node
<1>3. Invalidated(n.rt[d]).unidir = n.rt[d].unidir /\ ~Invalidated(n.rt[d]).hello
  BY <1>2 DEF Invalidated, Entry
<1> HIDE DEF V
<1>4. Stays(n, rt_table_invalidate(n, D))
  <2> SUFFICES ASSUME NEW u \in Addr, Present(n, u)
               PROVE  Present(rt_table_invalidate(n, D), u)
    BY DEF Stays
  <2>1. n.rt[u] \in Entry /\ Invalidated(n.rt[u]).state = "INVALID"
    BY DEF Node, Invalidated, Entry
  <2> QED BY <2>1 DEF Present, rt_table_invalidate, Node
<1> QED BY <1>1, <1>3, <1>4 DEF Keeps

\* Destroying precursor lists keeps every entry.
LEMMA DestroyKeeps ==
  ASSUME NEW n \in Node, NEW D, NEW d \in Addr
  PROVE  Keeps(n, precursor_list_destroy(n, D), d)
BY DEF Keeps, Stays, Present, precursor_list_destroy, Node, Entry

\* Sending keeps every entry.
LEMMA SendKeeps ==
  ASSUME NEW n \in Node, NEW m, NEW to, NEW ttl, NEW d \in Addr
  PROVE  Keeps(n, aodv_socket_send([n EXCEPT !.send_buf = m], to, ttl), d)
BY DEF Keeps, Stays, Present, aodv_socket_send, Node

\* neighbor_link_break removes no entry and starts no hello timer.
LEMMA LinkBreakKeeps ==
  ASSUME NEW n, NEW d \in Addr, Good(n, {d})
  PROVE  Keeps(n, neighbor_link_break(n, d), d)
<1> DEFINE n1   == rt_table_invalidate(n, {d})
           e    == n1.rt[d]
           U    == {u \in Addr \ {d} : Valid(n1, u) /\ n1.rt[u].next = d}
           R    == {u \in U : e.repair /\ n1.rt[u].hopcnt <= MAX_REPAIR_TTL}
           n2   == [n1 EXCEPT !.rt = [u \in Addr |->
                                        IF u \in R THEN [n1.rt[u] EXCEPT !.repair = TRUE]
                                                   ELSE n1.rt[u]]]
           n3   == rt_table_invalidate(n2, U)
           lost == (U \ R) \cup (IF e.repair THEN {} ELSE {d})
           L    == {u \in lost : n3.rt[u].prec # {}}
           n4   == precursor_list_destroy(n3, lost)
           m    == rerr_create(n3, L, FALSE)
           to   == rerr_dest(n3, L)
           n6   == aodv_socket_send([n4 EXCEPT !.send_buf = m], to, 1)
<1>1. neighbor_link_break(n, d) = IF n.rt[d].hopcnt # 1 THEN n
                                  ELSE IF L = {} THEN n4 ELSE n6
  BY DEF neighbor_link_break, link_break_through, link_break_tell
<1>2. n1 \in Node /\ Keeps(n, n1, d)
  BY InvalidateGood, InvalidateKeeps DEF Good
<1>3. U \in SUBSET Addr /\ d \notin U /\ R \subseteq U
  OBVIOUS
<1>4. n2 \in Node /\ Keeps(n1, n2, d)
  <2> HIDE DEF n1, U, R
  <2> DEFINE rt == [u \in Addr |-> IF u \in R THEN [n1.rt[u] EXCEPT !.repair = TRUE]
                                              ELSE n1.rt[u]]
  <2>1. rt \in [Addr -> Entry]
    <3>1. \A u \in Addr : n1.rt[u] \in Entry
      BY <1>2 DEF Node
    <3>2. \A u \in Addr : [n1.rt[u] EXCEPT !.repair = TRUE] \in Entry
      BY <3>1 DEF Entry
    <3> QED BY <3>1, <3>2
  <2>2. rt[d] = n1.rt[d] /\ \A u \in Addr : rt[u].state = n1.rt[u].state
    <3>1. \A u \in Addr : n1.rt[u] \in Entry
      BY <1>2 DEF Node
    <3> QED BY <1>3, <3>1 DEF Entry
  <2> HIDE DEF rt
  <2>3. [n1 EXCEPT !.rt = rt] \in Node /\ Keeps(n1, [n1 EXCEPT !.rt = rt], d)
    BY <1>2, <2>1, <2>2 DEF Node, Keeps, Stays, Present
  <2> QED BY <2>3 DEF rt
<1> HIDE DEF n1, U, R, n2
<1>5. n3 \in Node /\ Keeps(n2, n3, d)
  <2>1. Marked(n2, U, Addr)
    BY <1>4 DEF Marked
  <2> QED BY <1>3, <1>4, <2>1, InvalidateMarked, InvalidateKeeps DEF Good
<1> HIDE DEF n3, lost
<1>6. n4 \in Node /\ Keeps(n3, n4, d)
  <2>1. Good(n3, Addr)
    BY <1>5 DEF Good
  <2> QED BY <1>5, <2>1, PrecursorDestroyGood, DestroyKeeps DEF Good
<1> HIDE DEF n4, m, to
<1>7. Keeps(n4, n6, d)
  BY <1>6, SendKeeps
<1> HIDE DEF n6
<1>8. Keeps(n, n4, d)
  BY <1>2, <1>4, <1>5, <1>6, KeepsTrans
<1>9. Keeps(n, n6, d)
  BY <1>7, <1>8, KeepsTrans
<1>10. Keeps(n, n, d)
  BY DEF Keeps, Stays
<1> QED BY <1>1, <1>8, <1>9, <1>10

-----------------------------------------------------------------------------
\* The entry that rt_table_update leaves is sound if the kernel has its next
\* hop or none, a neighbour's in any case, and a hello timer only as before.
LEMMA UpdateEntrySound ==
  ASSUME NEW d \in Addr, NEW e \in Entry, NEW old \in Entry, NEW y, EntrySound(d, old, y),
         NEW next, NEW hops, Hop(d, next, hops), NEW seqno \in Seqno, NEW life \in Life,
         NEW x \in {NoAddr, next}, hops = 1 => x = next,
         e.hello => e.unidir \/ hops = 1
  PROVE  /\ update_entry(e, old, next, hops, seqno, life) \in Entry
         /\ EntrySound(d, update_entry(e, old, next, hops, seqno, life), x)
         /\ update_entry(e, old, next, hops, seqno, life).state = "VALID"
         /\ update_entry(e, old, next, hops, seqno, life).hopcnt = hops
<1> DEFINE f == rt_table_update_timeout(e, life)
<1>1. f \in Entry /\ f.hello = e.hello /\ f.unidir = e.unidir
  <2> DEFINE b == life # "LATE" /\ (e.armed \/ ~e.ahead)
  <2>1. f = e \/ f = [e EXCEPT !.armed = b]
    BY DEF rt_table_update_timeout
  <2>2. b \in BOOLEAN
    OBVIOUS
  <2> HIDE DEF b, f
  <2>3. CASE f = e
    BY <2>3
  <2>4. CASE f = [e EXCEPT !.armed = b]
    BY <2>2, <2>4 DEF Entry
  <2> QED BY <2>1, <2>3, <2>4
<1>2. (old.state # "INVALID" /\ old.repair) = FALSE
  BY DEF EntrySound, Entry
<1>3. update_entry(e, old, next, hops, seqno, life) =
        [f EXCEPT !.repair = FALSE, !.seqno = seqno, !.next = next, !.hopcnt = hops,
                  !.handler = "expire", !.state = "VALID"]
  BY <1>2 DEF update_entry
<1> HIDE DEF f
<1> DEFINE g == [f EXCEPT !.repair = FALSE, !.seqno = seqno, !.next = next, !.hopcnt = hops,
                  !.handler = "expire", !.state = "VALID"]
<1>4. g \in Entry /\ g.state = "VALID" /\ g.hopcnt = hops
  BY <1>1 DEF Entry, Hop
<1>5. EntrySound(d, g, x)
  BY <1>1, AddrAssumption DEF Entry, EntrySound, Hop
<1> QED BY <1>3, <1>4, <1>5

\* rt_table_update keeps a Good node Good: the new entry, the kernel message and
\* the link break of a demoted neighbour fit together.
LEMMA UpdateGood ==
  ASSUME NEW n, Good(n, {}), NEW d \in Addr, Present(n, d),
         NEW next, NEW hops, Hop(d, next, hops), NEW seqno \in Seqno, NEW life \in Life
  PROVE  LET m == rt_table_update(n, d, next, hops, seqno, life)
         IN  Good(m, {}) /\ Valid(m, d) /\ m.rt[d].hopcnt = hops
<1> DEFINE a  == update_kernel(n, d, next, hops)
           h  == [a EXCEPT !.rt[d].hello = FALSE]
           n1 == update_link(a, d, hops)
           e  == update_entry(n1.rt[d], n.rt[d], next, hops, seqno, life)
<1>1. n.rt[d] \in Entry /\ EntrySound(d, n.rt[d], n.expl[d]) /\ n \in Node
  BY DEF Good, Node
<1>2. Good(a, {d}) /\ a.rt = n.rt
  <2>1. (n.num_active + 1) % U32 \in Seqno
    BY ModType DEF Good, Node, Seqno
  <2> DEFINE nl == n.nl \cup {nl_send_add_route_msg(d, next, hops)}
  <2>2. nl \in SUBSET NlMsg
    BY NlType DEF Good, Node, Hop
  <2>3. \/ a = [n EXCEPT !.expl[d] = next, !.nl = nl, !.num_active = (n.num_active + 1) % U32]
        \/ a = [n EXCEPT !.expl[d] = next, !.nl = nl]
        \/ a = n
    BY DEF update_kernel, Good, Node
  <2> HIDE DEF nl, a
  <2>4. next \in Addr
    BY DEF Hop
  <2>5. a \in Node
    <3> DEFINE ex == [n.expl EXCEPT ![d] = next]
    <3>1. ex \in [Addr -> Addr \cup {NoAddr}]
      BY <1>1, <2>4 DEF Node
    <3>2. \/ a = [n EXCEPT !.expl = ex, !.nl = nl, !.num_active = (n.num_active + 1) % U32]
          \/ a = [n EXCEPT !.expl = ex, !.nl = nl]
          \/ a = n
      BY <2>3
    <3> HIDE DEF ex
    <3> QED BY <1>1, <2>1, <2>2, <3>1, <3>2 DEF Node
  <2>6. a.rt = n.rt /\ \A x \in Addr \ {d} : a.expl[x] = n.expl[x]
    BY <1>1, <2>3 DEF Node
  <2> QED BY <2>5, <2>6 DEF Good
<1>3. /\ a.expl[d] \in {NoAddr, next}
      /\ hops = 1 => a.expl[d] = next
  <2>1. CASE n.rt[d].state = "INVALID" \/ n.rt[d].next # next
    BY <2>1, <1>1 DEF update_kernel, Node
  <2>2. CASE n.rt[d].state = "VALID" /\ n.rt[d].next = next
    BY <2>2, <1>1 DEF update_kernel, EntrySound, Hop
  <2> QED BY <1>1, <2>1, <2>2 DEF Present, Entry
<1>4. /\ Good(n1, {d})
      /\ n1.expl[d] \in {NoAddr, next} /\ (hops = 1 => n1.expl[d] = next)
      /\ n1.rt[d].hello => n1.rt[d].unidir \/ hops = 1
  <2> HIDE DEF a
  <2>1. CASE hops > 1 /\ a.rt[d].hopcnt = 1
    <3>1. Good(h, {d}) /\ h.rt[d].hello = FALSE /\ h.expl = a.expl
      <4> DEFINE f == [a.rt[d] EXCEPT !.hello = FALSE]
      <4>1. f \in Entry /\ f.hello = FALSE
        BY <1>1, <1>2 DEF Entry
      <4>2. h = [a EXCEPT !.rt[d] = f]
        OBVIOUS
      <4> HIDE DEF f, h
      <4> QED BY <1>2, <4>1, <4>2, EntryGood
    <3>2. n1 = neighbor_link_break(h, d)
      BY <2>1 DEF update_link
    <3> HIDE DEF h, n1
    <3>3. Good(n1, {d}) /\ Keeps(h, n1, d)
      BY <3>1, <3>2, LinkBreakGood, LinkBreakKeeps
    <3> QED BY <2>1, <1>3, <3>1, <3>3 DEF Keeps, Hop
  <2>2. CASE ~(hops > 1 /\ a.rt[d].hopcnt = 1)
    <3>1. n1 = a
      BY <2>2 DEF update_link
    <3>2. n.rt[d].hello => n.rt[d].unidir \/ hops = 1
      BY <1>1, <1>2, <2>2 DEF EntrySound, Hop
    <3> QED BY <1>2, <1>3, <3>1, <3>2
  <2> QED BY <2>1, <2>2
<1> HIDE DEF n1
<1>5. n1.rt[d] \in Entry /\ n1 \in Node
  BY <1>4 DEF Good, Node
<1>6. /\ e \in Entry /\ EntrySound(d, e, n1.expl[d])
      /\ e.state = "VALID" /\ e.hopcnt = hops
  BY <1>1, <1>4, <1>5, UpdateEntrySound
<1>7. NoSeek \in Seek
  BY U32Assumption DEF NoSeek, Seek, Seqno
<1>8. rt_table_update(n, d, next, hops, seqno, life) =
        [[n1 EXCEPT !.rt[d] = e] EXCEPT !.seek[d] = NoSeek]
  BY <1>5 DEF rt_table_update, n1, Node
<1> HIDE DEF e
<1> DEFINE n2 == [n1 EXCEPT !.rt[d] = e]
<1>9. Good(n2, {}) /\ n2.rt[d] = e
  BY <1>4, <1>6, EntryGood
<1> HIDE DEF n2
<1> DEFINE n3 == [n2 EXCEPT !.seek[d] = NoSeek]
<1>10. Good(n3, {}) /\ n3.rt = n2.rt
  BY <1>7, <1>9, SeekGood DEF Good, Node
<1> HIDE DEF n3
<1>11. rt_table_update(n, d, next, hops, seqno, life) = n3
  BY <1>8 DEF n2, n3
<1> QED BY <1>6, <1>9, <1>10, <1>11 DEF Valid

\* rt_table_update_route_timeouts only touches timers of VALID routes.
LEMMA RouteTimeoutsGood ==
  ASSUME NEW n, Good(n, {}), NEW fwd, NEW rev
  PROVE  Good(rt_table_update_route_timeouts(n, fwd, rev), {})
<1>1. \A d \in Addr : /\ rt_table_update_timeout(n.rt[d], "POS") \in Entry
                      /\ EntrySound(d, rt_table_update_timeout(n.rt[d], "POS"), n.expl[d])
  BY TimeoutSound DEF Good, Node, Life
<1>2. PICK D : rt_table_update_route_timeouts(n, fwd, rev) =
                 [n EXCEPT !.rt = [d \in Addr |-> IF d \in D
                                     THEN rt_table_update_timeout(n.rt[d], "POS")
                                     ELSE n.rt[d]]]
  BY DEF rt_table_update_route_timeouts
<1> DEFINE rt == [d \in Addr |-> IF d \in D THEN rt_table_update_timeout(n.rt[d], "POS")
                                            ELSE n.rt[d]]
<1>3. rt \in [Addr -> Entry] /\ \A d \in Addr : EntrySound(d, rt[d], n.expl[d])
  BY <1>1 DEF Good, Node
<1> HIDE DEF rt
<1>4. Good([n EXCEPT !.rt = rt], {})
  BY <1>3 DEF Good, Node
<1> QED BY <1>2, <1>4 DEF rt
====
