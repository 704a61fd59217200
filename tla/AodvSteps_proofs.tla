-------------------------- MODULE AodvSteps_proofs --------------------------
(***************************************************************************)
(* What a handler of the daemon may do to a node in one step, beyond       *)
(* keeping it Good.  Almost every operation is Tame: it adds and removes   *)
(* no entry and at most makes VALID entries INVALID, telling the kernel.   *)
(* It is Quiet if it also Informs: the precursors that count on a route    *)
(* stay recorded or are told by a RERR.  The others are an insertion, an   *)
(* update or a deletion of one entry.                                      *)
(***************************************************************************)
EXTENDS AodvNode_proofs

\* A message about u was sent to the kernel.
Told(n, u, op) == \E x \in n.nl : x.op = op /\ x.dest = u

\* The entry is the same but for timers, flags and precursors, or was invalidated.
Mild(e, f) ==
  /\ f.next = e.next /\ f.hopcnt = e.hopcnt
  /\ \/ f.state = e.state /\ f.seqno = e.seqno /\ (e.armed => f.armed)
     \/ /\ e.state = "VALID" /\ f.state = "INVALID" /\ f.armed
        /\ f.seqno = seqno_incr(e.seqno)

\* The kernel lost the route to u only by a DELROUTE.
Dropped(n, m, u) ==
  /\ m.expl[u] = n.expl[u] \/ (m.expl[u] = NoAddr /\ Told(m, u, "DELROUTE"))
  /\ Valid(n, u) => Valid(m, u) \/ Told(m, u, "DELROUTE")

Tame(n, m) ==
  /\ m.ip = n.ip /\ m.num_entries = n.num_entries /\ m.seek = n.seek
  /\ n.nl \subseteq m.nl
  /\ \A x \in m.nl \ n.nl : x.op = "DELROUTE" /\ m.expl[x.dest] = NoAddr /\ ~Valid(m, x.dest)
  /\ \A u \in Addr : Mild(n.rt[u], m.rt[u]) /\ Dropped(n, m, u)

\* The precursor p of the route to u is still recorded, or was told by a RERR.
Informed(m, u, p) ==
  (Awaits(m, u) /\ p \in m.rt[u].prec) \/ Warned(m.out, u, p)

\* The precursors that count on n are Informed, but for the pairs <<destination,
\* precursor>> in X.
Informs(n, m, X) ==
  /\ n.out \subseteq m.out
  /\ \A u \in Addr : Awaits(n, u) =>
       \A p \in n.rt[u].prec : <<u, p>> \in X \/ Informed(m, u, p)

Quiet(n, m) == Tame(n, m) /\ Informs(n, m, {})

\* An entry loses no precursor that counts on it.
Loyal(e, f) ==
  /\ e.prec \subseteq f.prec
  /\ e.state = "VALID" \/ e.repair => f.state = "VALID" \/ f.repair

\* The kernel hears only of routes that were VALID.
Audible(n, m) == \A x \in m.nl \ n.nl : Valid(n, x.dest)

\* An operation that does nothing is Quiet, and so are two Quiet ones.
LEMMA MildTrans ==
  ASSUME NEW e, NEW f, NEW g, Mild(e, f), Mild(f, g)
  PROVE  Mild(e, g)
BY DEF Mild

LEMMA TameRefl == ASSUME NEW n PROVE Tame(n, n)
BY DEF Tame, Mild, Dropped

LEMMA TameTrans ==
  ASSUME NEW n, NEW k, NEW m \in Node, Tame(n, k), Tame(k, m)
  PROVE  Tame(n, m)
<1>1. \A u \in Addr : Mild(n.rt[u], m.rt[u])
  BY MildTrans DEF Tame
<1>2. \A u \in Addr : Dropped(n, m, u)
  BY DEF Tame, Dropped, Told
<1>3. \A x \in m.nl \ n.nl : x.op = "DELROUTE" /\ m.expl[x.dest] = NoAddr /\ ~Valid(m, x.dest)
  <2> SUFFICES ASSUME NEW x \in m.nl \ n.nl
               PROVE  x.op = "DELROUTE" /\ m.expl[x.dest] = NoAddr /\ ~Valid(m, x.dest)
    OBVIOUS
  <2>1. x.dest \in Addr
    BY DEF Node, NlMsg
  <2>2. x \in k.nl => ~Valid(m, x.dest)
    BY <2>1 DEF Tame, Mild, Valid
  <2> QED BY <2>1, <2>2 DEF Tame, Dropped
<1> QED BY <1>1, <1>2, <1>3 DEF Tame

LEMMA InformsTrans ==
  ASSUME NEW n, NEW k, NEW m, NEW X, Informs(n, k, {}), Informs(k, m, X)
  PROVE  Informs(n, m, X)
BY DEF Informs, Informed, Warned

LEMMA QuietRefl == ASSUME NEW n PROVE Quiet(n, n)
BY TameRefl DEF Quiet, Informs, Informed

LEMMA QuietTrans ==
  ASSUME NEW n, NEW k, NEW m \in Node, Quiet(n, k), Quiet(k, m)
  PROVE  Quiet(n, m)
BY TameTrans, InformsTrans DEF Quiet

LEMMA LoyalInforms ==
  ASSUME NEW n, NEW m, n.out \subseteq m.out, \A u \in Addr : Loyal(n.rt[u], m.rt[u])
  PROVE  Informs(n, m, {})
BY DEF Informs, Informed, Loyal, Awaits, Valid

\* What changes no entry and tells the kernel nothing.
LEMMA SameQuiet ==
  ASSUME NEW n, NEW m, m.ip = n.ip, m.num_entries = n.num_entries, m.seek = n.seek,
         m.nl = n.nl, m.expl = n.expl, m.rt = n.rt, n.out \subseteq m.out
  PROVE  Quiet(n, m)
<1>1. Tame(n, m)
  BY DEF Tame, Mild, Dropped, Valid
<1>2. Informs(n, m, {})
  BY LoyalInforms DEF Loyal
<1> QED BY <1>1, <1>2 DEF Quiet

\* Only entries change, and only mildly.
LEMMA TableTame ==
  ASSUME NEW n \in Node, NEW rt,
         \A u \in Addr : Mild(n.rt[u], rt[u]) /\ rt[u].state = n.rt[u].state
  PROVE  Tame(n, [n EXCEPT !.rt = rt])
BY DEF Tame, Dropped, Node, Valid

LEMMA EntryTame ==
  ASSUME NEW n \in Node, NEW d \in Addr, NEW e, Mild(n.rt[d], e), e.state = n.rt[d].state
  PROVE  Tame(n, [n EXCEPT !.rt[d] = e])
<1> DEFINE rt == [n.rt EXCEPT ![d] = e]
<1>1. \A u \in Addr : Mild(n.rt[u], rt[u]) /\ rt[u].state = n.rt[u].state
  BY DEF Node, Mild
<1>2. [n EXCEPT !.rt[d] = e] = [n EXCEPT !.rt = rt]
  OBVIOUS
<1> HIDE DEF rt
<1> QED BY <1>1, <1>2, TableTame

LEMMA TableQuiet ==
  ASSUME NEW n \in Node, NEW rt,
         \A u \in Addr : /\ Mild(n.rt[u], rt[u]) /\ rt[u].state = n.rt[u].state
                         /\ Loyal(n.rt[u], rt[u])
  PROVE  Quiet(n, [n EXCEPT !.rt = rt])
<1> DEFINE m == [n EXCEPT !.rt = rt]
<1>1. m.rt = rt /\ m.out = n.out
  BY DEF Node
<1>2. Tame(n, m)
  BY TableTame
<1> HIDE DEF m
<1> QED BY <1>1, <1>2, LoyalInforms DEF Quiet, m

LEMMA EntryQuiet ==
  ASSUME NEW n \in Node, NEW d \in Addr, NEW e, Mild(n.rt[d], e), e.state = n.rt[d].state,
         Loyal(n.rt[d], e)
  PROVE  Quiet(n, [n EXCEPT !.rt[d] = e])
<1> DEFINE rt == [n.rt EXCEPT ![d] = e]
<1>1. \A u \in Addr : /\ Mild(n.rt[u], rt[u]) /\ rt[u].state = n.rt[u].state
                      /\ Loyal(n.rt[u], rt[u])
  BY DEF Node, Mild, Loyal
<1>2. [n EXCEPT !.rt[d] = e] = [n EXCEPT !.rt = rt]
  OBVIOUS
<1> HIDE DEF rt
<1> QED BY <1>1, <1>2, TableQuiet

\* The send buffer and what is sent are no part of the table.
LEMMA SocketQuiet ==
  ASSUME NEW n \in Node, NEW to, NEW ttl
  PROVE  Quiet(n, aodv_socket_send(n, to, ttl))
<1> DEFINE m == aodv_socket_send(n, to, ttl)
<1>1. /\ m.ip = n.ip /\ m.num_entries = n.num_entries /\ m.seek = n.seek
      /\ m.nl = n.nl /\ m.expl = n.expl /\ m.rt = n.rt /\ n.out \subseteq m.out
  BY DEF aodv_socket_send, Node
<1> HIDE DEF m
<1> QED BY <1>1, SameQuiet DEF m

LEMMA BufferQuiet ==
  ASSUME NEW n \in Node, NEW m
  PROVE  Quiet(n, [n EXCEPT !.send_buf = m])
<1> DEFINE k == [n EXCEPT !.send_buf = m]
<1>1. /\ k.ip = n.ip /\ k.num_entries = n.num_entries /\ k.seek = n.seek
      /\ k.nl = n.nl /\ k.expl = n.expl /\ k.rt = n.rt /\ k.out = n.out
  BY DEF Node
<1> HIDE DEF k
<1> QED BY <1>1, SameQuiet DEF k

LEMMA PrecursorAddQuiet ==
  ASSUME NEW n \in Node, NEW d \in Addr, NEW a
  PROVE  Quiet(n, precursor_add(n, d, a))
<1> DEFINE e == [n.rt[d] EXCEPT !.prec = @ \cup {a}]
<1>1. n.rt[d] \in Entry
  BY DEF Node
<1>2. Mild(n.rt[d], e) /\ e.state = n.rt[d].state /\ Loyal(n.rt[d], e)
  BY <1>1 DEF Mild, Loyal, Entry
<1>3. precursor_add(n, d, a) = [n EXCEPT !.rt[d] = e]
  BY DEF precursor_add
<1> HIDE DEF e
<1> QED BY <1>2, <1>3, EntryQuiet

LEMMA DestroyTame ==
  ASSUME NEW n \in Node, NEW D
  PROVE  Tame(n, precursor_list_destroy(n, D))
<1> DEFINE rt == [d \in Addr |-> IF d \in D THEN [n.rt[d] EXCEPT !.prec = {}] ELSE n.rt[d]]
<1>1. \A u \in Addr : n.rt[u] \in Entry
  BY DEF Node
<1>2. \A u \in Addr : Mild(n.rt[u], rt[u]) /\ rt[u].state = n.rt[u].state
  BY <1>1 DEF Mild, Entry
<1>3. precursor_list_destroy(n, D) = [n EXCEPT !.rt = rt]
  BY DEF precursor_list_destroy
<1> HIDE DEF rt
<1> QED BY <1>2, <1>3, TableTame

LEMMA KeepRouteQuiet ==
  ASSUME NEW n \in Node, NEW d \in Addr
  PROVE  Quiet(n, KeepRoute(n, d))
<1> DEFINE e == rt_table_update_timeout(n.rt[d], "POS")
<1>1. n.rt[d] \in Entry
  BY DEF Node
<1>2. Mild(n.rt[d], e) /\ e.state = n.rt[d].state /\ Loyal(n.rt[d], e)
  BY <1>1 DEF Mild, Loyal, Entry, rt_table_update_timeout
<1>3. KeepRoute(n, d) = [n EXCEPT !.rt[d] = e]
  BY DEF KeepRoute
<1> HIDE DEF e
<1> QED BY <1>2, <1>3, EntryQuiet

\* rt_table_invalidate, which tells the kernel.
LEMMA InvalidateTame ==
  ASSUME NEW n \in Node, NEW D \in SUBSET Addr
  PROVE  LET m == rt_table_invalidate(n, D)
         IN  Tame(n, m) /\ Audible(n, m) /\ \A d \in D : ~Valid(m, d)
<1> DEFINE V    == {d \in D : Valid(n, d)}
           rt   == [d \in Addr |-> IF d \in V THEN Invalidated(n.rt[d]) ELSE n.rt[d]]
           expl == [d \in Addr |-> IF d \in V THEN NoAddr ELSE n.expl[d]]
           act  == (n.num_active - Cardinality(V)) % U32
           del(d) == nl_send_del_route_msg(d, n.rt[d].next, n.rt[d].hopcnt)
           nl   == n.nl \cup {del(d) : d \in V}
           m    == rt_table_invalidate(n, D)
<1>1. m = [n EXCEPT !.rt = rt, !.num_active = act, !.expl = expl, !.nl = nl]
  BY DEF rt_table_invalidate
<1>2. V \subseteq Addr /\ \A u \in V : n.rt[u].state = "VALID"
  BY DEF Valid
<1>3. \A u \in D : u \notin V => n.rt[u].state # "VALID"
  BY DEF Valid
<1> HIDE DEF V, m
<1>4. \A u \in Addr : n.rt[u] \in Entry
  BY DEF Node
<1>5. \A u \in V : Mild(n.rt[u], Invalidated(n.rt[u])) /\ Invalidated(n.rt[u]).state = "INVALID"
  BY <1>2, <1>4 DEF Mild, Invalidated, Entry
<1>6. \A u \in Addr : /\ Mild(n.rt[u], rt[u])
                      /\ rt[u].state = IF u \in V THEN "INVALID" ELSE n.rt[u].state
  BY <1>5 DEF Mild
<1>7. \A u \in V : del(u).op = "DELROUTE" /\ del(u).dest = u
  BY DEF nl_send_del_route_msg
<1> HIDE DEF rt, act, del
<1>8. /\ m.ip = n.ip /\ m.num_entries = n.num_entries /\ m.seek = n.seek
      /\ m.rt = rt /\ m.expl = expl /\ m.nl = nl
  BY <1>1 DEF Node
<1>9. \A u \in V : Told(m, u, "DELROUTE")
  BY <1>7, <1>8 DEF Told
<1>10. \A x \in m.nl \ n.nl : /\ x.op = "DELROUTE" /\ m.expl[x.dest] = NoAddr
                              /\ Valid(n, x.dest) /\ ~Valid(m, x.dest)
  BY <1>2, <1>6, <1>7, <1>8 DEF Valid
<1>11. \A u \in Addr : Dropped(n, m, u)
  BY <1>6, <1>8, <1>9 DEF Dropped, Valid
<1>12. \A d \in D : ~Valid(m, d)
  BY <1>3, <1>6, <1>8 DEF Valid
<1> QED BY <1>6, <1>8, <1>10, <1>11, <1>12 DEF Tame, Audible, m

\* Nothing is asked of a node whose entries are not looked at but its type.
LEMMA NodeIsGood == ASSUME NEW n PROVE n \in Node <=> Good(n, Addr)
BY DEF Good

\* Whoever rerr_dest chooses, every precursor of every route listed is reached.
LEMMA RerrDestReaches ==
  ASSUME NEW n, NEW L, NEW u \in L, NEW p \in n.rt[u].prec
  PROVE  rerr_dest(n, L) \in {p, BCast}
<1>1. CASE \E a \in Addr : \A v \in L : n.rt[v].prec = {a}
  <2>1. PICK a \in Addr : a = rerr_dest(n, L) /\ \A v \in L : n.rt[v].prec = {a}
    BY <1>1 DEF rerr_dest
  <2> QED BY <2>1
<1>2. CASE ~ \E a \in Addr : \A v \in L : n.rt[v].prec = {a}
  BY <1>2 DEF rerr_dest
<1> QED BY <1>1, <1>2

\* link_break_tell tells the precursors of every route in lost, and takes nothing
\* back that was sent.
LEMMA TellInforms ==
  ASSUME NEW n \in Node, NEW lost \in SUBSET Addr, NEW u \in Addr, NEW p \in n.rt[u].prec,
         u \in lost \/ Awaits(n, u)
  PROVE  Informed(link_break_tell(n, lost), u, p)
<1> DEFINE L  == {v \in lost : n.rt[v].prec # {}}
           n1 == precursor_list_destroy(n, lost)
           q  == rerr_create(n, L, FALSE)
           k  == [n1 EXCEPT !.send_buf = q]
           to == rerr_dest(n, L)
           s  == [to |-> to, ttl |-> 1, msg |-> q]
           j  == aodv_socket_send(k, to, 1)
           m  == link_break_tell(n, lost)
<1>1. m = IF L = {} THEN n1 ELSE j
  BY DEF link_break_tell
<1> HIDE DEF m
<1>2. n1 \in Node
  BY NodeIsGood, PrecursorDestroyGood
<1>3. n1.rt = [v \in Addr |-> IF v \in lost THEN [n.rt[v] EXCEPT !.prec = {}] ELSE n.rt[v]]
  BY DEF precursor_list_destroy, Node
<1>4. q.type = "RERR" /\ q.dests = L
  BY DEF rerr_create
<1> HIDE DEF q, n1
<1>5. k.send_buf = q /\ k.rt = n1.rt /\ k.out = n1.out
  BY <1>2 DEF Node
<1>6. j.rt = n1.rt /\ s \in j.out
  <2>1. j = [k EXCEPT !.out = @ \cup {[to |-> to, ttl |-> 1, msg |-> k.send_buf]}]
    BY <1>4, <1>5 DEF aodv_socket_send
  <2>2. "out" \in DOMAIN k
    BY <1>2 DEF Node
  <2> HIDE DEF k, j
  <2> QED BY <1>5, <2>1, <2>2
<1>7. CASE u \in lost
  <2>1. u \in L
    BY <1>7
  <2>2. m = j
    BY <1>1, <2>1
  <2>3. to \in {p, BCast}
    BY <2>1, RerrDestReaches
  <2>4. s.to = to /\ s.msg = q
    OBVIOUS
  <2> HIDE DEF s, to, j, L
  <2> QED BY <1>4, <1>6, <2>1, <2>2, <2>3, <2>4 DEF Informed, Warned, m
<1>8. CASE u \notin lost
  <2>1. n1.rt[u] = n.rt[u]
    BY <1>3, <1>8
  <2>2. m.rt = n1.rt
    BY <1>1, <1>6
  <2> QED BY <1>8, <2>1, <2>2 DEF Informed, Awaits, Valid, m
<1> QED BY <1>7, <1>8

LEMMA TellSends ==
  ASSUME NEW n \in Node, NEW lost \in SUBSET Addr
  PROVE  n.out \subseteq link_break_tell(n, lost).out
<1> DEFINE L == {v \in lost : n.rt[v].prec # {}}
           k == precursor_list_destroy(n, lost)
           j == [k EXCEPT !.send_buf = rerr_create(n, L, FALSE)]
<1>1. link_break_tell(n, lost) = IF L = {} THEN k ELSE aodv_socket_send(j, rerr_dest(n, L), 1)
  BY DEF link_break_tell
<1>2. k \in Node /\ k.out = n.out
  <2>1. k \in Node
    BY NodeIsGood, PrecursorDestroyGood
  <2> QED BY <2>1 DEF precursor_list_destroy, Node
<1> HIDE DEF k
<1>3. "out" \in DOMAIN j /\ j.out = n.out
  BY <1>2 DEF Node
<1> HIDE DEF j
<1> QED BY <1>1, <1>2, <1>3 DEF aodv_socket_send

\* A link break tells the precursors of all the routes it gives up.
LEMMA LinkBreakInforms ==
  ASSUME NEW n \in Node, NEW d \in Addr
  PROVE  Informs(n, neighbor_link_break(n, d), {})
<1> DEFINE n1   == rt_table_invalidate(n, {d})
           keep == n1.rt[d].repair
           U    == {v \in Addr \ {d} : Valid(n1, v) /\ n1.rt[v].next = d}
           R    == {v \in U : keep /\ n1.rt[v].hopcnt <= MAX_REPAIR_TTL}
           rt   == [v \in Addr |-> IF v \in R THEN [n1.rt[v] EXCEPT !.repair = TRUE]
                                              ELSE n1.rt[v]]
           n2   == [n1 EXCEPT !.rt = rt]
           n3   == rt_table_invalidate(n2, U)
           lost == (U \ R) \cup (IF keep THEN {} ELSE {d})
<1>1. neighbor_link_break(n, d) = IF n.rt[d].hopcnt # 1 THEN n ELSE link_break_tell(n3, lost)
  BY DEF neighbor_link_break, link_break_through
<1>2. n1 \in Node /\ n1.out = n.out
  <2>1. n1 \in Node
    BY NodeIsGood, InvalidateGood
  <2> QED BY <2>1 DEF rt_table_invalidate, Node
<1>3. \A v \in Addr : n1.rt[v] = IF v = d /\ Valid(n, v) THEN Invalidated(n.rt[v]) ELSE n.rt[v]
  BY DEF rt_table_invalidate, Node
<1>4. \A e \in Entry : /\ Invalidated(e).prec = e.prec /\ Invalidated(e).repair = e.repair
                       /\ Invalidated(e).next = e.next
  BY DEF Invalidated, Entry
<1>5. \A v \in Addr : n.rt[v] \in Entry /\ n1.rt[v] \in Entry
  BY <1>2 DEF Node
<1>6. \A v \in Addr : /\ n1.rt[v].prec = n.rt[v].prec /\ n1.rt[v].repair = n.rt[v].repair
                      /\ v # d => n1.rt[v].state = n.rt[v].state
  BY <1>3, <1>4, <1>5
<1> HIDE DEF n1
<1>7. /\ rt \in [Addr -> Entry]
      /\ \A v \in Addr : /\ rt[v].prec = n1.rt[v].prec /\ rt[v].state = n1.rt[v].state
                         /\ v \in R \/ n1.rt[v].repair => rt[v].repair
  <2>1. \A e \in Entry : LET f == [e EXCEPT !.repair = TRUE]
                         IN  f \in Entry /\ f.prec = e.prec /\ f.state = e.state /\ f.repair
    BY DEF Entry
  <2>2. \A v \in Addr : rt[v] = IF v \in R THEN [n1.rt[v] EXCEPT !.repair = TRUE] ELSE n1.rt[v]
    OBVIOUS
  <2>3. rt \in [Addr -> Entry]
    BY <1>5, <2>1
  <2> HIDE DEF rt, R
  <2> QED BY <1>5, <2>1, <2>2, <2>3
<1> HIDE DEF rt
<1>8. n2 \in Node /\ n2.rt = rt /\ n2.out = n.out
  BY <1>2, <1>7 DEF Node
<1> HIDE DEF n2
<1>9. n3 \in Node /\ n3.out = n.out
  <2>1. U \in SUBSET Addr
    OBVIOUS
  <2> HIDE DEF U
  <2>2. n3 \in Node
    BY <1>8, <2>1, NodeIsGood, InvalidateGood
  <2> QED BY <1>8, <2>2 DEF rt_table_invalidate, Node
<1>10. \A v \in Addr : /\ n3.rt[v].prec = rt[v].prec /\ (rt[v].repair => n3.rt[v].repair)
                       /\ v \notin U => n3.rt[v] = rt[v]
  <2>1. \A v \in Addr : n3.rt[v] = IF v \in {w \in U : Valid(n2, w)}
                                     THEN Invalidated(rt[v]) ELSE rt[v]
    BY <1>8 DEF rt_table_invalidate, Node
  <2> HIDE DEF U, n3
  <2> QED BY <1>4, <1>7, <2>1
<1> HIDE DEF n3
<1>11. lost \in SUBSET Addr
  OBVIOUS
<1>12. ASSUME NEW u \in Addr, Awaits(n, u), NEW p \in n.rt[u].prec
       PROVE  p \in n3.rt[u].prec /\ (u \in lost \/ Awaits(n3, u))
  <2>1. p \in n3.rt[u].prec
    BY <1>6, <1>7, <1>10, <1>12
  <2>2. CASE n.rt[u].repair
    BY <1>6, <1>7, <1>10, <2>1, <2>2 DEF Awaits
  <2>3. CASE u = d /\ ~n.rt[u].repair
    BY <1>6, <2>1, <2>3
  <2>4. CASE u # d /\ n.rt[u].state = "VALID" /\ u \in U
    BY <1>7, <1>10, <2>1, <2>4 DEF Awaits
  <2>5. CASE u # d /\ n.rt[u].state = "VALID" /\ u \notin U
    BY <1>6, <1>7, <1>10, <2>1, <2>5 DEF Awaits, Valid
  <2> QED BY <1>12, <2>2, <2>3, <2>4, <2>5 DEF Awaits, Valid
<1> HIDE DEF lost
<1>13. CASE n.rt[d].hopcnt = 1
  <2>1. \A u \in Addr : Awaits(n, u) =>
          \A p \in n.rt[u].prec : Informed(link_break_tell(n3, lost), u, p)
    BY <1>9, <1>11, <1>12, TellInforms
  <2>2. n.out \subseteq link_break_tell(n3, lost).out
    BY <1>9, <1>11, TellSends
  <2> QED BY <1>1, <1>13, <2>1, <2>2 DEF Informs
<1>14. CASE n.rt[d].hopcnt # 1
  BY <1>1, <1>14 DEF Informs, Informed
<1> QED BY <1>13, <1>14

\* A link break is Quiet, and the neighbour itself is lost.
LEMMA LinkBreakQuiet ==
  ASSUME NEW n \in Node, NEW d \in Addr
  PROVE  LET m == neighbor_link_break(n, d)
         IN  m \in Node /\ Quiet(n, m) /\ Audible(n, m) /\ (n.rt[d].hopcnt = 1 => ~Valid(m, d))
<1> DEFINE n1   == rt_table_invalidate(n, {d})
           e    == n1.rt[d]
           U    == {u \in Addr \ {d} : Valid(n1, u) /\ n1.rt[u].next = d}
           R    == {u \in U : e.repair /\ n1.rt[u].hopcnt <= MAX_REPAIR_TTL}
           rt   == [u \in Addr |-> IF u \in R THEN [n1.rt[u] EXCEPT !.repair = TRUE]
                                              ELSE n1.rt[u]]
           n2   == [n1 EXCEPT !.rt = rt]
           n3   == rt_table_invalidate(n2, U)
           lost == (U \ R) \cup (IF e.repair THEN {} ELSE {d})
           L    == {u \in lost : n3.rt[u].prec # {}}
           n4   == precursor_list_destroy(n3, lost)
           q    == rerr_create(n3, L, FALSE)
           n5   == [n4 EXCEPT !.send_buf = q]
           n6   == aodv_socket_send(n5, rerr_dest(n3, L), 1)
           m    == neighbor_link_break(n, d)
<1>1. m = IF n.rt[d].hopcnt # 1 THEN n ELSE IF L = {} THEN n4 ELSE n6
  BY DEF neighbor_link_break, link_break_through, link_break_tell
<1> HIDE DEF m
<1>2. m \in Node
  BY NodeIsGood, LinkBreakGood DEF m
<1>3. n1 \in Node /\ Tame(n, n1) /\ Audible(n, n1) /\ ~Valid(n1, d)
  BY NodeIsGood, InvalidateGood, InvalidateTame
<1>4. U \in SUBSET Addr /\ L \in SUBSET Addr
  OBVIOUS
<1> HIDE DEF n1, R
<1>5. n2 \in Node /\ Tame(n1, n2) /\ ~Valid(n2, d) /\ n2.nl = n1.nl
  <2>1. \A u \in Addr : n1.rt[u] \in Entry
    BY <1>3 DEF Node
  <2>2. \A u \in Addr : LET f == [n1.rt[u] EXCEPT !.repair = TRUE]
                        IN  f \in Entry /\ Mild(n1.rt[u], f) /\ f.state = n1.rt[u].state
    BY <2>1 DEF Entry, Mild
  <2>3. rt \in [Addr -> Entry] /\ \A u \in Addr : Mild(n1.rt[u], rt[u]) /\ rt[u].state = n1.rt[u].state
    BY <2>1, <2>2 DEF Mild
  <2> HIDE DEF rt
  <2>4. n2 \in Node /\ n2.rt = rt /\ n2.nl = n1.nl
    BY <1>3, <2>3 DEF Node
  <2> QED BY <1>3, <2>3, <2>4, TableTame DEF Valid
<1> HIDE DEF n2, U
<1>6. n3 \in Node /\ Tame(n2, n3) /\ Audible(n2, n3) /\ ~Valid(n3, d)
  <2>1. n3 \in Node /\ Tame(n2, n3) /\ Audible(n2, n3)
    BY <1>4, <1>5, NodeIsGood, InvalidateGood, InvalidateTame
  <2> QED BY <1>5, <2>1 DEF Tame, Mild, Valid
<1> HIDE DEF n3, lost
<1>7. n4 \in Node /\ Tame(n3, n4) /\ n4.nl = n3.nl
  <2>1. n4 \in Node /\ Tame(n3, n4)
    BY <1>6, NodeIsGood, PrecursorDestroyGood, DestroyTame
  <2>2. n4.nl = n3.nl
    BY <1>6 DEF precursor_list_destroy, Node
  <2> QED BY <2>1, <2>2
<1> HIDE DEF n4, L
<1>8. q \in Msg
  BY <1>4, <1>6, NodeIsGood, RerrType
<1> HIDE DEF q
<1>9. n5 \in Node /\ Tame(n4, n5) /\ n5.nl = n4.nl
  BY <1>7, <1>8, NodeIsGood, BufferGood, BufferQuiet DEF Node, Quiet
<1> HIDE DEF n5
<1>10. Tame(n5, n6) /\ n6.nl = n5.nl
  BY <1>9, SocketQuiet DEF Quiet, aodv_socket_send, Node
<1> HIDE DEF n6
<1>11. Tame(n, n1) /\ Tame(n, n2) /\ Tame(n, n3) /\ Tame(n, n4) /\ Tame(n, n5)
  BY <1>3, <1>5, <1>6, <1>7, <1>9, TameTrans
<1>12. Tame(n, m) /\ Informs(n, m, {})
  BY <1>1, <1>2, <1>10, <1>11, TameRefl, TameTrans, LinkBreakInforms DEF m
<1>13. ASSUME n.rt[d].hopcnt = 1 PROVE ~Valid(m, d)
  <2>1. Tame(n3, n5) /\ (m = n6 => Tame(n3, n6))
    BY <1>2, <1>7, <1>9, <1>10, TameTrans
  <2>2. Tame(n3, m)
    BY <1>1, <1>7, <1>13, <2>1
  <2> QED BY <1>6, <2>2 DEF Tame, Mild, Valid
<1>14. Audible(n, m)
  <2>1. m.nl \subseteq n3.nl \cup n.nl
    BY <1>1, <1>7, <1>9, <1>10
  <2>2. ASSUME NEW x \in m.nl, x \notin n.nl PROVE Valid(n, x.dest)
    <3>1. x.dest \in Addr
      BY <1>2, <2>2 DEF Node, NlMsg
    <3>2. Valid(n2, x.dest) => Valid(n, x.dest)
      BY <1>11, <3>1 DEF Tame, Mild, Valid
    <3> QED BY <1>3, <1>5, <1>6, <2>1, <2>2, <3>2 DEF Audible
  <2> QED BY <2>2 DEF Audible
<1> QED BY <1>2, <1>12, <1>13, <1>14 DEF Quiet, m

-----------------------------------------------------------------------------
\* What rt_table_insert and rt_table_update make of the entry for d.
Learned(e, next, hops, seqno) ==
  e.state = "VALID" /\ e.next = next /\ e.hopcnt = hops /\ e.seqno = seqno

\* An update changes the entry for d, and is Quiet about the others.
LEMMA UpdateEffect ==
  ASSUME NEW n, Good(n, {}), NEW d \in Addr, Present(n, d),
         NEW next, NEW hops, Hop(d, next, hops), NEW seqno \in Seqno, NEW life \in Life
  PROVE  LET m == rt_table_update(n, d, next, hops, seqno, life)
         IN  /\ m.ip = n.ip /\ m.num_entries = n.num_entries
             /\ Learned(m.rt[d], next, hops, seqno)
             /\ life = "POS" /\ n.rt[d].armed => m.rt[d].armed
             /\ \A u \in Addr \ {d} : Mild(n.rt[u], m.rt[u])
             /\ Informs(n, m, {})
             /\ hops = 1 => /\ m.rt[d].unidir = n.rt[d].unidir
                            /\ \A u \in Addr \ {d} : m.rt[u] = n.rt[u]
<1> DEFINE a  == update_kernel(n, d, next, hops)
           f  == [a.rt[d] EXCEPT !.hello = FALSE]
           h  == [a EXCEPT !.rt[d] = f]
           n1 == update_link(a, d, hops)
           e  == update_entry(n1.rt[d], n.rt[d], next, hops, seqno, life)
           m  == rt_table_update(n, d, next, hops, seqno, life)
<1>1. n.rt[d] \in Entry /\ EntrySound(d, n.rt[d], n.expl[d]) /\ n \in Node
  BY DEF Good, Node
<1>2. a \in Node /\ a.rt = n.rt /\ a.ip = n.ip /\ a.num_entries = n.num_entries
      /\ a.out = n.out
  <2> DEFINE ex == [n.expl EXCEPT ![d] = next]
             nl == n.nl \cup {nl_send_add_route_msg(d, next, hops)}
             c  == (n.num_active + 1) % U32
  <2>1. c \in Seqno
    BY ModType DEF Good, Node, Seqno
  <2>2. nl \in SUBSET NlMsg
    BY NlType DEF Good, Node, Hop
  <2>3. ex \in [Addr -> Addr \cup {NoAddr}]
    BY <1>1 DEF Node, Hop
  <2>4. \/ a = [n EXCEPT !.expl = ex, !.nl = nl, !.num_active = c]
        \/ a = [n EXCEPT !.expl = ex, !.nl = nl]
        \/ a = n
    BY <1>1 DEF update_kernel, Node
  <2> HIDE DEF ex, nl, a, c
  <2> QED BY <1>1, <2>1, <2>2, <2>3, <2>4 DEF Node
<1>3. m = [n1 EXCEPT !.rt[d] = e, !.seek[d] = NoSeek]
  BY DEF rt_table_update
<1>4. /\ n1 \in Node /\ n1.ip = n.ip /\ n1.num_entries = n.num_entries
      /\ \A u \in Addr : Mild(n.rt[u], n1.rt[u])
      /\ hops = 1 => n1.rt = n.rt
      /\ Informs(n, n1, {})
  <2> HIDE DEF a
  <2>0. Informs(n, a, {})
    BY <1>2 DEF Informs, Informed, Awaits, Valid
  <2>1. CASE hops > 1 /\ a.rt[d].hopcnt = 1
    <3>1. f \in Entry /\ Mild(a.rt[d], f) /\ f.state = a.rt[d].state /\ Loyal(a.rt[d], f)
      BY <1>1, <1>2 DEF Entry, Mild, Loyal
    <3> HIDE DEF f
    <3>2. h \in Node /\ Quiet(a, h)
      BY <1>2, <3>1, EntryQuiet, EntryGood, NodeIsGood
    <3>3. n1 = neighbor_link_break(h, d)
      BY <2>1 DEF update_link, f
    <3> HIDE DEF h, n1
    <3>4. n1 \in Node /\ Quiet(h, n1)
      BY <3>2, <3>3, LinkBreakQuiet
    <3>5. Quiet(a, n1)
      BY <3>2, <3>4, QuietTrans
    <3> QED BY <1>2, <2>0, <2>1, <3>4, <3>5, InformsTrans DEF Quiet, Tame
  <2>2. CASE ~(hops > 1 /\ a.rt[d].hopcnt = 1)
    <3>1. n1 = a
      BY <2>2 DEF update_link
    <3> QED BY <1>2, <2>0, <3>1 DEF Mild
  <2> QED BY <2>1, <2>2
<1> HIDE DEF n1
<1>5. n1.rt[d] \in Entry
  BY <1>4 DEF Node
<1>6. /\ Learned(e, next, hops, seqno) /\ Loyal(n1.rt[d], e)
      /\ life = "POS" /\ n.rt[d].armed => e.armed
      /\ hops = 1 => e.unidir = n.rt[d].unidir
  <2> DEFINE g == rt_table_update_timeout(n1.rt[d], life)
             b == n.rt[d].state # "INVALID" /\ n.rt[d].repair
  <2>1. g \in Entry /\ g.unidir = n1.rt[d].unidir /\ g.prec = n1.rt[d].prec
    BY <1>5 DEF rt_table_update_timeout, Entry
  <2>2. life = "POS" /\ n.rt[d].armed => g.armed
    <3>1. n.rt[d].armed => n1.rt[d].armed
      BY <1>1, <1>4, <1>5 DEF Mild
    <3> QED BY <1>5, <3>1 DEF rt_table_update_timeout, Entry
  <2>3. e = [g EXCEPT !.repair = b, !.seqno = seqno, !.next = next, !.hopcnt = hops,
                      !.handler = "expire", !.state = "VALID"]
    BY DEF update_entry
  <2> HIDE DEF g, b, e
  <2> QED BY <1>4, <2>1, <2>2, <2>3 DEF Learned, Loyal, Entry
<1> HIDE DEF e, m
<1>7. /\ m.ip = n.ip /\ m.num_entries = n.num_entries /\ m.rt[d] = e
      /\ \A u \in Addr \ {d} : m.rt[u] = n1.rt[u]
      /\ m.out = n1.out
  BY <1>3, <1>4 DEF Node
<1>8. Informs(n1, m, {})
  BY <1>6, <1>7, LoyalInforms DEF Loyal
<1>9. Informs(n, m, {})
  BY <1>4, <1>8, InformsTrans
<1> QED BY <1>4, <1>6, <1>7, <1>9 DEF m

\* An insertion adds the entry for d and changes no other.
LEMMA InsertEffect ==
  ASSUME NEW n \in Node, NEW d \in Addr, NEW next, NEW hops, NEW seqno, NEW life
  PROVE  LET m == rt_table_insert(n, d, next, hops, seqno, life)
         IN  /\ m.ip = n.ip /\ m.num_entries = (n.num_entries + 1) % U32
             /\ Learned(m.rt[d], next, hops, seqno) /\ (life = "POS" => m.rt[d].armed)
             /\ \A u \in Addr \ {d} : m.rt[u] = n.rt[u]
<1> DEFINE e == [NoEntry EXCEPT !.state = "VALID", !.next = next, !.hopcnt = hops,
                                !.seqno = seqno, !.armed = (life = "POS")]
           m == rt_table_insert(n, d, next, hops, seqno, life)
<1>1. Learned(e, next, hops, seqno) /\ (life = "POS" => e.armed)
  BY DEF NoEntry, Learned
<1>2. /\ m.ip = n.ip /\ m.num_entries = (n.num_entries + 1) % U32 /\ m.rt[d] = e
      /\ \A u \in Addr \ {d} : m.rt[u] = n.rt[u]
  BY DEF rt_table_insert, Node
<1> HIDE DEF e, m
<1> QED BY <1>1, <1>2 DEF m

LEMMA InsertInforms ==
  ASSUME NEW n, Good(n, {}), NEW d \in Addr, ~Present(n, d), NEW next, NEW hops, NEW seqno, NEW life
  PROVE  Informs(n, rt_table_insert(n, d, next, hops, seqno, life), {})
<1> DEFINE m == rt_table_insert(n, d, next, hops, seqno, life)
<1>1. n \in Node /\ ~Awaits(n, d)
  BY DEF Good, EntrySound, Awaits, Present, Valid
<1>2. m.out = n.out
  BY <1>1 DEF rt_table_insert, Node
<1>3. \A u \in Addr \ {d} : m.rt[u] = n.rt[u]
  BY <1>1, InsertEffect
<1> HIDE DEF m
<1>4. Informs(n, m, {})
  BY <1>1, <1>2, <1>3 DEF Informs, Informed, Awaits, Valid
<1> QED BY <1>4 DEF m

\* A deletion removes the entry for d and changes no other.
LEMMA DeleteEffect ==
  ASSUME NEW n \in Node, NEW d \in Addr
  PROVE  LET m == rt_table_delete(n, d)
         IN  /\ m.ip = n.ip /\ m.num_entries = (n.num_entries - 1) % U32
             /\ m.rt[d] = NoEntry /\ \A u \in Addr \ {d} : m.rt[u] = n.rt[u]
BY DEF rt_table_delete, Node

LEMMA DeleteInforms ==
  ASSUME NEW n \in Node, NEW d \in Addr, ~Awaits(n, d)
  PROVE  Informs(n, rt_table_delete(n, d), {})
<1> DEFINE m == rt_table_delete(n, d)
<1>1. m.out = n.out
  BY DEF rt_table_delete, Node
<1>2. \A u \in Addr \ {d} : m.rt[u] = n.rt[u]
  BY DeleteEffect
<1> HIDE DEF m
<1> QED BY <1>1, <1>2 DEF Informs, Informed, Awaits, Valid, m

-----------------------------------------------------------------------------
\* Messages that are built and sent.
LEMMA RreqSendQuiet ==
  ASSUME NEW n, Good(n, {}), NEW dest \in Addr, NEW s \in Seqno, NEW ttl \in Int
  PROVE  Quiet(n, rreq_send(n, dest, s, ttl))
<1> DEFINE c == rreq_create(n, dest, s)
           q == [type |-> "RREQ", hopcnt |-> 0, rreq_id |-> n.rreq_id,
                 dest |-> dest, dest_seqno |-> s, orig |-> n.ip,
                 orig_seqno |-> seqno_incr(n.seqno), d |-> FALSE, g |-> FALSE]
<1>1. (n.rreq_id + 1) % U32 \in Seqno /\ seqno_incr(n.seqno) \in Seqno
  BY ModType, IncrType DEF Good, Node, Seqno
<1>2. q \in Msg
  BY <1>1 DEF Msg, RREQ, Good, Node
<1>3. c = [n EXCEPT !.rreq_id = (@ + 1) % U32, !.seqno = seqno_incr(n.seqno), !.send_buf = q]
  BY DEF rreq_create
<1> HIDE DEF q, c
<1>4. c \in Node /\ Quiet(n, c)
  <2>1. /\ c \in Node /\ c.ip = n.ip /\ c.num_entries = n.num_entries /\ c.seek = n.seek
        /\ c.nl = n.nl /\ c.expl = n.expl /\ c.rt = n.rt /\ c.out = n.out
    BY <1>1, <1>2, <1>3 DEF Good, Node
  <2> QED BY <2>1, SameQuiet
<1>5. Good(aodv_socket_send(c, BCast, ttl), Addr)
  BY <1>4, NodeIsGood, SocketGood
<1> QED BY <1>4, <1>5, SocketQuiet, QuietTrans, NodeIsGood DEF rreq_send, c

LEMMA RequestAckQuiet ==
  ASSUME NEW n, Good(n, {}), NEW r \in Addr, Present(n, r)
  PROVE  Quiet(n, rrep_request_ack(n, r))
<1> DEFINE x  == n.rt[r].next
           g  == [n.rt[x] EXCEPT !.unidir = TRUE, !.hello = FALSE]
           k  == [n EXCEPT !.rt[x] = g]
           b  == neighbor_link_break(k, x)
           h  == [b.rt[x] EXCEPT !.ack = TRUE]
           m  == [b EXCEPT !.rt[x] = h]
<1>1. x \in Addr /\ n \in Node
  BY NextType DEF Good
<1>2. n.rt[x] \in Entry
  BY <1>1 DEF Node
<1>3. g \in Entry /\ Mild(n.rt[x], g) /\ g.state = n.rt[x].state /\ Loyal(n.rt[x], g)
  BY <1>2 DEF Entry, Mild, Loyal
<1>4. rrep_request_ack(n, r) \in {n, m}
  <2>1. [n EXCEPT !.rt[x].unidir = TRUE, !.rt[x].hello = FALSE] = k
    BY <1>1 DEF Node
  <2>2. m = [b EXCEPT !.rt[x].ack = TRUE]
    OBVIOUS
  <2> HIDE DEF g, k, b, m
  <2>3. \/ rrep_request_ack(n, r) = n
        \/ rrep_request_ack(n, r) = [neighbor_link_break(k, x) EXCEPT !.rt[x].ack = TRUE]
    BY <2>1 DEF rrep_request_ack
  <2> QED BY <2>2, <2>3 DEF b
<1> HIDE DEF g
<1>5. k \in Node /\ Quiet(n, k)
  BY <1>1, <1>3, EntryQuiet, EntryGood, NodeIsGood
<1> HIDE DEF k
<1>6. b \in Node /\ Quiet(k, b)
  BY <1>1, <1>5, LinkBreakQuiet
<1> HIDE DEF b
<1>7. b.rt[x] \in Entry
  BY <1>1, <1>6 DEF Node
<1>8. h \in Entry /\ Mild(b.rt[x], h) /\ h.state = b.rt[x].state /\ Loyal(b.rt[x], h)
  BY <1>7 DEF Entry, Mild, Loyal
<1> HIDE DEF h
<1>9. m \in Node /\ Quiet(b, m)
  BY <1>1, <1>6, <1>8, EntryQuiet, EntryGood, NodeIsGood
<1> HIDE DEF m, x
<1> QED BY <1>4, <1>5, <1>6, <1>9, QuietTrans, QuietRefl

LEMMA RrepSendQuiet ==
  ASSUME NEW n, Good(n, {}), NEW r \in Addr, Present(n, r),
         NEW f \in Addr \cup {NoAddr}, f # NoAddr => Present(n, f)
  PROVE  Quiet(n, rrep_send(n, r, f))
<1> DEFINE n1 == rrep_request_ack(n, r)
           t  == n1.rt[r].next
           n2 == aodv_socket_send(n1, t, MAXTTL)
           y  == n2.rt[f].next
           p  == precursor_add(n2, f, n2.rt[r].next)
           q  == precursor_add(p, r, y)
<1>1. rrep_send(n, r, f) = IF f = NoAddr THEN n2 ELSE q
  BY DEF rrep_send
<1>2. Good(n1, {}) /\ Stays(n, n1) /\ Quiet(n, n1)
  BY RequestAckGood, RequestAckQuiet
<1> HIDE DEF n1
<1>3. t \in Addr
  BY <1>2, NextType DEF Stays
<1> HIDE DEF t
<1>4. Good(n2, {}) /\ Quiet(n1, n2) /\ n2.rt = n1.rt
  BY <1>2, <1>3, SocketGood, SocketSame, SocketQuiet DEF Good, MAXTTL
<1> HIDE DEF n2
<1>5. Quiet(n, n2)
  BY <1>2, <1>4, QuietTrans DEF Good
<1>6. CASE f # NoAddr
  <2>1. f \in Addr /\ n2.rt[r].next \in Addr /\ y \in Addr
    BY <1>2, <1>4, <1>6, NextType DEF Stays, Present
  <2> HIDE DEF y
  <2>2. Good(p, {}) /\ Quiet(n2, p)
    BY <1>4, <2>1, PrecursorAddGood, PrecursorAddQuiet DEF Good
  <2> HIDE DEF p
  <2>3. Good(q, {}) /\ Quiet(p, q)
    BY <2>1, <2>2, PrecursorAddGood, PrecursorAddQuiet DEF Good
  <2> HIDE DEF q
  <2> QED BY <1>1, <1>5, <1>6, <2>2, <2>3, QuietTrans DEF Good
<1> QED BY <1>1, <1>5, <1>6

LEMMA RrepForwardQuiet ==
  ASSUME NEW n, Good(n, {}), NEW m \in RREP, NEW r \in Addr, Present(n, r),
         NEW f \in Addr, Present(n, f), NEW ttl \in Int
  PROVE  Quiet(n, rrep_forward(n, m, r, f, ttl))
<1> DEFINE x   == n.rt[r].next
           ask == Present(n, x) /\ ~n.rt[x].ack
           g   == [n.rt[x] EXCEPT !.unidir = TRUE, !.ack = TRUE]
           n1  == IF ask THEN [n EXCEPT !.rt[x] = g] ELSE n
           q   == [m EXCEPT !.a = ask, !.hopcnt = n1.rt[f].hopcnt]
           b   == [n1 EXCEPT !.send_buf = q]
           n2  == aodv_socket_send(b, x, ttl)
           n3  == precursor_add(n2, f, x)
           y   == n2.rt[f].next
           n4  == precursor_add(n3, r, y)
           n5  == KeepRoute(n4, r)
<1>1. x \in Addr /\ n \in Node
  BY NextType DEF Good
<1>2. n.rt[x] \in Entry
  BY <1>1 DEF Node
<1>3. g \in Entry /\ Mild(n.rt[x], g) /\ g.state = n.rt[x].state /\ Loyal(n.rt[x], g)
  BY <1>2 DEF Entry, Mild, Loyal
<1>4. rrep_forward(n, m, r, f, ttl) = n5
  <2>1. ask => [n EXCEPT !.rt[x].unidir = TRUE, !.rt[x].ack = TRUE] = [n EXCEPT !.rt[x] = g]
    BY <1>1 DEF Node
  <2> QED BY <2>1 DEF rrep_forward
<1>5. ask \in BOOLEAN
  BY <1>1 DEF Present, Node
<1> HIDE DEF g, ask, x
<1>6. n1 \in Node /\ Quiet(n, n1)
  BY <1>1, <1>3, EntryQuiet, QuietRefl, EntryGood, NodeIsGood
<1> HIDE DEF n1
<1>7. q \in Msg
  <2>1. n1.rt[f].hopcnt \in Nat
    BY <1>6 DEF Node, Entry
  <2> QED BY <1>5, <2>1 DEF Msg, RREP
<1> HIDE DEF q
<1>8. b \in Node /\ Quiet(n1, b)
  BY <1>6, <1>7, BufferGood, BufferQuiet, NodeIsGood
<1> HIDE DEF b
<1>9. n2 \in Node /\ Quiet(b, n2)
  BY <1>1, <1>8, SocketGood, SocketQuiet, NodeIsGood
<1> HIDE DEF n2
<1>10. n3 \in Node /\ Quiet(n2, n3)
  BY <1>1, <1>9, PrecursorAddGood, PrecursorAddQuiet, NodeIsGood
<1>11. y \in Addr
  <2>1. Quiet(n, n2)
    BY <1>6, <1>8, <1>9, QuietTrans
  <2> QED BY <2>1, NextType DEF Quiet, Tame, Mild
<1> HIDE DEF n3, y
<1>12. n4 \in Node /\ Quiet(n3, n4)
  BY <1>10, <1>11, PrecursorAddGood, PrecursorAddQuiet, NodeIsGood
<1> HIDE DEF n4
<1>13. n5 \in Node /\ Quiet(n4, n5)
  <2>1. Good(n5, {})
    BY <1>4, RrepForwardGood
  <2> QED BY <1>12, <2>1, KeepRouteQuiet DEF Good
<1> HIDE DEF n5
<1>14. Quiet(n, b) /\ Quiet(n, n2) /\ Quiet(n, n3) /\ Quiet(n, n4)
  BY <1>6, <1>8, <1>9, <1>10, <1>12, QuietTrans
<1> QED BY <1>4, <1>13, <1>14, QuietTrans

-----------------------------------------------------------------------------
\* The counter of entries, the host's own address, the timers and the freshness
\* of routes, as a handler must leave them.
Entries(n) == {d \in Addr : Present(n, d)}

Counted(n) == n.num_entries = Cardinality(Entries(n)) % U32

Tidy(n) == Counted(n) /\ ~Present(n, n.ip)

Timed(n) == \A d \in Addr : Valid(n, d) => n.rt[d].armed

NoOlder(e, f) ==
  Signed(f.seqno) > Signed(e.seqno) \/ (f.seqno = e.seqno /\ f.hopcnt <= e.hopcnt)

Improves(e, f) ==
  e.state = "VALID" /\ f.state = "VALID" /\ e.seqno # 0 /\ ~e.unidir => NoOlder(e, f)

\* A handler that keeps them, for lifetimes of messages that set a timer; the
\* entries in X may be replaced by older ones.
Progress(n, m, life, X) ==
  /\ m.ip = n.ip
  /\ Tidy(n) => Tidy(m)
  /\ life = "POS" /\ Timed(n) => Timed(m)
  /\ \A d \in Addr \ X : Improves(n.rt[d], m.rt[d])

\* Arithmetic of u32_t counters and of the comparison as s32_t.
LEMMA ModIs ==
  ASSUME NEW u \in Nat, u > 0, NEW q \in Int, NEW r \in 0 .. (u - 1)
  PROVE  (q * u + r) % u = r
OBVIOUS

LEMMA ModSplit ==
  ASSUME NEW u \in Nat, u > 0, NEW a \in Int
  PROVE  a = (a \div u) * u + (a % u) /\ a % u \in 0 .. (u - 1) /\ a \div u \in Int
OBVIOUS

LEMMA ModIncr ==
  ASSUME NEW u \in Nat, u > 0, NEW a \in Int
  PROVE  ((a % u) + 1) % u = (a + 1) % u
<1> DEFINE q == a \div u
           r == a % u
<1>1. a = q * u + r /\ r \in 0 .. (u - 1) /\ q \in Int
  BY ModSplit
<1> HIDE DEF q, r
<1>2. CASE r + 1 = u
  <2>1. a + 1 = (q + 1) * u + 0 /\ r + 1 = 1 * u + 0 /\ 0 \in 0 .. (u - 1) /\ q + 1 \in Int
    BY <1>1, <1>2
  <2>2. (a + 1) % u = 0
    BY <2>1, ModIs
  <2>3. (r + 1) % u = 0
    BY <2>1, ModIs
  <2> QED BY <2>2, <2>3 DEF r
<1>3. CASE r + 1 < u
  <2>1. a + 1 = q * u + (r + 1) /\ r + 1 = 0 * u + (r + 1) /\ r + 1 \in 0 .. (u - 1)
    BY <1>1, <1>3
  <2>2. (a + 1) % u = r + 1 /\ (r + 1) % u = r + 1
    BY <1>1, <2>1, ModIs
  <2> QED BY <2>2 DEF r
<1> QED BY <1>1, <1>2, <1>3

LEMMA ModDecr ==
  ASSUME NEW u \in Nat, u > 0, NEW a \in Int
  PROVE  ((a % u) - 1) % u = (a - 1) % u
<1> DEFINE q == a \div u
           r == a % u
<1>1. a = q * u + r /\ r \in 0 .. (u - 1) /\ q \in Int
  BY ModSplit
<1> HIDE DEF q, r
<1>2. CASE r = 0
  <2>1. /\ a - 1 = (q - 1) * u + (u - 1) /\ r - 1 = (0 - 1) * u + (u - 1)
        /\ u - 1 \in 0 .. (u - 1) /\ q - 1 \in Int /\ 0 - 1 \in Int
    BY <1>1, <1>2
  <2>2. (a - 1) % u = u - 1 /\ (r - 1) % u = u - 1
    BY <2>1, ModIs
  <2> QED BY <2>2 DEF r
<1>3. CASE r > 0
  <2>1. a - 1 = q * u + (r - 1) /\ r - 1 = 0 * u + (r - 1) /\ r - 1 \in 0 .. (u - 1)
    BY <1>1, <1>3
  <2>2. (a - 1) % u = r - 1 /\ (r - 1) % u = r - 1
    BY <1>1, <2>1, ModIs
  <2> QED BY <2>2 DEF r
<1> QED BY <1>1, <1>2, <1>3

LEMMA SignedType == ASSUME NEW s \in Seqno PROVE Signed(s) \in Int
BY U32Assumption DEF Signed, Seqno

LEMMA SignedEqual ==
  ASSUME NEW s \in Seqno, NEW t \in Seqno, Signed(s) = Signed(t)
  PROVE  s = t
BY U32Assumption DEF Signed, Seqno

\* A set of entries is finite.
LEMMA EntriesFinite ==
  ASSUME NEW n
  PROVE  IsFiniteSet(Entries(n)) /\ Cardinality(Entries(n)) \in Nat
BY AddrAssumption, FS_Subset, FS_CardinalityType DEF Entries

\* What is no older than what is no older is no older.
LEMMA NoOlderTrans ==
  ASSUME NEW e \in Entry, NEW f \in Entry, NEW g \in Entry, NoOlder(e, f), NoOlder(f, g)
  PROVE  NoOlder(e, g)
<1>1. /\ Signed(e.seqno) \in Int /\ Signed(f.seqno) \in Int /\ Signed(g.seqno) \in Int
      /\ e.hopcnt \in Nat /\ f.hopcnt \in Nat /\ g.hopcnt \in Nat
  BY SignedType DEF Entry
<1> QED BY <1>1 DEF NoOlder

LEMMA NoOlderRefl == ASSUME NEW e \in Entry PROVE NoOlder(e, e)
BY DEF NoOlder, Entry

\* A Tame operation makes progress, and after one that does too.
LEMMA TameProgress ==
  ASSUME NEW n \in Node, NEW m \in Node, Tame(n, m), NEW life
  PROVE  Progress(n, m, life, {})
<1>1. Entries(m) = Entries(n)
  BY DEF Tame, Mild, Entries, Present
<1>2. Tidy(n) => Tidy(m)
  <2>1. n.ip \in Addr
    BY DEF Node
  <2> QED BY <1>1, <2>1 DEF Tidy, Counted, Tame, Mild, Present
<1>3. Timed(n) => Timed(m)
  BY DEF Tame, Mild, Timed, Valid
<1>4. \A d \in Addr : Improves(n.rt[d], m.rt[d])
  <2> SUFFICES ASSUME NEW d \in Addr, n.rt[d].state = "VALID", m.rt[d].state = "VALID"
               PROVE  NoOlder(n.rt[d], m.rt[d])
    BY DEF Improves
  <2>1. n.rt[d] \in Entry /\ Mild(n.rt[d], m.rt[d])
    BY DEF Node, Tame
  <2> QED BY <2>1, NoOlderRefl DEF Mild, NoOlder
<1> QED BY <1>2, <1>3, <1>4 DEF Progress, Tame

LEMMA ProgressTame ==
  ASSUME NEW n \in Node, NEW k \in Node, NEW m \in Node, NEW life, NEW X,
         Progress(n, k, life, X), Tame(k, m)
  PROVE  Progress(n, m, life, X)
<1>1. Progress(k, m, life, {})
  BY TameProgress
<1>2. \A d \in Addr \ X : Improves(n.rt[d], m.rt[d])
  <2> SUFFICES ASSUME NEW d \in Addr \ X, Improves(n.rt[d], k.rt[d]), Mild(k.rt[d], m.rt[d])
               PROVE  Improves(n.rt[d], m.rt[d])
    BY DEF Progress, Tame
  <2> QED BY DEF Improves, Mild, NoOlder
<1> QED BY <1>1, <1>2 DEF Progress

LEMMA QuietProgress ==
  ASSUME NEW n \in Node, NEW m \in Node, Quiet(n, m), NEW life
  PROVE  Progress(n, m, life, {})
BY TameProgress DEF Quiet

LEMMA ProgressQuiet ==
  ASSUME NEW n \in Node, NEW k \in Node, NEW m \in Node, NEW life, NEW X,
         Progress(n, k, life, X), Quiet(k, m)
  PROVE  Progress(n, m, life, X)
BY ProgressTame DEF Quiet

\* A new entry, for another host.
LEMMA InsertProgress ==
  ASSUME NEW n, Good(n, {}), NEW d \in Addr, ~Present(n, d), d # n.ip,
         NEW next, NEW hops, Hop(d, next, hops), NEW seqno \in Seqno, NEW life \in Life
  PROVE  Progress(n, rt_table_insert(n, d, next, hops, seqno, life), life, {})
<1> DEFINE m == rt_table_insert(n, d, next, hops, seqno, life)
<1>1. n \in Node /\ n.ip \in Addr
  BY DEF Good, Node
<1>2. /\ m.ip = n.ip /\ m.num_entries = (n.num_entries + 1) % U32
      /\ Learned(m.rt[d], next, hops, seqno) /\ (life = "POS" => m.rt[d].armed)
      /\ \A u \in Addr \ {d} : m.rt[u] = n.rt[u]
  BY <1>1, InsertEffect
<1> HIDE DEF m
<1>3. Entries(m) = Entries(n) \cup {d} /\ d \notin Entries(n)
  BY <1>2 DEF Entries, Present, Learned
<1>4. Cardinality(Entries(m)) = Cardinality(Entries(n)) + 1
  BY <1>3, EntriesFinite, FS_AddElement
<1>5. Tidy(n) => Tidy(m)
  BY <1>1, <1>2, <1>4, EntriesFinite, ModIncr, U32Assumption DEF Tidy, Counted, Present
<1>6. life = "POS" /\ Timed(n) => Timed(m)
  BY <1>2 DEF Timed, Learned, Valid
<1>7. \A u \in Addr : Improves(n.rt[u], m.rt[u])
  <2>1. \A u \in Addr : n.rt[u] \in Entry
    BY <1>1 DEF Node
  <2> QED BY <1>2, <2>1, NoOlderRefl DEF Improves, Present
<1> QED BY <1>2, <1>5, <1>6, <1>7 DEF Progress, m

\* An entry that is replaced by one that is no older.
LEMMA UpdateProgress ==
  ASSUME NEW n, Good(n, {}), NEW d \in Addr, Present(n, d),
         NEW next, NEW hops, Hop(d, next, hops), NEW seqno \in Seqno, NEW life \in Life,
         NEW X,
         \/ d \in X
         \/ n.rt[d].state # "VALID" \/ n.rt[d].seqno = 0 \/ n.rt[d].unidir
         \/ Signed(seqno) > Signed(n.rt[d].seqno)
         \/ seqno = n.rt[d].seqno /\ hops <= n.rt[d].hopcnt
  PROVE  Progress(n, rt_table_update(n, d, next, hops, seqno, life), life, X)
<1> DEFINE m == rt_table_update(n, d, next, hops, seqno, life)
<1>1. n \in Node /\ n.ip \in Addr
  BY DEF Good, Node
<1>2. /\ m.ip = n.ip /\ m.num_entries = n.num_entries
      /\ Learned(m.rt[d], next, hops, seqno)
      /\ life = "POS" /\ n.rt[d].armed => m.rt[d].armed
      /\ \A u \in Addr \ {d} : Mild(n.rt[u], m.rt[u])
  BY UpdateEffect
<1> HIDE DEF m
<1>3. Entries(m) = Entries(n)
  BY <1>2 DEF Entries, Present, Learned, Mild
<1>4. Tidy(n) => Tidy(m)
  BY <1>1, <1>2, <1>3 DEF Tidy, Counted, Entries
<1>5. life = "POS" /\ Timed(n) => Timed(m)
  <2>1. Timed(n) => n.rt[d].armed
    BY <1>1 DEF Timed, Good, EntrySound, Present, Valid, Node, Entry
  <2> QED BY <1>2, <2>1 DEF Timed, Mild, Valid
<1>6. \A u \in Addr \ X : Improves(n.rt[u], m.rt[u])
  <2> SUFFICES ASSUME NEW u \in Addr \ X PROVE Improves(n.rt[u], m.rt[u])
    OBVIOUS
  <2>1. CASE u = d
    BY <1>2, <2>1 DEF Improves, Learned, NoOlder
  <2>2. CASE u # d
    <3>1. n.rt[u] \in Entry
      BY <1>1 DEF Node
    <3> QED BY <1>2, <2>2, <3>1 DEF Improves, Mild, NoOlder, Entry
  <2> QED BY <2>1, <2>2
<1> QED BY <1>2, <1>4, <1>5, <1>6 DEF Progress, m

\* An entry that is deleted.
LEMMA DeleteProgress ==
  ASSUME NEW n, Good(n, {}), NEW d \in Addr, Present(n, d), NEW life
  PROVE  Progress(n, rt_table_delete(n, d), life, {})
<1> DEFINE m == rt_table_delete(n, d)
<1>1. n \in Node /\ n.ip \in Addr
  BY DEF Good, Node
<1>2. /\ m.ip = n.ip /\ m.num_entries = (n.num_entries - 1) % U32
      /\ m.rt[d].state = "NONE"
      /\ \A u \in Addr \ {d} : m.rt[u] = n.rt[u]
  BY <1>1, DeleteEffect DEF NoEntry
<1> HIDE DEF m
<1>3. Entries(n) = Entries(m) \cup {d} /\ d \notin Entries(m)
  BY <1>2 DEF Entries, Present
<1>4. Cardinality(Entries(n)) = Cardinality(Entries(m)) + 1
  BY <1>3, EntriesFinite, FS_AddElement
<1>5. Tidy(n) => Tidy(m)
  <2> DEFINE c == Cardinality(Entries(n))
  <2>1. ((c % U32) - 1) % U32 = (c - 1) % U32
    BY EntriesFinite, ModDecr, U32Assumption
  <2>2. c - 1 = Cardinality(Entries(m))
    BY <1>4, EntriesFinite
  <2>3. Counted(n) => Counted(m)
    BY <1>2, <2>1, <2>2 DEF Counted
  <2> QED BY <1>1, <1>2, <2>3 DEF Tidy, Present
<1>6. Timed(n) => Timed(m)
  BY <1>2 DEF Timed, Valid
<1>7. \A u \in Addr : Improves(n.rt[u], m.rt[u])
  <2>1. \A u \in Addr : n.rt[u] \in Entry
    BY <1>1 DEF Node
  <2> QED BY <1>2, <2>1, NoOlderRefl DEF Improves
<1> QED BY <1>2, <1>5, <1>6, <1>7 DEF Progress, m

-----------------------------------------------------------------------------
\* What neighbor_add leaves of the VALID entries.
Nearer(n, a) ==
  \A d \in Addr : Valid(n, d) =>
    /\ Valid(a, d) /\ a.rt[d].unidir = n.rt[d].unidir
    /\ a.rt[d].seqno = n.rt[d].seqno /\ a.rt[d].hopcnt <= n.rt[d].hopcnt

LEMMA NeighborAddProgress ==
  ASSUME NEW n, Good(n, {}), NEW src \in Addr, src # n.ip
  PROVE  LET a == neighbor_add(n, src)
         IN  Progress(n, a, "POS", {}) /\ Nearer(n, a)
<1> DEFINE s == n.rt[src].seqno
           a == neighbor_add(n, src)
<1>1. Hop(src, src, 1) /\ 0 \in Seqno /\ "POS" \in Life /\ n \in Node
  BY U32Assumption DEF Hop, Seqno, Life, Good
<1>2. /\ s \in Seqno
      /\ \A d \in Addr : n.rt[d] \in Entry /\ n.rt[d].hopcnt \in Nat
      /\ \A d \in Addr : EntrySound(d, n.rt[d], n.expl[d])
  BY DEF Good, Node, Entry
<1>3. CASE ~Present(n, src)
  <2>1. a = rt_table_insert(n, src, src, 1, 0, "POS")
    BY <1>3 DEF neighbor_add
  <2>2. \A u \in Addr \ {src} : a.rt[u] = n.rt[u]
    BY <1>1, <2>1, InsertEffect
  <2>3. Nearer(n, a)
    BY <1>2, <1>3, <2>2 DEF Nearer, Valid, Present
  <2> QED BY <1>1, <1>3, <2>1, <2>3, InsertProgress
<1>4. CASE Present(n, src) /\ n.rt[src].unidir
  <2>1. a = n
    BY <1>4 DEF neighbor_add
  <2> QED BY <1>1, <1>2, <2>1, QuietRefl, QuietProgress DEF Nearer
<1>5. CASE Present(n, src) /\ ~n.rt[src].unidir
  <2>1. a = rt_table_update(n, src, src, 1, s, "POS")
    BY <1>5 DEF neighbor_add
  <2> HIDE DEF a
  <2>2. /\ Learned(a.rt[src], src, 1, s) /\ a.rt[src].unidir = n.rt[src].unidir
        /\ \A u \in Addr \ {src} : a.rt[u] = n.rt[u]
    <3> HIDE DEF s
    <3> QED BY <1>1, <1>2, <1>5, <2>1, UpdateEffect
  <2>3. 1 <= n.rt[src].hopcnt
    BY <1>2, <1>5 DEF EntrySound, Present
  <2>4. Nearer(n, a)
    BY <1>2, <2>2, <2>3 DEF Nearer, Learned, Valid
  <2>5. Progress(n, a, "POS", {})
    <3>1. s = n.rt[src].seqno
      OBVIOUS
    <3> HIDE DEF s
    <3> QED BY <1>1, <1>2, <1>5, <2>1, <2>3, <3>1, UpdateProgress
  <2> QED BY <2>4, <2>5 DEF a
<1> QED BY <1>3, <1>4, <1>5

\* A handler that runs after neighbor_add.
LEMMA NearerProgress ==
  ASSUME NEW n \in Node, NEW a \in Node, NEW m \in Node, NEW life, NEW X,
         Progress(n, a, "POS", {}), Nearer(n, a), Progress(a, m, life, X)
  PROVE  Progress(n, m, life, X)
<1>1. \A d \in Addr \ X : Improves(n.rt[d], m.rt[d])
  <2> SUFFICES ASSUME NEW d \in Addr \ X, n.rt[d].state = "VALID", m.rt[d].state = "VALID",
                      n.rt[d].seqno # 0, ~n.rt[d].unidir
               PROVE  NoOlder(n.rt[d], m.rt[d])
    BY DEF Improves
  <2>1. n.rt[d] \in Entry /\ a.rt[d] \in Entry /\ m.rt[d] \in Entry
    BY DEF Node
  <2>2. /\ a.rt[d].state = "VALID" /\ ~a.rt[d].unidir /\ a.rt[d].seqno # 0
        /\ NoOlder(n.rt[d], a.rt[d])
    BY DEF Nearer, Valid, NoOlder
  <2>3. NoOlder(a.rt[d], m.rt[d])
    BY <2>2 DEF Progress, Improves
  <2> QED BY <2>1, <2>2, <2>3, NoOlderTrans
<1> QED BY <1>1 DEF Progress

\* The reverse route that a RREQ of another host sets up.
LEMMA ReverseProgress ==
  ASSUME NEW n, Good(n, {}), NEW m \in RREQ, NEW src \in Addr, m.orig # n.ip,
         m.hopcnt = 0 <=> src = m.orig
  PROVE  Progress(n, RREQ_reverse(n, m, src), "POS", {})
<1> DEFINE o == m.orig
           h == m.hopcnt + 1
           s == m.orig_seqno
           e == n.rt[o]
           c == Fresher(e, s, e.state = "INVALID" \/ h < e.hopcnt)
<1>1. o \in Addr /\ s \in Seqno /\ Hop(o, src, h) /\ "POS" \in Life /\ o # n.ip
  BY DEF RREQ, Hop, Life
<1>2. RREQ_reverse(n, m, src) =
        IF ~Present(n, o) THEN rt_table_insert(n, o, src, h, s, "POS")
        ELSE IF c THEN rt_table_update(n, o, src, h, s, "POS") ELSE n
  BY DEF RREQ_reverse
<1>3. e.hopcnt \in Nat /\ n \in Node /\ h \in Nat
  BY <1>1 DEF Good, Node, Entry, Hop
<1> HIDE DEF o, h, s
<1>4. CASE ~Present(n, o)
  BY <1>1, <1>2, <1>4, InsertProgress
<1>5. CASE Present(n, o) /\ c
  <2>1. \/ e.state # "VALID" \/ e.seqno = 0
        \/ Signed(s) > Signed(e.seqno)
        \/ s = e.seqno /\ h <= e.hopcnt
    BY <1>3, <1>5 DEF Fresher
  <2> QED BY <1>1, <1>2, <1>5, <2>1, UpdateProgress
<1>6. CASE Present(n, o) /\ ~c
  BY <1>2, <1>3, <1>6, QuietRefl, QuietProgress
<1> QED BY <1>4, <1>5, <1>6

LEMMA AnswerQuiet ==
  ASSUME NEW n, Good(n, {}), NEW m \in RREQ, Present(n, m.orig)
  PROVE  Quiet(n, RREQ_answer(n, m))
<1> DEFINE s == IF m.dest_seqno = 0 THEN n.seqno
                ELSE IF Signed(n.seqno) < Signed(m.dest_seqno) THEN m.dest_seqno
                ELSE IF n.seqno = m.dest_seqno THEN seqno_incr(n.seqno)
                ELSE n.seqno
           a == [n EXCEPT !.seqno = s]
           b == rrep_create(a, 0, n.ip, s, m.orig, "POS")
           c == rrep_send(b, m.orig, NoAddr)
<1>1. s \in Seqno
  BY IncrType DEF Good, Node, RREQ
<1>2. RREQ_answer(n, m) = c
  BY DEF RREQ_answer
<1> HIDE DEF s
<1>3. Good(a, {}) /\ a.rt = n.rt /\ Quiet(n, a)
  <2>1. /\ Good(a, {}) /\ a.ip = n.ip /\ a.num_entries = n.num_entries /\ a.seek = n.seek
        /\ a.nl = n.nl /\ a.expl = n.expl /\ a.rt = n.rt /\ a.out = n.out
    BY <1>1 DEF Good, Node
  <2> QED BY <2>1, SameQuiet
<1> HIDE DEF a
<1>4. m.orig \in Addr /\ n.ip \in Addr /\ "POS" \in Life /\ 0 \in Nat
  BY DEF RREQ, Good, Node, Life
<1>5. Good(b, {}) /\ b.rt = n.rt /\ Quiet(a, b)
  BY <1>1, <1>3, <1>4, RrepCreateGood, BufferQuiet DEF rrep_create, Good
<1> HIDE DEF b
<1>6. Present(b, m.orig)
  BY <1>5 DEF Present
<1>7. Good(c, {}) /\ Quiet(b, c)
  BY <1>4, <1>5, <1>6, RrepSendGood, RrepSendQuiet
<1> HIDE DEF c
<1> QED BY <1>2, <1>3, <1>5, <1>7, QuietTrans DEF Good

LEMMA AnswerForQuiet ==
  ASSUME NEW n, Good(n, {}), NEW m \in RREQ, Present(n, m.orig), Present(n, m.dest),
         NEW life \in Life
  PROVE  Quiet(n, RREQ_answer_for(n, m, life))
<1> DEFINE o  == m.orig
           d  == m.dest
           f  == n.rt[d]
           a  == rrep_create(n, f.hopcnt, d, f.seqno, o, life)
           n1 == rrep_send(a, o, d)
           r  == n1.rt[o]
           b  == rrep_create(n1, r.hopcnt, o, r.seqno, d, life)
           c  == rrep_send(b, d, o)
<1>1. RREQ_answer_for(n, m, life) = IF ~m.g THEN n1 ELSE c
  BY DEF RREQ_answer_for
<1>2. o \in Addr /\ d \in Addr /\ Present(n, o) /\ Present(n, d)
  BY DEF RREQ
<1>3. f.hopcnt \in Nat /\ f.seqno \in Seqno
  BY <1>2 DEF Good, Node, Entry
<1> HIDE DEF o, d, f
<1>4. Good(a, {}) /\ a.rt = n.rt /\ Quiet(n, a)
  BY <1>2, <1>3, RrepCreateGood, BufferQuiet DEF rrep_create, Good
<1> HIDE DEF a
<1>5. Good(n1, {}) /\ Present(n1, o) /\ Present(n1, d) /\ Quiet(a, n1)
  <2>1. Present(a, o) /\ Present(a, d)
    BY <1>2, <1>4 DEF Present
  <2> QED BY <1>2, <1>4, <2>1, RrepSendGood, RrepSendQuiet DEF Stays
<1> HIDE DEF n1
<1>6. r.hopcnt \in Nat /\ r.seqno \in Seqno
  BY <1>2, <1>5 DEF Good, Node, Entry
<1> HIDE DEF r
<1>7. Good(b, {}) /\ b.rt = n1.rt /\ Quiet(n1, b)
  BY <1>2, <1>5, <1>6, RrepCreateGood, BufferQuiet DEF rrep_create, Good
<1> HIDE DEF b
<1>8. Present(b, o) /\ Present(b, d)
  BY <1>5, <1>7 DEF Present
<1>9. Good(c, {}) /\ Quiet(b, c)
  BY <1>2, <1>7, <1>8, RrepSendGood, RrepSendQuiet
<1> HIDE DEF c
<1>10. Quiet(n, n1)
  BY <1>4, <1>5, QuietTrans DEF Good
<1> QED BY <1>1, <1>7, <1>9, <1>10, QuietTrans DEF Good

LEMMA RreqForwardQuiet ==
  ASSUME NEW n, Good(n, {}), NEW m \in RREQ, NEW ttl \in Int
  PROVE  Quiet(n, rreq_forward(n, m, ttl))
<1>1. PICK q : rreq_forward(n, m, ttl) = aodv_socket_send([n EXCEPT !.send_buf = q], BCast, ttl)
  BY DEF rreq_forward
<1> DEFINE r == rreq_forward(n, m, ttl)
<1>2. /\ r.ip = n.ip /\ r.num_entries = n.num_entries /\ r.seek = n.seek
      /\ r.nl = n.nl /\ r.expl = n.expl /\ r.rt = n.rt /\ n.out \subseteq r.out
  BY <1>1 DEF aodv_socket_send, Node, Good
<1> QED BY <1>2, SameQuiet

\* rreq_record_insert.
LEMMA RreqRecordQuiet ==
  ASSUME NEW n, Good(n, {}), NEW m \in RREQ
  PROVE  LET a == [n EXCEPT !.records = @ \cup {<<m.orig, m.rreq_id>>}]
         IN  Good(a, {}) /\ Quiet(n, a) /\ a.nl = n.nl /\ a.rt = n.rt
<1> DEFINE a == [n EXCEPT !.records = @ \cup {<<m.orig, m.rreq_id>>}]
<1>1. /\ Good(a, {}) /\ a.ip = n.ip /\ a.num_entries = n.num_entries /\ a.seek = n.seek
      /\ a.nl = n.nl /\ a.expl = n.expl /\ a.rt = n.rt /\ a.out = n.out
  BY DEF Good, Node, RREQ
<1> HIDE DEF a
<1> QED BY <1>1, SameQuiet DEF a

\* rreq_process sets up a reverse route, and nothing else.
LEMMA RreqProcessProgress ==
  ASSUME NEW n, Good(n, {}), NEW m \in RREQ, NEW src \in Addr,
         m.hopcnt = 0 <=> src = m.orig, NEW ttl \in Int, NEW life \in Life
  PROVE  Progress(n, rreq_process(n, m, src, ttl, life), "POS", {})
<1> DEFINE a  == [n EXCEPT !.records = @ \cup {<<m.orig, m.rreq_id>>}]
           n1 == RREQ_reverse(a, m, src)
           f  == n1.rt[m.dest]
           g  == /\ f.state = "VALID" /\ ~m.d /\ f.seqno # 0
                 /\ Signed(f.seqno) >= Signed(m.dest_seqno)
           r  == rreq_process(n, m, src, ttl, life)
<1>1. \/ r = n
      \/ /\ m.orig # n.ip
         /\ \/ r = RREQ_answer(n1, m)
            \/ g /\ r = RREQ_answer_for(n1, m, life)
            \/ r = rreq_forward(n1, m, ttl - 1)
            \/ r = n1
  BY DEF rreq_process
<1>2. g => Present(n1, m.dest)
  BY DEF Present
<1>3. Good(a, {}) /\ a.ip = n.ip /\ Quiet(n, a) /\ n \in Node
  BY RreqRecordQuiet DEF Good, Quiet, Tame
<1>4. a.rt = n.rt /\ a.num_entries = n.num_entries
  BY <1>3 DEF Good, Node
<1>5. Good(r, {})
  BY RreqProcessGood
<1> HIDE DEF a, g, r
<1>6. r = n => Progress(n, r, "POS", {})
  BY <1>3, QuietRefl, QuietProgress
<1>7. ASSUME r # n PROVE Progress(n, r, "POS", {})
  <2>1. m.orig # n.ip /\ m.orig # a.ip
    BY <1>1, <1>3, <1>7
  <2>2. Good(n1, {}) /\ Present(n1, m.orig) /\ Progress(a, n1, "POS", {})
    BY <1>3, <2>1, ReverseGood, ReverseProgress
  <2> HIDE DEF n1
  <2>3. Progress(n, n1, "POS", {})
    BY <1>3, <1>4, <2>2 DEF Progress, Tidy, Counted, Entries, Timed, Present, Valid
  <2>4. Quiet(n1, r)
    BY <1>1, <1>2, <1>7, <2>2, AnswerQuiet, AnswerForQuiet, RreqForwardQuiet, QuietRefl
  <2> QED BY <1>3, <1>5, <2>2, <2>3, <2>4, ProgressQuiet DEF Good
<1> QED BY <1>6, <1>7 DEF r

\* rrep_process: the RREP_ack, if one is asked for.
LEMMA RrepAckQuiet ==
  ASSUME NEW n, Good(n, {}), NEW d \in Addr, Present(n, d), NEW a
  PROVE  LET m == IF a THEN RREP_ack_send(n, n.rt[d].next) ELSE n
         IN  Good(m, {}) /\ Present(m, d) /\ Quiet(n, m)
<1> DEFINE x == n.rt[d].next
           b == [n EXCEPT !.send_buf = [type |-> "RREP_ACK"]]
           k == aodv_socket_send(b, x, MAXTTL)
<1>1. x \in Addr \cup {BCast} /\ MAXTTL \in Int
  BY NextType DEF MAXTTL
<1>2. [type |-> "RREP_ACK"] \in Msg
  BY DEF Msg, RREP_ack
<1>3. Good(b, {}) /\ b.rt = n.rt /\ Quiet(n, b)
  BY <1>2, BufferGood, BufferQuiet DEF Good, Node
<1>4. RREP_ack_send(n, n.rt[d].next) = k
  BY DEF RREP_ack_send
<1> HIDE DEF x, b
<1>5. Good(k, {}) /\ k.rt = n.rt /\ Quiet(b, k)
  BY <1>1, <1>3, SocketGood, SocketSame, SocketQuiet DEF Good
<1> HIDE DEF k
<1>6. Quiet(n, k)
  BY <1>3, <1>5, QuietTrans DEF Good
<1> QED BY <1>4, <1>5, <1>6, QuietRefl DEF Present

\* rrep_process: the RERR about a repaired route, if one is due.
LEMMA RepairedQuiet ==
  ASSUME NEW n, Good(n, {}), NEW e, NEW d \in Addr
  PROVE  Quiet(n, RREP_repaired(n, e, d))
<1> DEFINE q == rerr_create(n, {d}, TRUE)
           b == [n EXCEPT !.send_buf = q]
           c == aodv_socket_send(b, BCast, 1)
<1>1. q \in Msg
  BY RerrType
<1>2. RREP_repaired(n, e, d) \in {n, b, c}
  BY DEF RREP_repaired
<1> HIDE DEF q
<1>3. Good(b, {}) /\ Quiet(n, b)
  BY <1>1, BufferGood, BufferQuiet DEF Good
<1> HIDE DEF b
<1>4. BCast \in Addr \cup {BCast} /\ 1 \in Int
  OBVIOUS
<1>5. Good(c, {}) /\ Quiet(b, c)
  BY <1>3, <1>4, SocketGood, SocketQuiet DEF Good
<1> HIDE DEF c
<1> QED BY <1>2, <1>3, <1>5, QuietRefl, QuietTrans DEF Good

\* rrep_process sets up a route to the host that the RREP is about.
LEMMA RrepProcessProgress ==
  ASSUME NEW n, Good(n, {}), NEW m \in RREP, NEW src \in Addr,
         m.hopcnt = 0 <=> src = m.dest, NEW ttl \in Int
  PROVE  Progress(n, rrep_process(n, m, src, ttl), m.lifetime, {})
<1> DEFINE d   == m.dest
           h   == m.hopcnt + 1
           s   == m.dest_seqno
           l   == m.lifetime
           e   == n.rt[d]
           n1  == IF ~Present(n, d) THEN rt_table_insert(n, d, src, h, s, l)
                                    ELSE rt_table_update(n, d, src, h, s, l)
           n2  == IF m.a THEN RREP_ack_send(n1, n1.rt[d].next) ELSE n1
           r   == rrep_process(n, m, src, ttl)
<1>1. \/ r = n
      \/ /\ d # n.ip
         /\ Present(n, d) => Fresher(e, s, e.state = "INVALID" \/ e.unidir \/ h < e.hopcnt)
         /\ \/ r = n2
            \/ r = RREP_repaired(n2, e, d)
            \/ Valid(n2, m.orig) /\ r = rrep_forward(n2, m, m.orig, d, ttl - 1)
  BY DEF rrep_process
<1>2. d \in Addr /\ s \in Seqno /\ Hop(d, src, h) /\ l \in Life /\ m.orig \in Addr
  BY DEF RREP, Hop
<1>3. Good(r, {})
  BY RrepProcessGood
<1>4. e.hopcnt \in Nat /\ n \in Node /\ h \in Nat
  BY <1>2 DEF Good, Node, Entry, Hop
<1> HIDE DEF d, h, s, l, r
<1>5. r = n => Progress(n, r, l, {})
  BY <1>4, QuietRefl, QuietProgress
<1>6. ASSUME r # n PROVE Progress(n, r, l, {})
  <2>1. Good(n1, {}) /\ Present(n1, d) /\ Progress(n, n1, l, {})
    <3>1. CASE ~Present(n, d)
      BY <1>1, <1>2, <1>6, <3>1, InsertGood, InsertProgress
    <3>2. CASE Present(n, d)
      <4>1. Good(n1, {}) /\ Present(n1, d)
        BY <1>2, <3>2, UpdateGood DEF Present, Valid
      <4>2. \/ e.state # "VALID" \/ e.seqno = 0 \/ e.unidir
            \/ Signed(s) > Signed(e.seqno)
            \/ s = e.seqno /\ h <= e.hopcnt
        BY <1>1, <1>4, <1>6, <3>2 DEF Fresher
      <4>3. Progress(n, rt_table_update(n, d, src, h, s, l), l, {})
        BY <1>2, <3>2, <4>2, UpdateProgress
      <4> QED BY <3>2, <4>1, <4>3
    <3> QED BY <3>1, <3>2
  <2> HIDE DEF n1
  <2>2. Good(n2, {}) /\ Present(n2, d) /\ Quiet(n1, n2)
    BY <1>2, <2>1, RrepAckQuiet
  <2> HIDE DEF n2, e
  <2>3. Quiet(n2, RREP_repaired(n2, e, d))
    BY <1>2, <2>2, RepairedQuiet
  <2>4. Valid(n2, m.orig) => Quiet(n2, rrep_forward(n2, m, m.orig, d, ttl - 1))
    <3>1. Valid(n2, m.orig) => Present(n2, m.orig)
      BY DEF Valid, Present
    <3> QED BY <1>2, <2>2, <3>1, RrepForwardQuiet
  <2>5. Quiet(n2, r)
    BY <1>1, <1>6, <2>3, <2>4, QuietRefl
  <2>6. Progress(n, n2, l, {})
    BY <1>4, <2>1, <2>2, ProgressQuiet DEF Good
  <2> QED BY <1>3, <1>4, <2>2, <2>5, <2>6, ProgressQuiet DEF Good
<1> QED BY <1>5, <1>6 DEF r, l

\* rerr_process: a number that it writes over a route that stays VALID is no older.
LEMMA RerrProcessProgress ==
  ASSUME NEW n, Good(n, {}), NEW m \in RERR, NEW src \in Addr
  PROVE  Progress(n, rerr_process(n, m, src), "POS", {})
<1> DEFINE S  == {d \in m.dests : /\ Valid(n, d) /\ n.rt[d].next = src
                                  /\ ~(Signed(n.rt[d].seqno) > Signed(m.seqno[d]))}
           n1 == IF m.n THEN n ELSE rt_table_invalidate(n, S)
           g(d) == [n1.rt[d] EXCEPT !.seqno = m.seqno[d]]
           rt == [d \in Addr |-> IF d \in S THEN g(d) ELSE n1.rt[d]]
           n2 == [n1 EXCEPT !.rt = rt]
           L  == {d \in S : n2.rt[d].prec # {} /\ ~n2.rt[d].repair}
           to == rerr_dest(n2, L)
           n3 == precursor_list_destroy(n2, {d \in S : n2.rt[d].state = "INVALID"})
           q  == rerr_create(n2, L, m.n)
           n4 == [n3 EXCEPT !.send_buf = q]
           n5 == aodv_socket_send(n4, to, 1)
           r  == rerr_process(n, m, src)
<1>1. r \in {n3, n4, n5}
  BY DEF rerr_process
<1>2. m.dests \in SUBSET Addr /\ m.n \in BOOLEAN /\ \A d \in Addr : m.seqno[d] \in Seqno
  BY DEF RERR
<1>3. /\ S \in SUBSET Addr /\ L \in SUBSET Addr
      /\ \A d \in S : ~(Signed(n.rt[d].seqno) > Signed(m.seqno[d])) /\ Valid(n, d)
  BY <1>2
<1>4. Good(r, {}) /\ n \in Node
  BY RerrProcessGood DEF Good
<1> HIDE DEF S, r
<1>5. /\ n1 \in Node /\ Tame(n, n1)
      /\ m.n => n1 = n
      /\ ~m.n => \A d \in S : ~Valid(n1, d)
  BY <1>3, <1>4, InvalidateGood, InvalidateTame, TameRefl, NodeIsGood
<1> HIDE DEF n1
<1>6. \A d \in Addr : n1.rt[d] \in Entry
  BY <1>5 DEF Node
<1>7. \A d \in Addr : /\ g(d) \in Entry /\ g(d).seqno = m.seqno[d] /\ g(d).state = n1.rt[d].state
                      /\ g(d).hopcnt = n1.rt[d].hopcnt /\ g(d).armed = n1.rt[d].armed
  BY <1>2, <1>6 DEF Entry
<1> HIDE DEF g
<1>8. /\ rt \in [Addr -> Entry]
      /\ \A d \in Addr : rt[d].state = n1.rt[d].state /\ rt[d].hopcnt = n1.rt[d].hopcnt
      /\ \A d \in Addr : rt[d].armed = n1.rt[d].armed
      /\ \A d \in Addr : rt[d].seqno = IF d \in S THEN m.seqno[d] ELSE n1.rt[d].seqno
  BY <1>6, <1>7
<1> HIDE DEF rt
<1>9. n2 \in Node /\ n2.rt = rt /\ n2.ip = n1.ip /\ n2.num_entries = n1.num_entries
  BY <1>5, <1>8 DEF Node
<1>10. Progress(n, n2, "POS", {})
  <2>1. Progress(n, n1, "POS", {})
    BY <1>4, <1>5, TameProgress
  <2>2. Entries(n2) = Entries(n1)
    BY <1>8, <1>9 DEF Entries, Present
  <2>3. Tidy(n1) => Tidy(n2)
    <3>1. n1.ip \in Addr
      BY <1>5 DEF Node
    <3> QED BY <1>8, <1>9, <2>2, <3>1 DEF Tidy, Counted, Present
  <2>4. Timed(n1) => Timed(n2)
    BY <1>8, <1>9 DEF Timed, Valid
  <2>5. \A d \in Addr : Improves(n.rt[d], n2.rt[d])
    <3> SUFFICES ASSUME NEW d \in Addr, n.rt[d].state = "VALID", n2.rt[d].state = "VALID"
                 PROVE  NoOlder(n.rt[d], n2.rt[d])
      BY DEF Improves
    <3>1. n.rt[d] \in Entry /\ n1.rt[d].state = "VALID" /\ Mild(n.rt[d], n1.rt[d])
      BY <1>4, <1>5, <1>8, <1>9 DEF Node, Tame
    <3>2. n1.rt[d].seqno = n.rt[d].seqno /\ n1.rt[d].hopcnt = n.rt[d].hopcnt
      BY <3>1 DEF Mild
    <3>3. CASE d \in S
      <4>1. ~(Signed(n.rt[d].seqno) > Signed(m.seqno[d])) /\ n2.rt[d].seqno = m.seqno[d]
        BY <1>3, <1>8, <1>9, <3>3
      <4>2. /\ n.rt[d].seqno \in Seqno /\ m.seqno[d] \in Seqno
            /\ n.rt[d].hopcnt \in Nat /\ n2.rt[d].hopcnt = n.rt[d].hopcnt
        BY <1>2, <1>8, <1>9, <3>1, <3>2 DEF Entry
      <4>3. Signed(m.seqno[d]) > Signed(n.rt[d].seqno) \/ m.seqno[d] = n.rt[d].seqno
        BY <4>1, <4>2, SignedType, SignedEqual
      <4> QED BY <4>1, <4>2, <4>3 DEF NoOlder
    <3>4. CASE d \notin S
      BY <1>8, <1>9, <3>1, <3>2, <3>4 DEF NoOlder, Entry
    <3> QED BY <3>3, <3>4
  <2> QED BY <1>9, <2>1, <2>3, <2>4, <2>5 DEF Progress
<1> HIDE DEF n2, L
<1>11. n3 \in Node /\ Tame(n2, n3) /\ q \in Msg /\ to \in Addr \cup {BCast} /\ 1 \in Int
  BY <1>2, <1>3, <1>9, NodeIsGood, PrecursorDestroyGood, RerrType, RerrDestType, DestroyTame
<1> HIDE DEF n3, q, to
<1>12. n4 \in Node /\ Tame(n3, n4)
  BY <1>11, NodeIsGood, BufferGood, BufferQuiet DEF Quiet
<1> HIDE DEF n4
<1>13. n5 \in Node /\ Tame(n4, n5)
  BY <1>11, <1>12, NodeIsGood, SocketGood, SocketQuiet DEF Quiet
<1> HIDE DEF n5
<1>14. Tame(n2, r)
  BY <1>1, <1>11, <1>12, <1>13, TameTrans
<1>15. Progress(n, r, "POS", {})
  BY <1>4, <1>9, <1>10, <1>14, ProgressTame DEF Good
<1> QED BY <1>15 DEF r

\* hello_process may go back to an older number of the neighbour itself.
LEMMA HelloProcessProgress ==
  ASSUME NEW n, Good(n, {}), NEW m \in RREP, Present(n, m.dest)
  PROVE  Progress(n, hello_process(n, m), "POS", {m.dest})
<1> DEFINE d == m.dest
           s == m.dest_seqno
           k == rt_table_update(n, d, d, 1, s, "POS")
           h(j) == [j.rt[d] EXCEPT !.hello = TRUE]
           on(j) == [j EXCEPT !.rt[d] = h(j)]
           r == hello_process(n, m)
<1>1. d \in Addr /\ s \in Seqno /\ Hop(d, d, 1) /\ "POS" \in Life /\ Present(n, d) /\ n \in Node
  BY DEF RREP, Hop, Life, Good
<1>2. r \in {on(n), on(k)}
  BY DEF hello_process
<1> HIDE DEF s
<1>3. ASSUME NEW j \in Node PROVE on(j) \in Node /\ Quiet(j, on(j))
  <2>1. j.rt[d] \in Entry
    BY <1>1 DEF Node
  <2>2. h(j) \in Entry /\ Mild(j.rt[d], h(j)) /\ h(j).state = j.rt[d].state /\ Loyal(j.rt[d], h(j))
    BY <2>1 DEF Mild, Loyal, Entry
  <2> HIDE DEF h
  <2> QED BY <1>1, <2>2, EntryQuiet, EntryGood, NodeIsGood
<1> HIDE DEF on, d, r
<1>4. Good(k, {}) /\ Progress(n, k, "POS", {d})
  BY <1>1, UpdateGood, UpdateProgress
<1> HIDE DEF k
<1>5. Progress(n, n, "POS", {d})
  BY <1>1, QuietRefl, QuietProgress DEF Progress
<1>6. Progress(n, r, "POS", {d})
  BY <1>1, <1>2, <1>3, <1>4, <1>5, ProgressQuiet DEF Good
<1> QED BY <1>6 DEF r, d

LEMMA AckQuiet ==
  ASSUME NEW n \in Node, NEW d \in Addr, NEW b \in BOOLEAN
  PROVE  Quiet(n, [n EXCEPT !.rt[d].ack = b])
<1> DEFINE e == [n.rt[d] EXCEPT !.ack = b]
<1>1. n.rt[d] \in Entry
  BY DEF Node
<1>2. Mild(n.rt[d], e) /\ e.state = n.rt[d].state /\ Loyal(n.rt[d], e)
  BY <1>1 DEF Entry, Mild, Loyal
<1>3. [n EXCEPT !.rt[d].ack = b] = [n EXCEPT !.rt[d] = e]
  OBVIOUS
<1> HIDE DEF e
<1> QED BY <1>2, <1>3, EntryQuiet

\* Any message of another host makes progress; one that gives a lifetime only sets
\* timers if the lifetime does, and a HELLO may go back to an older number of its
\* sender.
LEMMA PackageProgress ==
  ASSUME NEW n, Good(n, {}), NEW m, NEW src \in Addr, src # n.ip, NEW to, NEW ttl \in Int,
         NEW life \in Life, WellFormed(m, src, to, ttl)
  PROVE  Progress(n, aodv_socket_package_process(n, m, src, to, ttl, life),
                  IF m.type = "RREP" THEN m.lifetime ELSE "POS",
                  IF m.type = "RREP" /\ ttl = 1 /\ to = BCast THEN {src} ELSE {})
<1> DEFINE n1 == neighbor_add(n, src)
           r  == aodv_socket_package_process(n, m, src, to, ttl, life)
           l  == IF m.type = "RREP" THEN m.lifetime ELSE "POS"
           X  == IF m.type = "RREP" /\ ttl = 1 /\ to = BCast THEN {src} ELSE {}
<1>1. /\ Good(n1, {}) /\ Present(n1, src)
      /\ Progress(n, n1, "POS", {}) /\ Nearer(n, n1)
  BY NeighborAddGood, NeighborAddProgress
<1>2. Good(r, {})
  BY PackageGood
<1> SUFFICES Progress(n1, r, l, X)
  <2> HIDE DEF n1, r, l, X
  <2>1. n \in Node /\ n1 \in Node /\ r \in Node
    BY <1>1, <1>2 DEF Good
  <2>2. Progress(n, r, l, X)
    BY <1>1, <2>1, NearerProgress
  <2> QED BY <2>2 DEF r, l, X
<1>3. CASE m \in RREQ
  <2>1. m.type = "RREQ"
    BY <1>3 DEF RREQ
  <2>2. r = rreq_process(n1, m, src, ttl, life) /\ l = "POS" /\ X = {}
    BY <2>1 DEF aodv_socket_package_process
  <2> HIDE DEF n1, r, l, X
  <2> QED BY <1>1, <1>3, <2>1, <2>2, RreqProcessProgress DEF WellFormed
<1>4. CASE m \in RREP
  <2>1. m.type = "RREP"
    BY <1>4 DEF RREP
  <2>2. CASE ttl = 1 /\ to = BCast
    <3>1. r = hello_process(n1, m) /\ X = {m.dest} /\ m.dest = src
      BY <2>1, <2>2 DEF aodv_socket_package_process, WellFormed
    <3> HIDE DEF n1, r, X
    <3>2. Progress(n1, r, "POS", X)
      BY <1>1, <1>4, <3>1, HelloProcessProgress
    <3> QED BY <3>2 DEF Progress
  <2>3. CASE ~(ttl = 1 /\ to = BCast)
    <3>1. r = rrep_process(n1, m, src, ttl) /\ X = {} /\ l = m.lifetime
      BY <2>1, <2>3 DEF aodv_socket_package_process
    <3> HIDE DEF n1, r, l, X
    <3> QED BY <1>1, <1>4, <2>1, <3>1, RrepProcessProgress DEF WellFormed
  <2> QED BY <2>2, <2>3
<1>5. CASE m \in RERR
  <2>1. m.type = "RERR"
    BY <1>5 DEF RERR
  <2>2. r = rerr_process(n1, m, src) /\ l = "POS" /\ X = {}
    BY <2>1 DEF aodv_socket_package_process
  <2> HIDE DEF n1, r, l, X
  <2> QED BY <1>1, <1>5, <2>2, RerrProcessProgress
<1>6. CASE m \in RREP_ack
  <2>1. m.type = "RREP_ACK"
    BY <1>6 DEF RREP_ack
  <2>2. r = rrep_ack_process(n1, src) /\ l = "POS" /\ X = {}
    BY <2>1 DEF aodv_socket_package_process
  <2> HIDE DEF n1, r, l, X
  <2>3. Quiet(n1, r)
    BY <1>1, <2>2, AckQuiet, QuietRefl DEF rrep_ack_process, Good
  <2> QED BY <1>1, <1>2, <2>2, <2>3, QuietProgress DEF Good
<1> QED BY <1>3, <1>4, <1>5, <1>6 DEF WellFormed

-----------------------------------------------------------------------------
\* A step that leaves the table alone.
LEMMA SameTableProgress ==
  ASSUME NEW n, NEW k \in Node, NEW m, NEW life, NEW X, Progress(n, k, life, X),
         m.rt = k.rt, m.ip = k.ip, m.num_entries = k.num_entries
  PROVE  Progress(n, m, life, X)
BY DEF Progress, Tidy, Counted, Entries, Timed, Present, Valid

\* KAODVM_ROUTE_REQ, up to the entry of the seek list.
LEMMA DiscoveryQuiet ==
  ASSUME NEW n, Good(n, {}), NEW d \in Addr, n.seek[d].rreq_cnt = 0
  PROVE  \E k, q : /\ Good(k, {}) /\ Quiet(n, k) /\ q.rreq_cnt = 1
                   /\ rreq_route_discovery(n, d) = [k EXCEPT !.seek[d] = q]
<1> DEFINE s   == n.rt[d].seqno
           ttl == IF ~ExpandingRing THEN NET_DIAMETER
                  ELSE IF Present(n, d) THEN n.rt[d].hopcnt + TTL_INCREMENT ELSE TTL_START
           k   == KeepRoute(n, d)
           n1  == rreq_send(k, d, s, ttl)
           q   == [dest_seqno |-> s, ttl |-> ttl, rreq_cnt |-> 1]
<1>1. s \in Seqno /\ n.rt[d].hopcnt \in Nat
  BY DEF Good, Node, Entry
<1>2. ttl \in Nat
  BY <1>1 DEF NET_DIAMETER, TTL_INCREMENT, TTL_START
<1>3. rreq_route_discovery(n, d) = [n1 EXCEPT !.seek[d] = q]
  BY DEF rreq_route_discovery
<1> HIDE DEF s, ttl
<1>4. Good(k, {}) /\ Quiet(n, k)
  BY KeepRouteGood, KeepRouteQuiet DEF Good
<1> HIDE DEF k
<1>5. Good(n1, {}) /\ Quiet(k, n1) /\ q.rreq_cnt = 1
  BY <1>1, <1>2, <1>4, RreqSendGood, RreqSendQuiet
<1> HIDE DEF n1, q
<1>6. Quiet(n, n1)
  BY <1>4, <1>5, QuietTrans DEF Good
<1> QED BY <1>3, <1>5, <1>6

LEMMA NlSendRerrQuiet ==
  ASSUME NEW n, Good(n, {}), NEW s \in Addr, NEW d \in Addr
  PROVE  Quiet(n, nl_send_rerr(n, s, d))
<1> DEFINE q  == rerr_create(n, {d}, FALSE)
           b  == [n EXCEPT !.send_buf = q]
           k  == KeepRoute(b, d)
           to == IF Valid(n, s) THEN n.rt[s].next ELSE BCast
           m  == aodv_socket_send(k, to, 1)
<1>1. nl_send_rerr(n, s, d) = m
  BY DEF nl_send_rerr
<1>2. to \in Addr \cup {BCast} /\ 1 \in Int
  BY NextType DEF Valid, Present
<1>3. q \in Msg
  BY RerrType
<1> HIDE DEF q, to
<1>4. Good(b, {}) /\ Quiet(n, b)
  BY <1>3, BufferGood, BufferQuiet DEF Good
<1> HIDE DEF b
<1>5. Good(k, {}) /\ Quiet(b, k)
  BY <1>4, KeepRouteGood, KeepRouteQuiet DEF Good
<1> HIDE DEF k
<1>6. Good(m, {}) /\ Quiet(k, m)
  BY <1>2, <1>5, SocketGood, SocketQuiet DEF Good
<1> HIDE DEF m
<1> QED BY <1>1, <1>4, <1>5, <1>6, QuietTrans DEF Good

LEMMA RouteTimeoutsQuiet ==
  ASSUME NEW n \in Node, NEW fwd, NEW rev
  PROVE  Quiet(n, rt_table_update_route_timeouts(n, fwd, rev))
<1>1. PICK D : rt_table_update_route_timeouts(n, fwd, rev) =
                 [n EXCEPT !.rt = [d \in Addr |-> IF d \in D
                                     THEN rt_table_update_timeout(n.rt[d], "POS")
                                     ELSE n.rt[d]]]
  BY DEF rt_table_update_route_timeouts
<1> DEFINE g(d) == rt_table_update_timeout(n.rt[d], "POS")
           rt == [d \in Addr |-> IF d \in D THEN g(d) ELSE n.rt[d]]
<1>2. \A d \in Addr : n.rt[d] \in Entry
  BY DEF Node
<1>3. \A d \in Addr : Mild(n.rt[d], g(d)) /\ g(d).state = n.rt[d].state /\ Loyal(n.rt[d], g(d))
  BY <1>2 DEF rt_table_update_timeout, Mild, Loyal, Entry
<1> HIDE DEF g
<1>4. \A d \in Addr : Mild(n.rt[d], rt[d]) /\ rt[d].state = n.rt[d].state /\ Loyal(n.rt[d], rt[d])
  BY <1>3 DEF Mild, Loyal
<1>5. rt_table_update_route_timeouts(n, fwd, rev) = [n EXCEPT !.rt = rt]
  BY <1>1 DEF g
<1> HIDE DEF rt
<1> QED BY <1>4, <1>5, TableQuiet

\* A repair that is given up: the kernel is told once more.
LEMMA RepairTimeoutTame ==
  ASSUME NEW n, Good(n, {}), NEW d \in Addr, n.rt[d].state = "INVALID"
  PROVE  Tame(n, local_repair_timeout(n, d))
<1> DEFINE g  == [n.rt[d] EXCEPT !.repair = FALSE]
           x  == nl_send_del_route_msg(d, n.rt[d].next, n.rt[d].hopcnt)
           rt == [n.rt EXCEPT ![d] = g]
           ex == [n.expl EXCEPT ![d] = NoAddr]
           nl == n.nl \cup {x}
           n1 == [n EXCEPT !.rt = rt, !.expl = ex, !.nl = nl]
           q  == rerr_create(n1, {d}, FALSE)
           b  == [n1 EXCEPT !.send_buf = q]
           to == rerr_dest(n1, {d})
           n2 == IF n.rt[d].prec = {} THEN n1 ELSE aodv_socket_send(b, to, 1)
           f  == [n2.rt[d] EXCEPT !.prec = {}, !.handler = "delete", !.armed = TRUE]
           m  == [n2 EXCEPT !.rt[d] = f]
<1>1. n.rt[d] \in Entry /\ n \in Node /\ Good(local_repair_timeout(n, d), {})
  BY RepairTimeoutGood DEF Good, Node
<1>2. g \in Entry /\ Mild(n.rt[d], g) /\ g.state = n.rt[d].state
  BY <1>1 DEF Entry, Mild
<1>3. x \in NlMsg /\ x.op = "DELROUTE" /\ x.dest = d
  BY <1>1, NlDelType DEF nl_send_del_route_msg
<1>4. local_repair_timeout(n, d) =
        [n2 EXCEPT !.rt[d].prec = {}, !.rt[d].handler = "delete", !.rt[d].armed = TRUE]
  BY DEF local_repair_timeout
<1> HIDE DEF g, x
<1>5. n1 \in Node /\ Tame(n, n1)
  <2>1. rt \in [Addr -> Entry] /\ ex \in [Addr -> Addr \cup {NoAddr}] /\ nl \in SUBSET NlMsg
    BY <1>1, <1>2, <1>3 DEF Node
  <2>2. /\ \A u \in Addr : Mild(n.rt[u], rt[u]) /\ rt[u].state = n.rt[u].state
        /\ ex[d] = NoAddr /\ \A u \in Addr \ {d} : ex[u] = n.expl[u]
    BY <1>1, <1>2 DEF Node, Mild
  <2>3. x \in nl /\ n.nl \subseteq nl /\ \A y \in nl \ n.nl : y = x
    OBVIOUS
  <2> HIDE DEF rt, ex, nl
  <2>4. /\ n1 \in Node /\ n1.rt = rt /\ n1.expl = ex /\ n1.nl = nl /\ n1.ip = n.ip
        /\ n1.num_entries = n.num_entries /\ n1.seek = n.seek
    BY <1>1, <2>1 DEF Node
  <2> HIDE DEF n1
  <2>5. Told(n1, d, "DELROUTE")
    BY <1>3, <2>3, <2>4 DEF Told
  <2>6. \A u \in Addr : Dropped(n, n1, u)
    BY <2>2, <2>4, <2>5 DEF Dropped, Valid
  <2>7. ~Valid(n1, d)
    BY <2>2, <2>4 DEF Valid
  <2> QED BY <1>3, <2>2, <2>3, <2>4, <2>6, <2>7 DEF Tame
<1> HIDE DEF n1
<1>6. q \in Msg /\ to \in Addr \cup {BCast} /\ 1 \in Int
  <2>1. q \in Msg
    BY <1>5, NodeIsGood, RerrType
  <2>2. to \in Addr \cup {BCast}
    BY RerrDestType
  <2> HIDE DEF q, to
  <2> QED BY <2>1, <2>2
<1> HIDE DEF q, to
<1>7. b \in Node /\ Tame(n1, b)
  BY <1>5, <1>6, NodeIsGood, BufferGood, BufferQuiet DEF Quiet
<1> HIDE DEF b
<1>8. n2 \in Node /\ Tame(n1, n2)
  <2> DEFINE c == aodv_socket_send(b, to, 1)
  <2>1. c \in Node /\ Tame(b, c)
    BY <1>6, <1>7, NodeIsGood, SocketGood, SocketQuiet DEF Quiet
  <2> HIDE DEF c
  <2> QED BY <1>5, <1>7, <2>1, TameTrans, TameRefl DEF c
<1> HIDE DEF n2
<1>9. n2.rt[d] \in Entry
  BY <1>8 DEF Node
<1>10. Mild(n2.rt[d], f) /\ f.state = n2.rt[d].state
  BY <1>9 DEF Entry, Mild
<1>11. local_repair_timeout(n, d) = m
  BY <1>4, <1>8, <1>9 DEF Node
<1> HIDE DEF f
<1>12. Tame(n2, m)
  BY <1>8, <1>10, EntryTame
<1> HIDE DEF m
<1>13. m \in Node
  BY <1>1, <1>11 DEF Good
<1> QED BY <1>5, <1>8, <1>11, <1>12, <1>13, TameTrans

\* A VALID entry that expires becomes INVALID.
LEMMA ExpireTimeoutTame ==
  ASSUME NEW n, Good(n, {}), NEW d \in Addr, Valid(n, d)
  PROVE  Tame(n, route_expire_timeout(n, d))
<1> DEFINE e  == [n.rt[d] EXCEPT !.armed = FALSE]
           n1 == [n EXCEPT !.rt[d] = e]
           a  == rt_table_invalidate(n1, {d})
           m  == route_expire_timeout(n, d)
<1>1. n \in Node /\ n.rt[d] \in Entry
  BY DEF Good, Node
<1>2. /\ e \in Entry /\ e.next = n.rt[d].next /\ e.hopcnt = n.rt[d].hopcnt
      /\ e.state = n.rt[d].state /\ e.seqno = n.rt[d].seqno
  BY <1>1 DEF Entry
<1>3. \/ n.rt[d].hopcnt = 1 /\ m = neighbor_link_break(n1, d)
      \/ m = precursor_list_destroy(a, {d})
  BY DEF route_expire_timeout
<1> HIDE DEF e, m
<1>4. /\ n1 \in Node /\ n1.rt[d] = e /\ \A u \in Addr \ {d} : n1.rt[u] = n.rt[u]
      /\ n1.ip = n.ip /\ n1.num_entries = n.num_entries /\ n1.seek = n.seek
      /\ n1.expl = n.expl /\ n1.nl = n.nl
  <2>1. n1 \in Node
    BY <1>1, <1>2, EntryGood, NodeIsGood
  <2> QED BY <1>1, <2>1 DEF Node
<1> HIDE DEF n1
<1>5. m \in Node /\ Tame(n1, m) /\ ~Valid(m, d)
  <2>1. CASE n.rt[d].hopcnt = 1 /\ m = neighbor_link_break(n1, d)
    BY <1>2, <1>4, <2>1, LinkBreakQuiet DEF Quiet
  <2>2. CASE m = precursor_list_destroy(a, {d})
    <3>1. a \in Node /\ Tame(n1, a) /\ ~Valid(a, d)
      BY <1>4, NodeIsGood, InvalidateGood, InvalidateTame
    <3> HIDE DEF a
    <3>2. m \in Node /\ Tame(a, m)
      BY <2>2, <3>1, NodeIsGood, PrecursorDestroyGood, DestroyTame
    <3>3. Tame(n1, m)
      BY <3>1, <3>2, TameTrans
    <3>4. ~Valid(m, d)
      BY <3>1, <3>2 DEF Tame, Mild, Valid
    <3> QED BY <3>2, <3>3, <3>4
  <2> QED BY <1>3, <2>1, <2>2
<1>6. \A u \in Addr : Mild(n.rt[u], m.rt[u])
  BY <1>2, <1>4, <1>5 DEF Tame, Mild, Valid
<1>7. \A u \in Addr : Dropped(n, m, u)
  BY <1>2, <1>4, <1>5 DEF Tame, Dropped, Valid
<1>8. Tame(n, m)
  BY <1>4, <1>5, <1>6, <1>7 DEF Tame
<1> QED BY <1>8 DEF m

\* The precursors are told that the repair is given up.
LEMMA RepairTimeoutInforms ==
  ASSUME NEW n \in Node, NEW d \in Addr
  PROVE  Informs(n, local_repair_timeout(n, d), {})
<1> DEFINE P  == n.rt[d].prec
           n1 == [n EXCEPT !.rt[d].repair = FALSE, !.expl[d] = NoAddr,
                           !.nl = @ \cup {nl_send_del_route_msg(d, n.rt[d].next, n.rt[d].hopcnt)}]
           q  == rerr_create(n1, {d}, FALSE)
           to == rerr_dest(n1, {d})
           b  == [n1 EXCEPT !.send_buf = q]
           c  == aodv_socket_send(b, to, 1)
           n2 == IF P = {} THEN n1 ELSE c
           m  == [n2 EXCEPT !.rt[d].prec = {}, !.rt[d].handler = "delete", !.rt[d].armed = TRUE]
<1>1. local_repair_timeout(n, d) = m
  BY DEF local_repair_timeout
<1>2. n.rt \in [Addr -> Entry] /\ n.rt[d] \in Entry
  BY DEF Node
<1>3. /\ n1.out = n.out /\ {"out", "rt", "send_buf"} \subseteq DOMAIN n1
      /\ DOMAIN n1.rt = Addr /\ n1.rt[d].prec = P
      /\ \A u \in Addr \ {d} : n1.rt[u] = n.rt[u]
  <2>1. [n.rt[d] EXCEPT !.repair = FALSE].prec = P
    BY <1>2 DEF Entry
  <2> HIDE DEF P
  <2> QED BY <1>2, <2>1 DEF Node
<1>4. q.type = "RERR" /\ q.dests = {d}
  BY DEF rerr_create
<1>5. ASSUME NEW x \in P PROVE to \in {x, BCast}
  BY <1>3, <1>5, RerrDestReaches
<1> HIDE DEF n1, q, to
<1>6. b.rt = n1.rt /\ b.out = n1.out /\ b.send_buf = q /\ {"out", "rt"} \subseteq DOMAIN b
  BY <1>3
<1> HIDE DEF b
<1>7. /\ c.rt = n1.rt /\ c.out = n1.out \cup {[to |-> to, ttl |-> 1, msg |-> q]}
      /\ "rt" \in DOMAIN c
  BY <1>4, <1>6 DEF aodv_socket_send
<1> HIDE DEF c, P
<1>8. n2.rt = n1.rt /\ n1.out \subseteq n2.out /\ "rt" \in DOMAIN n2
  BY <1>3, <1>7
<1>9. P # {} => n2 = c
  OBVIOUS
<1> HIDE DEF n2
<1>10. m.out = n2.out /\ \A u \in Addr \ {d} : m.rt[u] = n.rt[u]
  BY <1>3, <1>8
<1> HIDE DEF m
<1>11. ASSUME NEW x \in P PROVE Warned(m.out, d, x)
  <2> DEFINE t == [to |-> to, ttl |-> 1, msg |-> q]
  <2>1. t \in m.out
    BY <1>7, <1>9, <1>10, <1>11
  <2>2. t.msg = q /\ t.to = to
    OBVIOUS
  <2> HIDE DEF t
  <2> QED BY <1>4, <1>5, <1>11, <2>1, <2>2 DEF Warned
<1> QED BY <1>1, <1>3, <1>8, <1>10, <1>11 DEF Informs, Informed, Awaits, Valid, P

LEMMA RepairTimeoutQuiet ==
  ASSUME NEW n, Good(n, {}), NEW d \in Addr, n.rt[d].state = "INVALID"
  PROVE  Quiet(n, local_repair_timeout(n, d))
BY RepairTimeoutTame, RepairTimeoutInforms DEF Quiet, Good

\* The precursors of a neighbour that expires are told; those of a route of several
\* hops are forgotten.
LEMMA ExpireTimeoutInforms ==
  ASSUME NEW n \in Node, NEW d \in Addr
  PROVE  Informs(n, route_expire_timeout(n, d),
                 IF n.rt[d].hopcnt = 1 THEN {} ELSE {d} \X Addr)
<1> DEFINE e  == [n.rt[d] EXCEPT !.armed = FALSE]
           n1 == [n EXCEPT !.rt[d] = e]
           a  == rt_table_invalidate(n1, {d})
           m  == precursor_list_destroy(a, {d})
<1>1. n.rt[d] \in Entry
  BY DEF Node
<1>2. route_expire_timeout(n, d) = IF n.rt[d].hopcnt = 1 THEN neighbor_link_break(n1, d) ELSE m
  BY DEF route_expire_timeout
<1>3. e \in Entry /\ Loyal(n.rt[d], e)
  BY <1>1 DEF Entry, Loyal
<1> HIDE DEF e
<1>4. /\ n1 \in Node /\ n1.out = n.out
      /\ \A u \in Addr : Loyal(n.rt[u], n1.rt[u]) /\ (u # d => n1.rt[u] = n.rt[u])
  <2>1. n1 \in Node
    BY <1>3, EntryGood, NodeIsGood
  <2> QED BY <1>3, <2>1 DEF Node, Loyal
<1> HIDE DEF n1
<1>5. Informs(n, n1, {})
  BY <1>4, LoyalInforms
<1>6. CASE n.rt[d].hopcnt = 1
  BY <1>2, <1>4, <1>5, <1>6, LinkBreakInforms, InformsTrans
<1>7. CASE n.rt[d].hopcnt # 1
  <2>1. a.out = n.out /\ "rt" \in DOMAIN a /\ \A u \in Addr : u # d => a.rt[u] = n.rt[u]
    BY <1>4 DEF rt_table_invalidate, Node
  <2> HIDE DEF a
  <2>2. m.out = n.out /\ \A u \in Addr : u # d => m.rt[u] = n.rt[u]
    BY <2>1 DEF precursor_list_destroy
  <2> HIDE DEF m
  <2>3. \A p \in n.rt[d].prec : <<d, p>> \in {d} \X Addr
    BY <1>1 DEF Entry
  <2>4. Informs(n, m, {d} \X Addr)
    BY <2>2, <2>3 DEF Informs, Informed, Awaits, Valid
  <2> QED BY <1>2, <1>7, <2>4
<1> QED BY <1>6, <1>7

\* route_discovery_timeout asks again, or gives up and tells the kernel.
LEMMA DiscoveryTimeoutQuiet ==
  ASSUME NEW n, Good(n, {}), NEW d \in Addr
  PROVE  LET m  == route_discovery_timeout(n, d)
             n1 == [n EXCEPT !.seek[d] = NoSeek,
                             !.nl = @ \cup {nl_send_no_route_found_msg(d)}]
         IN  \/ \E k, q : /\ Good(k, {}) /\ Quiet(n, k) /\ q.rreq_cnt = n.seek[d].rreq_cnt + 1
                          /\ m = [k EXCEPT !.seek[d] = q]
             \/ Good(n1, {}) /\ Quiet(n1, m)
<1> DEFINE s   == n.seek[d]
           ttl == IF ~ExpandingRing THEN s.ttl
                  ELSE IF s.ttl < TTL_THRESHOLD THEN s.ttl + TTL_INCREMENT ELSE NET_DIAMETER
           nl  == n.nl \cup {nl_send_no_route_found_msg(d)}
           n1  == [n EXCEPT !.seek[d] = NoSeek, !.nl = nl]
           k   == KeepRoute(n, d)
           z   == s.dest_seqno
           r   == rreq_send(k, d, z, ttl)
           q   == [s EXCEPT !.ttl = ttl, !.rreq_cnt = s.rreq_cnt + 1]
           m   == route_discovery_timeout(n, d)
<1>1. \/ m = [r EXCEPT !.seek[d].ttl = ttl, !.seek[d].rreq_cnt = @ + 1]
      \/ n.rt[d].repair /\ m = local_repair_timeout(n1, d)
      \/ m = n1
  BY DEF route_discovery_timeout
<1>2. s \in Seek /\ NoSeek \in Seek
  BY U32Assumption DEF Good, Node, NoSeek, Seek, Seqno
<1>3. ttl \in Nat /\ z \in Seqno
  BY <1>2 DEF Seek, NET_DIAMETER, TTL_INCREMENT
<1>4. q.rreq_cnt = s.rreq_cnt + 1
  BY <1>2 DEF Seek
<1> HIDE DEF m
<1>5. Good(k, {}) /\ k.seek = n.seek /\ Quiet(n, k)
  BY KeepRouteGood, KeepRouteQuiet DEF Good
<1>6. Good(r, {}) /\ r.seek = n.seek /\ Quiet(n, r)
  <2> HIDE DEF k, ttl, z
  <2>1. Good(r, {}) /\ r.seek = k.seek /\ Quiet(k, r)
    BY <1>3, <1>5, RreqSendGood, RreqSendQuiet
  <2> HIDE DEF r
  <2> QED BY <1>5, <2>1, QuietTrans DEF Good
<1>7. [r EXCEPT !.seek[d].ttl = ttl, !.seek[d].rreq_cnt = @ + 1] = [r EXCEPT !.seek[d] = q]
  <2> HIDE DEF r, ttl
  <2>1. r \in Node
    BY <1>6 DEF Good
  <2> QED BY <1>2, <1>6, <2>1 DEF Node, Seek
<1> HIDE DEF r, q
<1>8. Good(n1, {}) /\ n1.rt = n.rt
  <2> DEFINE y == [n EXCEPT !.seek[d] = NoSeek]
  <2>1. Good(y, {}) /\ y.rt = n.rt /\ y.expl = n.expl
    BY <1>2, SeekGood DEF Good, Node
  <2>2. nl \in SUBSET NlMsg
    BY NlType DEF Good, Node, nl_send_no_route_found_msg, NlMsg
  <2>3. n1 = [y EXCEPT !.nl = nl]
    OBVIOUS
  <2> HIDE DEF y, nl, n1
  <2> QED BY <2>1, <2>2, <2>3 DEF Good, Node
<1>9. n1 = [n EXCEPT !.seek[d] = NoSeek, !.nl = @ \cup {nl_send_no_route_found_msg(d)}]
  OBVIOUS
<1> HIDE DEF n1
<1>10. n.rt[d].repair => Quiet(n1, local_repair_timeout(n1, d))
  <2>1. n.rt[d].repair => n1.rt[d].state = "INVALID"
    BY <1>8 DEF Good, EntrySound
  <2> QED BY <1>8, <2>1, RepairTimeoutQuiet
<1>11. CASE m = [r EXCEPT !.seek[d].ttl = ttl, !.seek[d].rreq_cnt = @ + 1]
  <2>1. m = [r EXCEPT !.seek[d] = q]
    BY <1>7, <1>11
  <2> QED BY <1>4, <1>6, <2>1 DEF m
<1>12. CASE m # [r EXCEPT !.seek[d].ttl = ttl, !.seek[d].rreq_cnt = @ + 1]
  <2>1. Quiet(n1, m)
    BY <1>1, <1>10, <1>12, QuietRefl
  <2> QED BY <1>8, <1>9, <2>1 DEF m
<1> QED BY <1>11, <1>12

LEMMA HelloTimeoutQuiet ==
  ASSUME NEW n \in Node, NEW d \in Addr
  PROVE  Quiet(n, hello_timeout(n, d))
<1> DEFINE e  == n.rt[d]
           b  == e.repair \/ (LocalRepair /\ e.hopcnt <= MAX_REPAIR_TTL)
           g  == [e EXCEPT !.hello = FALSE, !.repair = b]
           h  == [e EXCEPT !.hello = FALSE]
           n1 == [n EXCEPT !.rt[d] = g]
           n2 == [n EXCEPT !.rt[d] = h]
           n3 == neighbor_link_break(n1, d)
<1>1. e \in Entry /\ n \in Node
  BY DEF Node
<1>2. b \in BOOLEAN /\ (e.repair => b)
  BY <1>1, OptionAssumption DEF Entry
<1>3. hello_timeout(n, d) =
        IF e.state = "VALID" /\ ~e.unidir THEN n3 ELSE n2
  <2>1. n1 = [n EXCEPT !.rt[d].hello = FALSE,
                       !.rt[d].repair = @ \/ (LocalRepair /\ e.hopcnt <= MAX_REPAIR_TTL)]
    BY <1>1 DEF Node, Entry
  <2>2. n2 = [n EXCEPT !.rt[d].hello = FALSE]
    BY <1>1 DEF Node, Entry
  <2> HIDE DEF n1, n2
  <2> QED BY <2>1, <2>2 DEF hello_timeout
<1> HIDE DEF b
<1>4. /\ g \in Entry /\ Mild(e, g) /\ g.state = e.state /\ Loyal(e, g)
      /\ h \in Entry /\ Mild(e, h) /\ h.state = e.state /\ Loyal(e, h)
  BY <1>1, <1>2 DEF Entry, Mild, Loyal
<1> HIDE DEF g, h
<1>5. n1 \in Node /\ Quiet(n, n1) /\ Quiet(n, n2)
  BY <1>4, EntryGood, EntryQuiet, NodeIsGood
<1> HIDE DEF n1, n2
<1>6. n3 \in Node /\ Quiet(n1, n3)
  BY <1>5, LinkBreakQuiet
<1> HIDE DEF n3
<1>7. Quiet(n, n3)
  BY <1>5, <1>6, QuietTrans
<1> QED BY <1>3, <1>5, <1>7

LEMMA AckTimeoutQuiet ==
  ASSUME NEW n \in Node, NEW d \in Addr
  PROVE  Quiet(n, rrep_ack_timeout(n, d))
<1> DEFINE a == [n EXCEPT !.rt[d].ack = FALSE]
<1>1. Good(a, Addr) /\ Quiet(n, a)
  BY AckGood, AckQuiet, NodeIsGood
<1>2. rrep_ack_timeout(n, d) = [a EXCEPT !.blacklist = @ \cup {d}]
  BY DEF rrep_ack_timeout, Node
<1> HIDE DEF a
<1> DEFINE m == rrep_ack_timeout(n, d)
<1>3. /\ m \in Node /\ m.ip = a.ip /\ m.num_entries = a.num_entries /\ m.seek = a.seek
      /\ m.nl = a.nl /\ m.expl = a.expl /\ m.rt = a.rt /\ m.out = a.out
  BY <1>1, <1>2 DEF Good, Node
<1> HIDE DEF m
<1>4. Quiet(a, m)
  BY <1>3, SameQuiet
<1> QED BY <1>1, <1>3, <1>4, QuietTrans DEF m

LEMMA ListTimeoutQuiet ==
  ASSUME NEW n \in Node, NEW x
  PROVE  Quiet(n, rreq_record_timeout(n, x)) /\ Quiet(n, rreq_blacklist_timeout(n, x))
<1> DEFINE R == rreq_record_timeout(n, x)
           B == rreq_blacklist_timeout(n, x)
<1>1. /\ R.ip = n.ip /\ R.num_entries = n.num_entries /\ R.seek = n.seek
      /\ R.nl = n.nl /\ R.expl = n.expl /\ R.rt = n.rt /\ R.out = n.out
  BY DEF Node, rreq_record_timeout
<1>2. /\ B.ip = n.ip /\ B.num_entries = n.num_entries /\ B.seek = n.seek
      /\ B.nl = n.nl /\ B.expl = n.expl /\ B.rt = n.rt /\ B.out = n.out
  BY DEF Node, rreq_blacklist_timeout
<1> HIDE DEF R, B
<1> QED BY <1>1, <1>2, SameQuiet DEF R, B

\* When the handler is done, the limiter may refuse what it has sent, and the table
\* stays as it is.
LEMMA ReturnedTame ==
  ASSUME NEW n, NEW X, Good(n, X), NEW m \in Returned(n)
  PROVE  /\ Good(m, X) /\ Tame(n, m) /\ m.nl = n.nl /\ m.expl = n.expl
         /\ m.seqno = n.seqno /\ m.send_buf = NoMsg
         /\ m.out \cup m.dropped = n.out
         /\ \A u \in Addr : \E b \in BOOLEAN : m.rt[u] = [n.rt[u] EXCEPT !.ahead = b]
<1>1. PICK D \in ratelimit(n.out), K \in SUBSET Untimed(n) : m = Return(n, D, K)
  BY DEF Returned
<1> DEFINE g(d) == [n.rt[d] EXCEPT !.ahead = d \in K]
           rt   == [d \in Addr |-> g(d)]
<1>2. n \in Node /\ D \subseteq n.out /\ NoMsg \in Msg
  BY DEF Good, ratelimit, Msg
<1>3. \A d \in Addr : n.rt[d] \in Entry
  BY <1>2 DEF Node
<1>4. \A d \in Addr : \E b \in BOOLEAN : g(d) = [n.rt[d] EXCEPT !.ahead = b]
  <2> TAKE d \in Addr
  <2> WITNESS (d \in K) \in BOOLEAN
  <2> QED OBVIOUS
<1>5. ASSUME NEW e \in Entry, NEW b \in BOOLEAN
       PROVE  LET f == [e EXCEPT !.ahead = b]
              IN  /\ f \in Entry /\ f.state = e.state /\ f.next = e.next
                  /\ f.hopcnt = e.hopcnt /\ f.seqno = e.seqno /\ f.unidir = e.unidir
                  /\ f.repair = e.repair /\ f.handler = e.handler /\ f.armed = e.armed
                  /\ f.hello = e.hello /\ f.prec = e.prec
  BY DEF Entry
<1> HIDE DEF g
<1>6. \A d \in Addr : LET e == n.rt[d]
                          f == g(d)
                      IN  /\ f \in Entry /\ f.state = e.state /\ f.next = e.next
                          /\ f.hopcnt = e.hopcnt /\ f.seqno = e.seqno /\ f.unidir = e.unidir
                          /\ f.repair = e.repair /\ f.handler = e.handler /\ f.armed = e.armed
                          /\ f.hello = e.hello /\ f.prec = e.prec
  <2> TAKE d \in Addr
  <2>1. PICK b \in BOOLEAN : g(d) = [n.rt[d] EXCEPT !.ahead = b]
    BY <1>4
  <2>2. n.rt[d] \in Entry
    BY <1>3
  <2> QED BY <2>1, <2>2, <1>5
<1>7. rt \in [Addr -> Entry] /\ \A d \in Addr : rt[d] = g(d)
  BY <1>6
<1>8. m = [n EXCEPT !.send_buf = NoMsg, !.out = @ \ D, !.dropped = D, !.rt = rt]
  BY <1>1 DEF Return, g
<1> HIDE DEF rt
<1>9. /\ m \in Node /\ m.rt = rt /\ m.ip = n.ip /\ m.num_entries = n.num_entries
      /\ m.seek = n.seek /\ m.nl = n.nl /\ m.expl = n.expl /\ m.seqno = n.seqno
      /\ m.send_buf = NoMsg /\ m.out = n.out \ D /\ m.dropped = D
  BY <1>2, <1>7, <1>8 DEF Node
<1>10. Good(m, X)
  BY <1>6, <1>7, <1>9 DEF Good, EntrySound
<1>11. \A u \in Addr : Mild(n.rt[u], m.rt[u]) /\ Dropped(n, m, u)
  BY <1>6, <1>7, <1>9 DEF Mild, Dropped, Valid
<1>12. m.out \cup m.dropped = n.out
  BY <1>2, <1>9
<1> QED BY <1>7, <1>9, <1>10, <1>11, <1>12, <1>4 DEF Tame

\* What a handler Informs of, it still Informs of when the limiter has acted.
LEMMA ReturnedInforms ==
  ASSUME NEW n, NEW k, Good(k, {}), NEW X, Informs(n, k, X), NEW m \in Returned(k),
         NEW u \in Addr, Awaits(n, u), NEW p \in n.rt[u].prec
  PROVE  \/ <<u, p>> \in X
         \/ Awaits(m, u) /\ p \in m.rt[u].prec
         \/ Warned(m.out \cup m.dropped, u, p)
<1>1. m.out \cup m.dropped = k.out
  BY ReturnedTame
<1>2. PICK b \in BOOLEAN : m.rt[u] = [k.rt[u] EXCEPT !.ahead = b]
  BY ReturnedTame
<1>3. k.rt[u] \in Entry
  BY DEF Good, Node
<1>4. m.rt[u].state = k.rt[u].state /\ m.rt[u].repair = k.rt[u].repair /\ m.rt[u].prec = k.rt[u].prec
  BY <1>2, <1>3 DEF Entry
<1> QED BY <1>1, <1>4 DEF Informs, Informed, Awaits, Valid

-----------------------------------------------------------------------------
-----------------------------------------------------------------------------
(***************************************************************************)
(* What a handler tells the kernel.  k is the node before the handler,     *)
(* with no message sent, and m the node when the handler is at some point. *)
(***************************************************************************)
Way(n, u) == IF Valid(n, u) THEN n.rt[u].next ELSE NoAddr

\* The kernel's route is what the messages, as a set, say: a DELROUTE is the last
\* word about u, and all ADDROUTEs about u have the same next hop.
Obeyed(k, m, u) ==
  /\ Told(m, u, "DELROUTE") => m.expl[u] = NoAddr
  /\ ~Told(m, u, "DELROUTE") =>
       /\ \A x \in m.nl : x.op = "ADDROUTE" /\ x.dest = u => x.hop = m.expl[u]
       /\ ~Told(m, u, "ADDROUTE") => m.expl[u] = k.expl[u]

\* The messages say what became of the route to u and of the discovery of u.
Reported(k, m, u) ==
  /\ Way(m, u) \notin {Way(k, u), NoAddr} =>
       \E x \in m.nl : x.op = "ADDROUTE" /\ x.dest = u /\ x.hop = Way(m, u)
  /\ Way(m, u) = NoAddr /\ Way(k, u) # NoAddr => Told(m, u, "DELROUTE")
  /\ Way(m, u) # NoAddr /\ Told(m, u, "DELROUTE") => Way(k, u) = u /\ Way(m, u) # u
  /\ k.seek[u] # NoSeek /\ m.seek[u] = NoSeek =>
       Way(m, u) # NoAddr \/ \E x \in m.nl : x.dest = u

Tells(k, m) == \A u \in Addr : Obeyed(k, m, u) /\ Reported(k, m, u)

\* Until a route is lost, the handler has sent ADDROUTEs through src only.
Adding(n, src) == \A x \in n.nl : x.op = "ADDROUTE" /\ x.hop = src

\* Before it does anything, a handler has told nothing.
LEMMA IdleTells == ASSUME NEW k, k.nl = {} PROVE Tells(k, k)
BY DEF Tells, Obeyed, Reported, Told

\* Tells depends on the next hops, the discoveries, the kernel and the messages.
LEMMA SameTells ==
  ASSUME NEW k, NEW n, NEW m, Tells(k, n), \A u \in Addr : Way(m, u) = Way(n, u),
         m.nl = n.nl, m.expl = n.expl, m.seek = n.seek
  PROVE  Tells(k, m)
BY DEF Tells, Obeyed, Reported, Told

\* A Tame operation tells of what it loses, and changes nothing else.
LEMMA TameTells ==
  ASSUME NEW k, NEW n, NEW m, Tells(k, n), Tame(n, m)
  PROVE  Tells(k, m)
<1> SUFFICES ASSUME NEW u \in Addr PROVE Obeyed(k, m, u) /\ Reported(k, m, u)
  BY DEF Tells
<1>1. Obeyed(k, n, u) /\ Reported(k, n, u) /\ Mild(n.rt[u], m.rt[u]) /\ Dropped(n, m, u)
  BY DEF Tells, Tame
<1>2. /\ n.nl \subseteq m.nl /\ m.seek = n.seek
      /\ \A x \in m.nl \ n.nl : /\ x.op = "DELROUTE" /\ m.expl[x.dest] = NoAddr
                                /\ ~Valid(m, x.dest)
  BY DEF Tame
<1>3. /\ Told(n, u, "DELROUTE") => Told(m, u, "DELROUTE")
      /\ Told(m, u, "ADDROUTE") <=> Told(n, u, "ADDROUTE")
      /\ Told(m, u, "DELROUTE") /\ ~Told(n, u, "DELROUTE") =>
           m.expl[u] = NoAddr /\ ~Valid(m, u)
  BY <1>2 DEF Told
<1>4. /\ Valid(m, u) => Valid(n, u) /\ Way(m, u) = Way(n, u)
      /\ Valid(n, u) /\ ~Valid(m, u) => Told(m, u, "DELROUTE")
  BY <1>1 DEF Mild, Dropped, Valid, Way
<1>5. Obeyed(k, m, u)
  <2>1. Told(m, u, "DELROUTE") => m.expl[u] = NoAddr
    BY <1>1, <1>3 DEF Obeyed, Dropped
  <2>2. ASSUME ~Told(m, u, "DELROUTE")
        PROVE  /\ \A x \in m.nl : x.op = "ADDROUTE" /\ x.dest = u => x.hop = m.expl[u]
               /\ ~Told(m, u, "ADDROUTE") => m.expl[u] = k.expl[u]
    <3>1. ~Told(n, u, "DELROUTE") /\ m.expl[u] = n.expl[u]
      BY <1>1, <1>3, <2>2 DEF Dropped
    <3> QED BY <1>1, <1>2, <1>3, <3>1 DEF Obeyed
  <2> QED BY <2>1, <2>2 DEF Obeyed
<1>6. Reported(k, m, u)
  <2>1. Way(m, u) # NoAddr => Valid(m, u)
    BY DEF Way
  <2>2. Way(n, u) # NoAddr => Way(m, u) = Way(n, u) \/ Told(m, u, "DELROUTE")
    BY <1>4 DEF Way
  <2>3. Way(m, u) \notin {Way(k, u), NoAddr} =>
          \E x \in m.nl : x.op = "ADDROUTE" /\ x.dest = u /\ x.hop = Way(m, u)
    BY <1>1, <1>2, <1>4, <2>1 DEF Reported
  <2>4. Way(m, u) = NoAddr /\ Way(k, u) # NoAddr => Told(m, u, "DELROUTE")
    BY <1>1, <1>3, <2>2 DEF Reported
  <2>5. Way(m, u) # NoAddr /\ Told(m, u, "DELROUTE") => Way(k, u) = u /\ Way(m, u) # u
    BY <1>1, <1>3, <1>4, <2>1 DEF Reported
  <2>6. k.seek[u] # NoSeek /\ m.seek[u] = NoSeek =>
          Way(m, u) # NoAddr \/ \E x \in m.nl : x.dest = u
    BY <1>1, <1>2, <2>2 DEF Reported, Told
  <2> QED BY <2>3, <2>4, <2>5, <2>6 DEF Reported
<1> QED BY <1>5, <1>6

LEMMA QuietTells ==
  ASSUME NEW k, NEW n, NEW m, Tells(k, n), Quiet(n, m)
  PROVE  Tells(k, m)
BY TameTells DEF Quiet

\* A new route is told.
LEMMA InsertTells ==
  ASSUME NEW k, NEW n \in Node, Tells(k, n), NEW src \in Addr, Adding(n, src),
         NEW d \in Addr, NEW hops, NEW seqno, NEW life
  PROVE  LET m == rt_table_insert(n, d, src, hops, seqno, life)
         IN  Tells(k, m) /\ Adding(m, src)
<1> DEFINE m == rt_table_insert(n, d, src, hops, seqno, life)
           x == nl_send_add_route_msg(d, src, hops)
<1>1. /\ m.nl = n.nl \cup {x} /\ m.expl[d] = src /\ m.seek[d] = NoSeek
      /\ m.rt[d].state = "VALID" /\ m.rt[d].next = src
      /\ \A u \in Addr \ {d} : /\ m.rt[u] = n.rt[u] /\ m.expl[u] = n.expl[u]
                               /\ m.seek[u] = n.seek[u]
  BY DEF rt_table_insert, Node, NoEntry
<1>2. x.op = "ADDROUTE" /\ x.dest = d /\ x.hop = src
  BY DEF nl_send_add_route_msg
<1> HIDE DEF m, x
<1>3. Adding(m, src)
  BY <1>1, <1>2 DEF Adding
<1>4. src # NoAddr
  BY AddrAssumption
<1>5. ASSUME NEW u \in Addr PROVE Obeyed(k, m, u) /\ Reported(k, m, u)
  <2>1. ~Told(m, u, "DELROUTE")
    BY <1>3 DEF Told, Adding
  <2>2. CASE u = d
    <3>1. Way(m, u) = src
      BY <1>1, <2>2 DEF Way, Valid
    <3>2. Obeyed(k, m, u)
      BY <1>1, <1>2, <1>3, <2>1, <2>2 DEF Obeyed, Told, Adding
    <3> QED BY <1>1, <1>2, <1>4, <2>1, <2>2, <3>1, <3>2 DEF Reported
  <2>3. CASE u # d
    <3>1. Obeyed(k, n, u) /\ Reported(k, n, u)
      BY DEF Tells
    <3>2. /\ Way(m, u) = Way(n, u) /\ m.expl[u] = n.expl[u] /\ m.seek[u] = n.seek[u]
          /\ \A y : y.dest = u => (y \in m.nl <=> y \in n.nl)
      BY <1>1, <1>2, <2>3 DEF Way, Valid
    <3> QED BY <3>1, <3>2 DEF Obeyed, Reported, Told
  <2> QED BY <2>2, <2>3
<1> QED BY <1>3, <1>5 DEF Tells, m

\* A replaced route is told, and so are the routes that are lost with the link to a
\* neighbour that turned out to be farther away.  Only the route to this neighbour
\* is deleted in the kernel and VALID at the same time.
LEMMA UpdateTells ==
  ASSUME NEW k, NEW n, Good(n, {}), Tells(k, n), NEW src \in Addr, Adding(n, src),
         NEW d \in Addr, Present(n, d), NEW hops, Hop(d, src, hops),
         NEW seqno \in Seqno, NEW life \in Life
  PROVE  LET m == rt_table_update(n, d, src, hops, seqno, life)
         IN  Tells(k, m) /\ (hops = 1 => Adding(m, src))
<1> DEFINE a  == update_kernel(n, d, src, hops)
           f  == [a.rt[d] EXCEPT !.hello = FALSE]
           h  == [a EXCEPT !.rt[d] = f]
           n1 == update_link(a, d, hops)
           e  == update_entry(n1.rt[d], n.rt[d], src, hops, seqno, life)
           m  == rt_table_update(n, d, src, hops, seqno, life)
           x  == nl_send_add_route_msg(d, src, hops)
<1>1. /\ n.rt[d] \in Entry /\ EntrySound(d, n.rt[d], n.expl[d]) /\ n \in Node
      /\ src # NoAddr /\ hops \in Nat
  BY AddrAssumption DEF Good, Node, Hop
<1>2. x.op = "ADDROUTE" /\ x.dest = d /\ x.hop = src
  BY DEF nl_send_add_route_msg
<1>3. /\ a \in Node /\ a.rt = n.rt /\ a.seek = n.seek
      /\ \A u \in Addr \ {d} : a.expl[u] = n.expl[u]
      /\ \/ a.nl = n.nl \cup {x} /\ a.expl[d] = src
         \/ a.nl = n.nl /\ a.expl = n.expl /\ Valid(n, d) /\ n.rt[d].next = src
  <2> DEFINE ex == [n.expl EXCEPT ![d] = src]
             nl == n.nl \cup {x}
             c  == (n.num_active + 1) % U32
  <2>1. c \in Seqno
    BY ModType DEF Good, Node, Seqno
  <2>2. nl \in SUBSET NlMsg
    BY NlType DEF Good, Node, Hop
  <2>3. /\ ex \in [Addr -> Addr \cup {NoAddr}] /\ ex[d] = src
        /\ \A u \in Addr \ {d} : ex[u] = n.expl[u]
    BY <1>1 DEF Node
  <2>4. \/ a = [n EXCEPT !.expl = ex, !.nl = nl, !.num_active = c]
        \/ a = [n EXCEPT !.expl = ex, !.nl = nl]
        \/ a = n /\ n.rt[d].state # "INVALID" /\ n.rt[d].next = src
    BY <1>1 DEF update_kernel, Node
  <2>5. n.rt[d].state # "INVALID" => Valid(n, d)
    BY <1>1 DEF Present, Valid, Entry
  <2> HIDE DEF ex, a, c, x
  <2> QED BY <1>1, <2>1, <2>2, <2>3, <2>4, <2>5 DEF Node
<1>4. m = [n1 EXCEPT !.rt[d] = e, !.seek[d] = NoSeek]
  BY DEF rt_table_update
<1> HIDE DEF a, x
<1>5. /\ n1 \in Node /\ n1.seek = a.seek /\ a.nl \subseteq n1.nl
      /\ \A u \in Addr : Mild(a.rt[u], n1.rt[u]) /\ Dropped(a, n1, u)
      /\ \A y \in n1.nl \ a.nl : /\ y.op = "DELROUTE" /\ n1.expl[y.dest] = NoAddr
                                 /\ ~Valid(n1, y.dest) /\ Valid(n, y.dest)
                                 /\ hops > 1 /\ n.rt[d].hopcnt = 1
  <2>1. CASE hops > 1 /\ a.rt[d].hopcnt = 1
    <3>1. f \in Entry /\ Mild(a.rt[d], f) /\ f.state = a.rt[d].state /\ Loyal(a.rt[d], f)
      BY <1>1, <1>3 DEF Entry, Mild, Loyal
    <3> HIDE DEF f
    <3>2. h \in Node /\ Quiet(a, h)
      BY <1>3, <3>1, EntryQuiet, EntryGood, NodeIsGood
    <3>3. h.nl = a.nl /\ \A u \in Addr : h.rt[u].state = a.rt[u].state
      BY <1>3, <3>1 DEF Node
    <3>4. n1 = neighbor_link_break(h, d)
      BY <2>1 DEF update_link, f
    <3> HIDE DEF h, n1
    <3>5. n1 \in Node /\ Quiet(h, n1) /\ Audible(h, n1)
      BY <3>2, <3>4, LinkBreakQuiet
    <3>6. Quiet(a, n1)
      BY <3>2, <3>5, QuietTrans
    <3>7. \A y \in n1.nl : y.dest \in Addr
      BY <3>5 DEF Node, NlMsg
    <3>8. \A y \in n1.nl \ a.nl : Valid(n, y.dest)
      BY <1>3, <3>3, <3>5, <3>7 DEF Audible, Valid
    <3> QED BY <1>3, <2>1, <3>5, <3>6, <3>8 DEF Quiet, Tame
  <2>2. CASE ~(hops > 1 /\ a.rt[d].hopcnt = 1)
    <3>1. n1 = a
      BY <2>2 DEF update_link
    <3> QED BY <1>3, <3>1 DEF Mild, Dropped
  <2> QED BY <2>1, <2>2
<1> HIDE DEF n1
<1>6. e.state = "VALID" /\ e.next = src
  <2> DEFINE g == rt_table_update_timeout(n1.rt[d], life)
             b == n.rt[d].state # "INVALID" /\ n.rt[d].repair
  <2>1. n1.rt[d] \in Entry
    BY <1>5 DEF Node
  <2>2. g \in Entry
    BY <2>1 DEF rt_table_update_timeout, Entry
  <2>3. e = [g EXCEPT !.repair = b, !.seqno = seqno, !.next = src, !.hopcnt = hops,
                      !.handler = "expire", !.state = "VALID"]
    BY DEF update_entry
  <2> HIDE DEF g, b, e
  <2> QED BY <2>2, <2>3 DEF Entry
<1> HIDE DEF e, m
<1>7. /\ m.nl = n1.nl /\ m.expl = n1.expl /\ m.rt[d] = e /\ m.seek[d] = NoSeek
      /\ \A u \in Addr \ {d} : m.rt[u] = n1.rt[u] /\ m.seek[u] = n1.seek[u]
  BY <1>4, <1>5 DEF Node
<1>8. ASSUME hops = 1 PROVE Adding(m, src)
  BY <1>2, <1>3, <1>5, <1>7, <1>8 DEF Adding
<1>9. ASSUME NEW u \in Addr PROVE Obeyed(k, m, u)
  <2>1. Obeyed(k, n, u) /\ ~Told(n, u, "DELROUTE") /\ Dropped(a, n1, u)
    BY <1>5 DEF Tells, Told, Adding
  <2>2. ~Told(a, u, "DELROUTE")
    BY <1>2, <1>3, <2>1 DEF Told
  <2>3. Told(m, u, "DELROUTE") => m.expl[u] = NoAddr
    BY <1>5, <1>7, <2>2 DEF Told
  <2>4. ASSUME ~Told(m, u, "DELROUTE")
        PROVE  /\ \A y \in m.nl : y.op = "ADDROUTE" /\ y.dest = u => y.hop = m.expl[u]
               /\ ~Told(m, u, "ADDROUTE") => m.expl[u] = k.expl[u]
    <3>1. m.expl[u] = a.expl[u]
      BY <1>7, <2>1, <2>4 DEF Dropped, Told
    <3>2. \A y \in m.nl : y.op = "ADDROUTE" => y \in a.nl
      BY <1>5, <1>7
    <3>3. a.nl \subseteq m.nl /\ n.nl \subseteq a.nl
      BY <1>3, <1>5, <1>7
    <3>4. \A y \in n.nl : y.op = "ADDROUTE" /\ y.hop = src
      BY DEF Adding
    <3>5. /\ \A y \in n.nl : y.op = "ADDROUTE" /\ y.dest = u => y.hop = n.expl[u]
          /\ ~Told(n, u, "ADDROUTE") => n.expl[u] = k.expl[u]
      BY <2>1 DEF Obeyed
    <3>6. \A y \in a.nl : y.op = "ADDROUTE" /\ y.dest = u => y.hop = a.expl[u]
      BY <1>2, <1>3, <3>4, <3>5
    <3>7. ~Told(a, u, "ADDROUTE") => a.expl[u] = n.expl[u] /\ ~Told(n, u, "ADDROUTE")
      BY <1>2, <1>3 DEF Told
    <3>8. Told(a, u, "ADDROUTE") => Told(m, u, "ADDROUTE")
      BY <3>3 DEF Told
    <3> QED BY <3>1, <3>2, <3>5, <3>6, <3>7, <3>8
  <2> QED BY <2>3, <2>4 DEF Obeyed
<1>10. ASSUME NEW u \in Addr PROVE Reported(k, m, u)
  <2>1. Reported(k, n, u) /\ ~Told(n, u, "DELROUTE") /\ n.nl \subseteq m.nl
    BY <1>3, <1>5, <1>7 DEF Tells, Told, Adding
  <2>2. ASSUME Told(m, u, "DELROUTE")
        PROVE  ~Valid(n1, u) /\ Valid(n, u) /\ hops > 1 /\ n.rt[d].hopcnt = 1
    <3>1. PICK y \in n1.nl : y.op = "DELROUTE" /\ y.dest = u
      BY <1>7, <2>2 DEF Told
    <3>2. y \notin a.nl
      BY <1>2, <1>3, <2>1, <3>1 DEF Told
    <3> QED BY <1>5, <3>1, <3>2
  <2>3. CASE u = d
    <3>1. Way(m, u) = src /\ Way(m, u) # NoAddr
      BY <1>1, <1>6, <1>7, <2>3 DEF Way, Valid
    <3>2. src # Way(k, u) =>
            \E y \in m.nl : y.op = "ADDROUTE" /\ y.dest = u /\ y.hop = src
      <4>1. CASE a.nl = n.nl \cup {x}
        BY <1>2, <1>5, <1>7, <2>3, <4>1
      <4>2. CASE Valid(n, d) /\ n.rt[d].next = src
        <5>1. Way(n, u) = src
          BY <2>3, <4>2 DEF Way
        <5> QED BY <1>1, <2>1, <5>1 DEF Reported
      <4> QED BY <1>3, <4>1, <4>2
    <3>3. ASSUME Told(m, u, "DELROUTE") PROVE Way(k, u) = u /\ src # u
      <4>1. Valid(n, u) /\ hops > 1 /\ n.rt[u].hopcnt = 1
        BY <2>2, <2>3, <3>3
      <4>2. Way(n, u) = u /\ src # u /\ u # NoAddr
        BY <1>1, <2>3, <4>1, AddrAssumption DEF Way, Valid, EntrySound, Hop
      <4> QED BY <2>1, <4>2 DEF Reported, Adding
    <3> QED BY <3>1, <3>2, <3>3 DEF Reported
  <2>4. CASE u # d
    <3>1. /\ Valid(m, u) <=> Valid(n1, u)
          /\ m.rt[u].next = n1.rt[u].next /\ m.seek[u] = n.seek[u]
      BY <1>3, <1>5, <1>7, <2>4 DEF Valid
    <3>2. /\ Valid(n1, u) => Valid(n, u) /\ n1.rt[u].next = n.rt[u].next
          /\ Valid(n, u) => Valid(n1, u) \/ Told(m, u, "DELROUTE")
      BY <1>3, <1>5, <1>7 DEF Mild, Dropped, Valid, Told
    <3>3. /\ Way(m, u) # NoAddr => Valid(m, u) /\ Way(m, u) = Way(n, u)
          /\ Way(n, u) # NoAddr => Way(m, u) = Way(n, u) \/ Told(m, u, "DELROUTE")
      BY <3>1, <3>2 DEF Way
    <3>4. Way(m, u) \notin {Way(k, u), NoAddr} =>
            \E y \in m.nl : y.op = "ADDROUTE" /\ y.dest = u /\ y.hop = Way(m, u)
      BY <2>1, <3>3 DEF Reported
    <3>5. Way(m, u) = NoAddr /\ Way(k, u) # NoAddr => Told(m, u, "DELROUTE")
      BY <2>1, <3>3 DEF Reported
    <3>6. ~(Way(m, u) # NoAddr /\ Told(m, u, "DELROUTE"))
      BY <2>2, <3>1, <3>3
    <3>7. k.seek[u] # NoSeek /\ m.seek[u] = NoSeek =>
            Way(m, u) # NoAddr \/ \E y \in m.nl : y.dest = u
      BY <2>1, <3>1, <3>3 DEF Reported, Told
    <3> QED BY <3>4, <3>5, <3>6, <3>7 DEF Reported
  <2> QED BY <2>3, <2>4
<1> QED BY <1>8, <1>9, <1>10 DEF Tells, m

\* A route that is deleted was not VALID any more, and the kernel has none.
LEMMA DeleteTells ==
  ASSUME NEW k, NEW n, Good(n, {}), Tells(k, n), NEW d \in Addr, ~Valid(n, d)
  PROVE  Tells(k, rt_table_delete(n, d))
<1> DEFINE m == rt_table_delete(n, d)
<1>1. n \in Node /\ n.rt \in [Addr -> Entry] /\ n.expl \in [Addr -> Addr \cup {NoAddr}]
  BY DEF Good, Node
<1>2. /\ m.nl = n.nl /\ m.expl = n.expl /\ m.seek = n.seek
      /\ m.rt[d] = NoEntry /\ \A u \in Addr \ {d} : m.rt[u] = n.rt[u]
  BY <1>1 DEF rt_table_delete, Node
<1> HIDE DEF m
<1>3. \A u \in Addr : Way(m, u) = Way(n, u)
  BY <1>2 DEF Way, Valid, NoEntry
<1>4. Tells(k, m)
  BY <1>2, <1>3, SameTells
<1> QED BY <1>4 DEF m

\* The end of a discovery is told, its start and its retries need not be.
LEMMA SeekTells ==
  ASSUME NEW k, NEW n \in Node, Tells(k, n), NEW d \in Addr, NEW q, q.rreq_cnt # 0
  PROVE  Tells(k, [n EXCEPT !.seek[d] = q])
<1> DEFINE m == [n EXCEPT !.seek[d] = q]
<1>1. /\ m.nl = n.nl /\ m.expl = n.expl /\ m.rt = n.rt
      /\ m.seek[d] # NoSeek /\ \A u \in Addr \ {d} : m.seek[u] = n.seek[u]
  BY DEF Node, NoSeek
<1> HIDE DEF m
<1>2. \A u \in Addr : Way(m, u) = Way(n, u)
  BY <1>1 DEF Way, Valid
<1>3. Tells(k, m)
  BY <1>1, <1>2 DEF Tells, Obeyed, Reported, Told
<1> QED BY <1>3 DEF m

LEMMA NoRouteTells ==
  ASSUME NEW k, NEW n \in Node, Tells(k, n), NEW d \in Addr
  PROVE  Tells(k, [n EXCEPT !.seek[d] = NoSeek,
                            !.nl = @ \cup {nl_send_no_route_found_msg(d)}])
<1> DEFINE x == nl_send_no_route_found_msg(d)
           m == [n EXCEPT !.seek[d] = NoSeek, !.nl = @ \cup {x}]
<1>1. /\ m.nl = n.nl \cup {x} /\ m.expl = n.expl /\ m.rt = n.rt
      /\ \A u \in Addr \ {d} : m.seek[u] = n.seek[u]
  BY DEF Node
<1>2. x.op = "NOROUTE" /\ x.dest = d
  BY DEF nl_send_no_route_found_msg
<1> HIDE DEF m, x
<1>3. \A u \in Addr : /\ Way(m, u) = Way(n, u)
                      /\ Told(m, u, "DELROUTE") <=> Told(n, u, "DELROUTE")
                      /\ Told(m, u, "ADDROUTE") <=> Told(n, u, "ADDROUTE")
  BY <1>1, <1>2 DEF Way, Valid, Told
<1>4. \A u \in Addr : Obeyed(k, m, u)
  BY <1>1, <1>2, <1>3 DEF Tells, Obeyed
<1>5. \A u \in Addr : Reported(k, m, u)
  BY <1>1, <1>2, <1>3 DEF Tells, Reported
<1>6. Tells(k, m)
  BY <1>4, <1>5 DEF Tells
<1> QED BY <1>6 DEF m, x

\* The kernel and the precursors hear of what a handler does.
Heard(k, m) == Tells(k, m) /\ Informs(k, m, {})

LEMMA IdleHeard == ASSUME NEW k, k.nl = {} PROVE Heard(k, k)
BY IdleTells DEF Heard, Informs, Informed

LEMMA QuietHeard ==
  ASSUME NEW k, NEW n, NEW m, Heard(k, n), Quiet(n, m)
  PROVE  Heard(k, m)
BY QuietTells, InformsTrans DEF Heard, Quiet

LEMMA InsertHeard ==
  ASSUME NEW k, NEW n, Good(n, {}), Heard(k, n), NEW src \in Addr, Adding(n, src),
         NEW d \in Addr, ~Present(n, d), NEW hops, NEW seqno, NEW life
  PROVE  LET m == rt_table_insert(n, d, src, hops, seqno, life)
         IN  Heard(k, m) /\ Adding(m, src)
BY InsertTells, InsertInforms, InformsTrans DEF Heard, Good

LEMMA UpdateHeard ==
  ASSUME NEW k, NEW n, Good(n, {}), Heard(k, n), NEW src \in Addr, Adding(n, src),
         NEW d \in Addr, Present(n, d), NEW hops, Hop(d, src, hops),
         NEW seqno \in Seqno, NEW life \in Life
  PROVE  LET m == rt_table_update(n, d, src, hops, seqno, life)
         IN  Heard(k, m) /\ (hops = 1 => Adding(m, src))
<1>1. Informs(n, rt_table_update(n, d, src, hops, seqno, life), {})
  BY UpdateEffect
<1> QED BY <1>1, UpdateTells, InformsTrans DEF Heard

-----------------------------------------------------------------------------
\* neighbor_add tells of the route to the neighbour.
LEMMA NeighborAddHeard ==
  ASSUME NEW n, Good(n, {}), n.nl = {}, NEW src \in Addr
  PROVE  Heard(n, neighbor_add(n, src)) /\ Adding(neighbor_add(n, src), src)
<1> DEFINE s == n.rt[src].seqno
           a == neighbor_add(n, src)
<1>1. Hop(src, src, 1) /\ "POS" \in Life /\ n \in Node /\ s \in Seqno
  BY DEF Hop, Life, Good, Node, Entry
<1>2. Heard(n, n) /\ Adding(n, src)
  BY IdleHeard DEF Adding
<1>3. CASE ~Present(n, src)
  <2>1. a = rt_table_insert(n, src, src, 1, 0, "POS")
    BY <1>3 DEF neighbor_add
  <2> HIDE DEF a
  <2>2. Heard(n, a) /\ Adding(a, src)
    BY <1>1, <1>2, <1>3, <2>1, InsertHeard
  <2> QED BY <2>2 DEF a
<1>4. CASE Present(n, src) /\ n.rt[src].unidir
  BY <1>2, <1>4 DEF neighbor_add
<1>5. CASE Present(n, src) /\ ~n.rt[src].unidir
  <2>1. a = rt_table_update(n, src, src, 1, s, "POS")
    BY <1>5 DEF neighbor_add
  <2> HIDE DEF a, s
  <2>2. Heard(n, a) /\ Adding(a, src)
    BY <1>1, <1>2, <1>5, <2>1, UpdateHeard
  <2> QED BY <2>2 DEF a
<1> QED BY <1>3, <1>4, <1>5

\* The reverse route of a RREQ is told.
LEMMA ReverseHeard ==
  ASSUME NEW k, NEW n, Good(n, {}), Heard(k, n), NEW m \in RREQ, NEW src \in Addr,
         Adding(n, src), m.hopcnt = 0 <=> src = m.orig
  PROVE  Heard(k, RREQ_reverse(n, m, src))
<1> DEFINE o == m.orig
           h == m.hopcnt + 1
           s == m.orig_seqno
           c == Fresher(n.rt[o], s, n.rt[o].state = "INVALID" \/ h < n.rt[o].hopcnt)
<1>1. o \in Addr /\ s \in Seqno /\ Hop(o, src, h) /\ "POS" \in Life /\ n \in Node
  BY DEF RREQ, Hop, Life, Good
<1>2. RREQ_reverse(n, m, src) =
        IF ~Present(n, o) THEN rt_table_insert(n, o, src, h, s, "POS")
        ELSE IF c THEN rt_table_update(n, o, src, h, s, "POS") ELSE n
  BY DEF RREQ_reverse
<1> HIDE DEF o, h, s, c
<1>3. CASE ~Present(n, o)
  BY <1>1, <1>2, <1>3, InsertHeard
<1>4. CASE Present(n, o)
  BY <1>1, <1>2, <1>4, UpdateHeard
<1> QED BY <1>3, <1>4

LEMMA RreqProcessHeard ==
  ASSUME NEW k, NEW n, Good(n, {}), Heard(k, n), NEW m \in RREQ, NEW src \in Addr,
         Adding(n, src), m.hopcnt = 0 <=> src = m.orig, NEW ttl \in Int, NEW life \in Life
  PROVE  Heard(k, rreq_process(n, m, src, ttl, life))
<1> DEFINE a  == [n EXCEPT !.records = @ \cup {<<m.orig, m.rreq_id>>}]
           n1 == RREQ_reverse(a, m, src)
           f  == n1.rt[m.dest]
           g  == /\ f.state = "VALID" /\ ~m.d /\ f.seqno # 0
                 /\ Signed(f.seqno) >= Signed(m.dest_seqno)
           r  == rreq_process(n, m, src, ttl, life)
<1>1. \/ r = n
      \/ r = RREQ_answer(n1, m)
      \/ g /\ r = RREQ_answer_for(n1, m, life)
      \/ r = rreq_forward(n1, m, ttl - 1)
      \/ r = n1
  BY DEF rreq_process
<1>2. g => Present(n1, m.dest)
  BY DEF Present
<1>3. Good(a, {}) /\ Quiet(n, a) /\ a.nl = n.nl
  BY RreqRecordQuiet
<1> HIDE DEF a, g, r
<1>4. Heard(k, a) /\ Adding(a, src)
  BY <1>3, QuietHeard DEF Adding
<1>5. Good(n1, {}) /\ Present(n1, m.orig) /\ Heard(k, n1)
  BY <1>3, <1>4, ReverseGood, ReverseHeard
<1> HIDE DEF n1
<1>6. r = n \/ Quiet(n1, r)
  BY <1>1, <1>2, <1>5, AnswerQuiet, AnswerForQuiet, RreqForwardQuiet, QuietRefl
<1>7. Heard(k, r)
  BY <1>5, <1>6, QuietHeard
<1> QED BY <1>7 DEF r

LEMMA RrepProcessHeard ==
  ASSUME NEW k, NEW n, Good(n, {}), Heard(k, n), NEW m \in RREP, NEW src \in Addr,
         Adding(n, src), m.hopcnt = 0 <=> src = m.dest, NEW ttl \in Int
  PROVE  Heard(k, rrep_process(n, m, src, ttl))
<1> DEFINE d   == m.dest
           h   == m.hopcnt + 1
           s   == m.dest_seqno
           l   == m.lifetime
           e   == n.rt[d]
           n1  == IF ~Present(n, d) THEN rt_table_insert(n, d, src, h, s, l)
                                    ELSE rt_table_update(n, d, src, h, s, l)
           n2  == IF m.a THEN RREP_ack_send(n1, n1.rt[d].next) ELSE n1
           r   == rrep_process(n, m, src, ttl)
<1>1. \/ r = n
      \/ r = n2
      \/ r = RREP_repaired(n2, e, d)
      \/ Valid(n2, m.orig) /\ r = rrep_forward(n2, m, m.orig, d, ttl - 1)
  BY DEF rrep_process
<1>2. /\ d \in Addr /\ s \in Seqno /\ Hop(d, src, h) /\ l \in Life /\ m.orig \in Addr
      /\ n \in Node
  BY DEF RREP, Hop, Good
<1> HIDE DEF d, h, s, l, r, e
<1>3. Good(n1, {}) /\ Present(n1, d) /\ Heard(k, n1)
  <2>1. CASE ~Present(n, d)
    BY <1>2, <2>1, InsertGood, InsertHeard
  <2>2. CASE Present(n, d)
    BY <1>2, <2>2, UpdateGood, UpdateHeard DEF Present, Valid
  <2> QED BY <2>1, <2>2
<1> HIDE DEF n1
<1>4. Good(n2, {}) /\ Present(n2, d) /\ Quiet(n1, n2)
  BY <1>2, <1>3, RrepAckQuiet
<1> HIDE DEF n2
<1>5. Quiet(n2, RREP_repaired(n2, e, d))
  BY <1>2, <1>4, RepairedQuiet
<1>6. Valid(n2, m.orig) => Quiet(n2, rrep_forward(n2, m, m.orig, d, ttl - 1))
  <2>1. Valid(n2, m.orig) => Present(n2, m.orig)
    BY DEF Valid, Present
  <2> QED BY <1>2, <1>4, <2>1, RrepForwardQuiet
<1>7. r = n \/ Quiet(n2, r)
  BY <1>1, <1>5, <1>6, QuietRefl
<1>8. Heard(k, r)
  BY <1>3, <1>4, <1>7, QuietHeard
<1> QED BY <1>8 DEF r

\* rerr_process: the numbers that it writes are no concern of the kernel.
LEMMA RerrProcessTells ==
  ASSUME NEW k, NEW n, Good(n, {}), Tells(k, n), NEW m \in RERR, NEW src \in Addr
  PROVE  Tells(k, rerr_process(n, m, src))
<1> DEFINE S  == {d \in m.dests : /\ Valid(n, d) /\ n.rt[d].next = src
                                  /\ ~(Signed(n.rt[d].seqno) > Signed(m.seqno[d]))}
           n1 == IF m.n THEN n ELSE rt_table_invalidate(n, S)
           g(d) == [n1.rt[d] EXCEPT !.seqno = m.seqno[d]]
           rt == [d \in Addr |-> IF d \in S THEN g(d) ELSE n1.rt[d]]
           n2 == [n1 EXCEPT !.rt = rt]
           L  == {d \in S : n2.rt[d].prec # {} /\ ~n2.rt[d].repair}
           to == rerr_dest(n2, L)
           n3 == precursor_list_destroy(n2, {d \in S : n2.rt[d].state = "INVALID"})
           q  == rerr_create(n2, L, m.n)
           n4 == [n3 EXCEPT !.send_buf = q]
           n5 == aodv_socket_send(n4, to, 1)
           r  == rerr_process(n, m, src)
<1>1. r \in {n3, n4, n5}
  BY DEF rerr_process
<1>2. m.dests \in SUBSET Addr /\ m.n \in BOOLEAN /\ \A d \in Addr : m.seqno[d] \in Seqno
  BY DEF RERR
<1>3. S \in SUBSET Addr /\ L \in SUBSET Addr /\ n \in Node
  BY <1>2 DEF Good
<1> HIDE DEF S, r
<1>4. n1 \in Node /\ Tame(n, n1)
  BY <1>3, InvalidateGood, InvalidateTame, TameRefl, NodeIsGood
<1> HIDE DEF n1
<1>5. \A d \in Addr : n1.rt[d] \in Entry
  BY <1>4 DEF Node
<1>6. \A d \in Addr : /\ g(d) \in Entry /\ g(d).state = n1.rt[d].state
                      /\ g(d).next = n1.rt[d].next
  BY <1>2, <1>5 DEF Entry
<1> HIDE DEF g
<1>7. /\ rt \in [Addr -> Entry]
      /\ \A d \in Addr : rt[d].state = n1.rt[d].state /\ rt[d].next = n1.rt[d].next
  BY <1>5, <1>6
<1> HIDE DEF rt
<1>8. /\ n2 \in Node /\ n2.rt = rt /\ n2.nl = n1.nl /\ n2.expl = n1.expl
      /\ n2.seek = n1.seek
  BY <1>4, <1>7 DEF Node
<1> HIDE DEF n2, L
<1>9. \A d \in Addr : Way(n2, d) = Way(n1, d)
  BY <1>7, <1>8 DEF Way, Valid
<1>10. Tells(k, n2)
  BY <1>4, <1>8, <1>9, TameTells, SameTells
<1>11. n3 \in Node /\ Tame(n2, n3) /\ q \in Msg /\ to \in Addr \cup {BCast} /\ 1 \in Int
  BY <1>2, <1>3, <1>8, NodeIsGood, PrecursorDestroyGood, RerrType, RerrDestType, DestroyTame
<1> HIDE DEF n3, q, to
<1>12. n4 \in Node /\ Tame(n3, n4)
  BY <1>11, NodeIsGood, BufferGood, BufferQuiet DEF Quiet
<1> HIDE DEF n4
<1>13. n5 \in Node /\ Tame(n4, n5)
  BY <1>11, <1>12, NodeIsGood, SocketGood, SocketQuiet DEF Quiet
<1> HIDE DEF n5
<1>14. Tells(k, r)
  BY <1>1, <1>10, <1>11, <1>12, <1>13, TameTells
<1> QED BY <1>14 DEF r

\* The pairs of a route and a precursor that m has no entry for.
Strangers(m) == Addr \X {p \in Addr : ~Present(m, p)}

\* rerr_process tells the precursors of every route that the RERR breaks, but for
\* one that it has no entry for.
LEMMA RerrProcessInforms ==
  ASSUME NEW n, Good(n, {}), NEW m \in RERR, NEW src \in Addr
  PROVE  LET r == rerr_process(n, m, src) IN Informs(n, r, Strangers(r))
<1> DEFINE S  == {d \in m.dests : /\ Valid(n, d) /\ n.rt[d].next = src
                                  /\ ~(Signed(n.rt[d].seqno) > Signed(m.seqno[d]))}
           n1 == IF m.n THEN n ELSE rt_table_invalidate(n, S)
           rt == [d \in Addr |-> IF d \in S THEN [n1.rt[d] EXCEPT !.seqno = m.seqno[d]]
                                            ELSE n1.rt[d]]
           n2 == [n1 EXCEPT !.rt = rt]
           L  == {d \in S : n2.rt[d].prec # {} /\ ~n2.rt[d].repair}
           to == rerr_dest(n2, L)
           I  == {d \in S : n2.rt[d].state = "INVALID"}
           n3 == precursor_list_destroy(n2, I)
           q  == rerr_create(n2, L, m.n)
           n4 == [n3 EXCEPT !.send_buf = q]
           n5 == aodv_socket_send(n4, to, 1)
           r  == rerr_process(n, m, src)
<1>1. r = IF L = {} THEN n3 ELSE IF to \in Addr /\ ~Present(n, to) THEN n4 ELSE n5
  BY DEF rerr_process
<1>2. n \in Node /\ m.n \in BOOLEAN /\ \A d \in Addr : n.rt[d] \in Entry
  BY DEF Good, Node, RERR
<1>3. S \in SUBSET Addr /\ \A d \in S : n.rt[d].state = "VALID" /\ ~n.rt[d].repair
  BY DEF RERR, Valid, Good, EntrySound
<1> HIDE DEF S, r
<1>4. /\ n1 \in Node /\ n1.out = n.out
      /\ \A d \in Addr : /\ n1.rt[d].prec = n.rt[d].prec /\ n1.rt[d].repair = n.rt[d].repair
                         /\ n1.rt[d].state = IF d \in S /\ ~m.n THEN "INVALID"
                                                                 ELSE n.rt[d].state
  <2>1. CASE m.n
    BY <1>2, <2>1
  <2>2. CASE ~m.n
    <3>1. n1 \in Node
      BY <1>2, <1>3, NodeIsGood, InvalidateGood
    <3>2. /\ n1.out = n.out
          /\ \A d \in Addr : n1.rt[d] = IF d \in {v \in S : Valid(n, v)} THEN Invalidated(n.rt[d])
                                                                          ELSE n.rt[d]
      BY <1>2, <2>2 DEF rt_table_invalidate, Node
    <3>3. \A e \in Entry : LET f == Invalidated(e)
                           IN  f.prec = e.prec /\ f.repair = e.repair /\ f.state = "INVALID"
      BY DEF Invalidated, Entry
    <3> HIDE DEF n1
    <3> QED BY <1>2, <1>3, <2>2, <3>1, <3>2, <3>3 DEF Valid
  <2> QED BY <2>1, <2>2
<1> HIDE DEF n1
<1>5. \A d \in Addr : rt[d].prec = n1.rt[d].prec /\ rt[d].repair = n1.rt[d].repair
                      /\ rt[d].state = n1.rt[d].state
  <2>1. \A d \in Addr : n1.rt[d] \in Entry
    BY <1>4 DEF Node
  <2> QED BY <2>1 DEF Entry
<1>6. \A d \in Addr : rt[d] \in Entry
  <2>1. \A d \in Addr : n1.rt[d] \in Entry /\ m.seqno[d] \in Seqno
    BY <1>4 DEF Node, RERR
  <2> QED BY <2>1 DEF Entry
<1> HIDE DEF rt
<1>7. n2.rt = rt /\ n2.out = n.out /\ {"rt", "out", "send_buf"} \subseteq DOMAIN n2
  BY <1>4 DEF Node
<1> HIDE DEF n2
<1>8. /\ n3.out = n.out /\ {"rt", "out", "send_buf"} \subseteq DOMAIN n3
      /\ \A d \in Addr : n3.rt[d] = IF d \in I THEN [rt[d] EXCEPT !.prec = {}] ELSE rt[d]
  BY <1>7 DEF precursor_list_destroy
<1>9. \A d \in Addr : /\ n3.rt[d].state = rt[d].state /\ n3.rt[d].repair = rt[d].repair
                      /\ d \notin I => n3.rt[d].prec = rt[d].prec
  <2> HIDE DEF I, n3
  <2>1. \A e \in Entry : LET f == [e EXCEPT !.prec = {}] IN f.state = e.state /\ f.repair = e.repair
    BY DEF Entry
  <2> QED BY <1>6, <1>8, <2>1
<1> HIDE DEF n3
<1>10. q.type = "RERR" /\ q.dests = L
  BY DEF rerr_create
<1> HIDE DEF q
<1>11. /\ n4.rt = n3.rt /\ n4.out = n.out /\ n4.send_buf = q
       /\ "out" \in DOMAIN n4
  BY <1>8
<1> HIDE DEF n4
<1>12. n5.rt = n3.rt /\ n5.out = n.out \cup {[to |-> to, ttl |-> 1, msg |-> q]}
  BY <1>10, <1>11 DEF aodv_socket_send
<1> HIDE DEF n5
<1>13. r.rt = n3.rt /\ n.out \subseteq r.out
  BY <1>1, <1>8, <1>11, <1>12
<1>14. ASSUME NEW u \in Addr, Awaits(n, u), NEW p \in n.rt[u].prec
       PROVE  <<u, p>> \in Strangers(r) \/ Informed(r, u, p)
  <2>1. CASE u \notin S \/ m.n
    <3>1. rt[u].state = n.rt[u].state /\ rt[u].repair = n.rt[u].repair /\ rt[u].prec = n.rt[u].prec
      BY <1>4, <1>5, <2>1
    <3>2. u \notin I
      BY <1>3, <1>7, <2>1, <3>1
    <3> HIDE DEF I
    <3> QED BY <1>9, <1>13, <1>14, <3>1, <3>2 DEF Informed, Awaits, Valid
  <2>2. CASE u \in S /\ ~m.n
    <3>1. u \in L /\ n2.rt[u].prec = n.rt[u].prec
      BY <1>3, <1>4, <1>5, <1>7, <1>14, <2>2
    <3>2. to \in {p, BCast}
      BY <3>1, RerrDestReaches
    <3> HIDE DEF L, to
    <3>3. CASE to \in Addr /\ ~Present(n, to)
      <4>1. to = p /\ p \in Addr
        BY <3>2, <3>3, AddrAssumption
      <4>2. ~Present(r, p)
        <5>1. n.rt[p].state = "NONE" /\ p \notin S
          BY <1>3, <3>3, <4>1 DEF Present
        <5> QED BY <1>4, <1>5, <1>9, <1>13, <4>1, <5>1 DEF Present
      <4> QED BY <4>1, <4>2 DEF Strangers
    <3>4. CASE ~(to \in Addr /\ ~Present(n, to))
      <4> DEFINE t == [to |-> to, ttl |-> 1, msg |-> q]
      <4>1. t.msg = q /\ t.to = to /\ t \in r.out
        BY <1>1, <1>12, <3>1, <3>4
      <4> HIDE DEF t
      <4> QED BY <1>10, <3>1, <3>2, <4>1 DEF Informed, Warned
    <3> QED BY <3>3, <3>4
  <2> QED BY <1>2, <2>1, <2>2
<1> QED BY <1>13, <1>14 DEF Informs, r

LEMMA HelloProcessHeard ==
  ASSUME NEW k, NEW n, Good(n, {}), Heard(k, n), NEW m \in RREP, Present(n, m.dest),
         Adding(n, m.dest)
  PROVE  Heard(k, hello_process(n, m))
<1> DEFINE d == m.dest
           s == m.dest_seqno
           j == rt_table_update(n, d, d, 1, s, "POS")
           h(i) == [i.rt[d] EXCEPT !.hello = TRUE]
           on(i) == [i EXCEPT !.rt[d] = h(i)]
           r == hello_process(n, m)
<1>1. /\ d \in Addr /\ s \in Seqno /\ Hop(d, d, 1) /\ "POS" \in Life /\ Present(n, d)
      /\ n \in Node /\ Adding(n, d)
  BY DEF RREP, Hop, Life, Good
<1>2. r \in {on(n), on(j)}
  BY DEF hello_process
<1> HIDE DEF s
<1>3. ASSUME NEW i \in Node PROVE Quiet(i, on(i))
  <2>1. i.rt[d] \in Entry
    BY <1>1 DEF Node
  <2>2. h(i) \in Entry /\ Mild(i.rt[d], h(i)) /\ h(i).state = i.rt[d].state /\ Loyal(i.rt[d], h(i))
    BY <2>1 DEF Mild, Loyal, Entry
  <2> HIDE DEF h
  <2> QED BY <1>1, <2>2, EntryQuiet
<1> HIDE DEF on, d, r
<1>4. Good(j, {}) /\ Heard(k, j)
  BY <1>1, UpdateGood, UpdateHeard
<1> HIDE DEF j
<1>5. Heard(k, r)
  BY <1>1, <1>2, <1>3, <1>4, QuietHeard DEF Good
<1> QED BY <1>5 DEF r

\* Every AODV message: the kernel is told what becomes of the routes.
LEMMA PackageTells ==
  ASSUME NEW n, Good(n, {}), n.nl = {}, NEW m, NEW src \in Addr, NEW to, NEW ttl \in Int,
         NEW life \in Life, WellFormed(m, src, to, ttl)
  PROVE  LET r == aodv_socket_package_process(n, m, src, to, ttl, life)
         IN  Tells(n, r) /\ Informs(n, r, IF m.type = "RERR" THEN Strangers(r) ELSE {})
<1> DEFINE n1 == neighbor_add(n, src)
           r  == aodv_socket_package_process(n, m, src, to, ttl, life)
<1>1. Good(n1, {}) /\ Present(n1, src) /\ Heard(n, n1) /\ Adding(n1, src)
  BY NeighborAddGood, NeighborAddHeard
<1>2. CASE m \in RREQ
  <2>1. m.type = "RREQ"
    BY <1>2 DEF RREQ
  <2>2. r = rreq_process(n1, m, src, ttl, life)
    BY <2>1 DEF aodv_socket_package_process
  <2> HIDE DEF n1, r
  <2>3. Heard(n, r)
    BY <1>1, <1>2, <2>1, <2>2, RreqProcessHeard DEF WellFormed
  <2> QED BY <2>1, <2>3 DEF Heard, r
<1>3. CASE m \in RREP
  <2>1. m.type = "RREP"
    BY <1>3 DEF RREP
  <2>2. \/ r = hello_process(n1, m) /\ m.dest = src
        \/ r = rrep_process(n1, m, src, ttl)
    BY <2>1 DEF aodv_socket_package_process, WellFormed
  <2> HIDE DEF n1, r
  <2>3. Heard(n, r)
    BY <1>1, <1>3, <2>1, <2>2, HelloProcessHeard, RrepProcessHeard DEF WellFormed
  <2> QED BY <2>1, <2>3 DEF Heard, r
<1>4. CASE m \in RERR
  <2>1. m.type = "RERR"
    BY <1>4 DEF RERR
  <2>2. r = rerr_process(n1, m, src)
    BY <2>1 DEF aodv_socket_package_process
  <2> HIDE DEF n1, r
  <2>3. Tells(n, r) /\ Informs(n1, r, Strangers(r))
    BY <1>1, <1>4, <2>2, RerrProcessTells, RerrProcessInforms DEF Heard
  <2> QED BY <1>1, <2>1, <2>3, InformsTrans DEF Heard, r
<1>5. CASE m \in RREP_ack
  <2>1. m.type = "RREP_ACK"
    BY <1>5 DEF RREP_ack
  <2>2. r = rrep_ack_process(n1, src)
    BY <2>1 DEF aodv_socket_package_process
  <2> HIDE DEF n1, r
  <2>3. Quiet(n1, r)
    BY <1>1, <2>2, AckQuiet, QuietRefl DEF rrep_ack_process, Good
  <2>4. Heard(n, r)
    BY <1>1, <2>3, QuietHeard
  <2> QED BY <2>1, <2>4 DEF Heard, r
<1> QED BY <1>2, <1>3, <1>4, <1>5 DEF WellFormed

\* The kernel's request for a route, and a discovery that finds none.
LEMMA DiscoveryTells ==
  ASSUME NEW n, Good(n, {}), n.nl = {}, NEW d \in Addr
  PROVE  LET m == rreq_route_discovery(n, d) IN Tells(n, m) /\ m.seek[d] # NoSeek
<1> DEFINE m == rreq_route_discovery(n, d)
<1>1. CASE n.seek[d].rreq_cnt # 0
  <2>1. m = n
    BY <1>1 DEF rreq_route_discovery
  <2> QED BY <1>1, <2>1, IdleTells DEF NoSeek
<1>2. CASE n.seek[d].rreq_cnt = 0
  <2>1. PICK j, q : /\ Good(j, {}) /\ Quiet(n, j) /\ q.rreq_cnt = 1
                    /\ rreq_route_discovery(n, d) = [j EXCEPT !.seek[d] = q]
    BY <1>2, DiscoveryQuiet
  <2>2. j \in Node /\ Tells(n, j) /\ q.rreq_cnt # 0
    BY <2>1, IdleTells, QuietTells DEF Good
  <2>3. m.seek[d] = q
    BY <2>1, <2>2 DEF Node
  <2> HIDE DEF m
  <2> QED BY <2>1, <2>2, <2>3, SeekTells DEF NoSeek, m
<1> QED BY <1>1, <1>2

LEMMA DiscoveryTimeoutTells ==
  ASSUME NEW n, Good(n, {}), n.nl = {}, NEW d \in Addr
  PROVE  Tells(n, route_discovery_timeout(n, d))
<1> DEFINE m  == route_discovery_timeout(n, d)
           n1 == [n EXCEPT !.seek[d] = NoSeek,
                           !.nl = @ \cup {nl_send_no_route_found_msg(d)}]
<1>1. n \in Node /\ n.seek[d].rreq_cnt \in Nat /\ Tells(n, n)
  BY IdleTells DEF Good, Node, Seek
<1>2. \/ \E j, q : /\ Good(j, {}) /\ Quiet(n, j) /\ q.rreq_cnt = n.seek[d].rreq_cnt + 1
                   /\ m = [j EXCEPT !.seek[d] = q]
      \/ Quiet(n1, m)
  BY DiscoveryTimeoutQuiet
<1> HIDE DEF m
<1>3. CASE \E j, q : /\ Good(j, {}) /\ Quiet(n, j) /\ q.rreq_cnt = n.seek[d].rreq_cnt + 1
                     /\ m = [j EXCEPT !.seek[d] = q]
  <2>1. PICK j, q : /\ Good(j, {}) /\ Quiet(n, j) /\ q.rreq_cnt = n.seek[d].rreq_cnt + 1
                    /\ m = [j EXCEPT !.seek[d] = q]
    BY <1>3
  <2>2. j \in Node /\ Tells(n, j) /\ q.rreq_cnt # 0
    BY <1>1, <2>1, QuietTells DEF Good
  <2> QED BY <2>1, <2>2, SeekTells DEF m
<1>4. CASE Quiet(n1, m)
  <2>1. Tells(n, n1)
    BY <1>1, NoRouteTells
  <2> HIDE DEF n1
  <2> QED BY <1>4, <2>1, QuietTells DEF m
<1> QED BY <1>2, <1>3, <1>4
====
