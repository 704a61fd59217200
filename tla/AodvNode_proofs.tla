--------------------------- MODULE AodvNode_proofs --------------------------
(***************************************************************************)
(* Every handler of the daemon keeps a node Good: well typed, and with a   *)
(* table, timers and a kernel cache that fit together.                     *)
(***************************************************************************)
EXTENDS AodvNode, RoutingTable_proofs

\* A node between two handlers is Good if it was after the last one.
LEMMA IdleGood ==
  ASSUME NEW n, Good(n, {})
  PROVE  Good(Idle(n), {}) /\ Idle(n).rt = n.rt /\ Idle(n).seek = n.seek
BY DEF Good, Node, Idle, Msg

\* A host starts Good.
LEMMA HostInitGood == ASSUME NEW ip \in Addr PROVE Good(host_init(ip), {})
<1>1. 0 \in Seqno /\ NoSeek \in Seek /\ NoMsg \in Msg
  BY U32Assumption DEF Seqno, NoSeek, Seek, Msg
<1> QED BY <1>1, NoEntrySound DEF host_init, Good, Node

\* What the socket sends does not change the table.
LEMMA SocketSame ==
  ASSUME NEW n, NEW X, Good(n, X), NEW to, NEW ttl
  PROVE  LET m == aodv_socket_send(n, to, ttl)
         IN  m.rt = n.rt /\ m.expl = n.expl /\ m.seek = n.seek
BY DEF aodv_socket_send, Good, Node

\* precursor_add removes no entry.
LEMMA PrecursorAddStays ==
  ASSUME NEW n, NEW X, Good(n, X), NEW d \in Addr, NEW a
  PROVE  Stays(n, precursor_add(n, d, a))
BY DEF precursor_add, Stays, Present, Good, Node, Entry

-----------------------------------------------------------------------------
\* The messages a node creates are well typed.
LEMMA RreqSendGood ==
  ASSUME NEW n, Good(n, {}), NEW dest \in Addr, NEW s \in Seqno, NEW ttl \in Int
  PROVE  LET m == rreq_send(n, dest, s, ttl)
         IN  Good(m, {}) /\ m.rt = n.rt /\ m.seek = n.seek
<1> DEFINE c == rreq_create(n, dest, s)
<1>1. (n.rreq_id + 1) % U32 \in Seqno /\ seqno_incr(n.seqno) \in Seqno
  BY ModType, IncrType DEF Good, Node, Seqno
<1> DEFINE q == [type |-> "RREQ", hopcnt |-> 0, rreq_id |-> n.rreq_id,
                 dest |-> dest, dest_seqno |-> s, orig |-> n.ip,
                 orig_seqno |-> seqno_incr(n.seqno), d |-> FALSE, g |-> FALSE]
<1>2. q \in Msg
  BY <1>1 DEF Msg, RREQ, Good, Node
<1>3. c = [n EXCEPT !.rreq_id = (@ + 1) % U32, !.seqno = seqno_incr(n.seqno), !.send_buf = q]
  BY DEF rreq_create
<1> HIDE DEF q, c
<1>4. Good(c, {}) /\ c.rt = n.rt /\ c.seek = n.seek
  BY <1>1, <1>2, <1>3 DEF Good, Node
<1> QED BY <1>4, SocketGood, SocketSame DEF rreq_send, c

\* rrep_create only fills the send buffer.
LEMMA RrepCreateGood ==
  ASSUME NEW n, Good(n, {}), NEW h \in Nat, NEW dest \in Addr, NEW s \in Seqno,
         NEW orig \in Addr, NEW life \in Life
  PROVE  LET m == rrep_create(n, h, dest, s, orig, life)
         IN  Good(m, {}) /\ m.rt = n.rt
<1> DEFINE p == [type |-> "RREP", hopcnt |-> h, dest |-> dest, dest_seqno |-> s,
                 orig |-> orig, lifetime |-> life, a |-> FALSE]
<1>1. p \in Msg
  BY DEF Msg, RREP
<1>2. rrep_create(n, h, dest, s, orig, life) = [n EXCEPT !.send_buf = p]
  BY DEF rrep_create
<1> HIDE DEF p
<1> QED BY <1>1, <1>2, BufferGood DEF Good, Node

\* rt_table_update_timeout of one route keeps the node Good.
LEMMA KeepRouteGood ==
  ASSUME NEW n, Good(n, {}), NEW d \in Addr
  PROVE  Good(KeepRoute(n, d), {}) /\ KeepRoute(n, d).seek = n.seek
<1> DEFINE e == rt_table_update_timeout(n.rt[d], "POS")
<1>1. e \in Entry /\ EntrySound(d, e, n.expl[d])
  BY TimeoutSound DEF Good, Node, Life
<1>2. KeepRoute(n, d) = [n EXCEPT !.rt[d] = e]
  BY DEF KeepRoute
<1> HIDE DEF e
<1> QED BY <1>1, <1>2, EntryGood

-----------------------------------------------------------------------------
\* neighbor_add keeps the node Good and leaves an entry for the sender.
LEMMA NeighborAddGood ==
  ASSUME NEW n, Good(n, {}), NEW src \in Addr
  PROVE  Good(neighbor_add(n, src), {}) /\ Present(neighbor_add(n, src), src)
<1>1. Hop(src, src, 1) /\ 0 \in Seqno /\ "POS" \in Life
  BY U32Assumption DEF Hop, Seqno, Life
<1>2. n.rt[src].seqno \in Seqno
  BY DEF Good, Node, Entry
<1>3. CASE ~Present(n, src)
  <2>1. neighbor_add(n, src) = rt_table_insert(n, src, src, 1, 0, "POS")
    BY <1>3 DEF neighbor_add
  <2> QED BY <1>1, <2>1, InsertGood
<1>4. CASE Present(n, src) /\ n.rt[src].unidir
  BY <1>4 DEF neighbor_add
<1>5. CASE Present(n, src) /\ ~n.rt[src].unidir
  <2> DEFINE s == n.rt[src].seqno
  <2>1. neighbor_add(n, src) = rt_table_update(n, src, src, 1, s, "POS")
    BY <1>5 DEF neighbor_add
  <2>2. s \in Seqno
    BY <1>2
  <2> HIDE DEF s
  <2> QED BY <1>1, <1>5, <2>1, <2>2, UpdateGood DEF Valid, Present
<1> QED BY <1>3, <1>4, <1>5

\* A flag of an entry that is not part of what is sound about it.
LEMMA AckGood ==
  ASSUME NEW n, NEW X, Good(n, X), NEW d \in Addr, NEW b \in BOOLEAN
  PROVE  LET m == [n EXCEPT !.rt[d].ack = b]
         IN  Good(m, X) /\ Stays(n, m)
<1> DEFINE e == [n.rt[d] EXCEPT !.ack = b]
<1>1. n.rt[d] \in Entry /\ n \in Node
  BY DEF Good, Node
<1>2. /\ e \in Entry /\ e.state = n.rt[d].state
      /\ d \notin X => EntrySound(d, e, n.expl[d])
  BY <1>1 DEF Good, Entry, EntrySound
<1>3. [n EXCEPT !.rt[d].ack = b] = [n EXCEPT !.rt[d] = e]
  OBVIOUS
<1>4. e.state # "NONE" \/ ~Present(n, d)
  BY <1>2 DEF Present
<1> HIDE DEF e
<1> QED BY <1>1, <1>2, <1>3, <1>4, EntryGood, EntryStays

\* The link break in rrep_send, with the flags it sets around it.
LEMMA RequestAckGood ==
  ASSUME NEW n, Good(n, {}), NEW r \in Addr, Present(n, r)
  PROVE  Good(rrep_request_ack(n, r), {}) /\ Stays(n, rrep_request_ack(n, r))
<1> DEFINE e  == n.rt[r]
           k  == [n EXCEPT !.rt[e.next].unidir = TRUE, !.rt[e.next].hello = FALSE]
           b  == neighbor_link_break(k, e.next)
           c  == /\ e.state = "VALID" /\ e.unidir
                 /\ Valid(n, e.next) /\ ~n.rt[e.next].ack
           n1 == IF c THEN [b EXCEPT !.rt[e.next].ack = TRUE] ELSE n
<1>1. e.next \in Addr /\ n \in Node
  BY NextType DEF Good
<1>2. Good(n1, {}) /\ Stays(n, n1)
  <2>1. CASE c
    <3>1. Good(k, {}) /\ Stays(n, k)
      <4> DEFINE x == e.next
                 g == [n.rt[x] EXCEPT !.unidir = TRUE, !.hello = FALSE]
      <4>1. n.rt[x] \in Entry /\ EntrySound(x, n.rt[x], n.expl[x])
        BY <1>1 DEF Good, Node
      <4>2. g \in Entry /\ EntrySound(x, g, n.expl[x]) /\ g.state = n.rt[x].state
        BY <4>1 DEF Entry, EntrySound
      <4>3. k = [n EXCEPT !.rt[x] = g]
        BY <1>1 DEF Node
      <4>4. g.state # "NONE" \/ ~Present(n, x)
        BY <4>2 DEF Present
      <4>5. x \in Addr
        BY <1>1
      <4> HIDE DEF g, x, k
      <4> QED BY <1>1, <4>2, <4>3, <4>4, <4>5, EntryGood, EntryStays
    <3> HIDE DEF k, e
    <3>2. Good(b, {}) /\ Stays(k, b)
      <4>1. Good(k, {e.next})
        BY <3>1 DEF Good
      <4> QED BY <1>1, <3>1, <4>1, LinkBreakGood, LinkBreakKeeps DEF Keeps
    <3> HIDE DEF b, c
    <3> DEFINE a == [b EXCEPT !.rt[e.next].ack = TRUE]
    <3>3. Good(a, {}) /\ Stays(b, a)
      BY <1>1, <3>2, AckGood
    <3> HIDE DEF a
    <3>4. Stays(n, a)
      BY <3>1, <3>2, <3>3, StaysTrans
    <3> QED BY <2>1, <3>3, <3>4 DEF a
  <2>2. CASE ~c
    BY <2>2 DEF Stays
  <2> QED BY <2>1, <2>2
<1> QED BY <1>2 DEF rrep_request_ack

\* rrep_send keeps the node Good.
LEMMA RrepSendGood ==
  ASSUME NEW n, Good(n, {}), NEW r \in Addr, Present(n, r),
         NEW f \in Addr \cup {NoAddr}, f # NoAddr => Present(n, f)
  PROVE  Good(rrep_send(n, r, f), {}) /\ Stays(n, rrep_send(n, r, f))
<1> DEFINE n1 == rrep_request_ack(n, r)
           n2 == aodv_socket_send(n1, n1.rt[r].next, MAXTTL)
<1>2. Good(n1, {}) /\ Stays(n, n1)
  BY RequestAckGood
<1> HIDE DEF n1
<1>3. n1.rt[r].next \in Addr
  BY <1>2, NextType DEF Stays
<1>4. Good(n2, {}) /\ n2.rt = n1.rt
  <2> DEFINE t == n1.rt[r].next
  <2>1. t \in Addr \cup {BCast} /\ MAXTTL \in Int
    BY <1>3 DEF MAXTTL
  <2> HIDE DEF t
  <2>2. Good(aodv_socket_send(n1, t, MAXTTL), {}) /\ aodv_socket_send(n1, t, MAXTTL).rt = n1.rt
    BY <1>2, <2>1, SocketGood, SocketSame
  <2> QED BY <2>2 DEF t
<1> HIDE DEF n2
<1>5. Stays(n, n2)
  BY <1>2, <1>4 DEF Stays, Present
<1> DEFINE p == precursor_add(n2, f, n2.rt[r].next)
           q == precursor_add(p, r, n2.rt[f].next)
<1>6. rrep_send(n, r, f) = IF f = NoAddr THEN n2 ELSE q
  BY DEF rrep_send, n1, n2
<1>7. CASE f = NoAddr
  BY <1>4, <1>5, <1>6, <1>7
<1>8. CASE f # NoAddr
  <2>1. f \in Addr /\ n2.rt[r].next \in Addr /\ n2.rt[f].next \in Addr
    BY <1>4, <1>5, <1>8, NextType DEF Stays
  <2>2. Good(p, {}) /\ Stays(n2, p)
    BY <1>4, <2>1, PrecursorAddGood, PrecursorAddStays
  <2> HIDE DEF p
  <2>3. Good(q, {}) /\ Stays(p, q)
    BY <2>1, <2>2, PrecursorAddGood, PrecursorAddStays
  <2> HIDE DEF q
  <2> QED BY <1>5, <1>6, <1>8, <2>2, <2>3, StaysTrans
<1> QED BY <1>7, <1>8

\* rrep_forward keeps the node Good.
LEMMA RrepForwardGood ==
  ASSUME NEW n, Good(n, {}), NEW m \in RREP, NEW r \in Addr, Present(n, r),
         NEW f \in Addr, Present(n, f), NEW ttl \in Int
  PROVE  Good(rrep_forward(n, m, r, f, ttl), {})
<1> DEFINE x   == n.rt[r].next
           ask == Present(n, x) /\ ~n.rt[x].ack
           g   == [n.rt[x] EXCEPT !.unidir = TRUE, !.ack = TRUE]
           n1  == IF ask THEN [n EXCEPT !.rt[x].unidir = TRUE, !.rt[x].ack = TRUE] ELSE n
           q   == [m EXCEPT !.a = ask, !.hopcnt = n1.rt[f].hopcnt]
           n2  == aodv_socket_send([n1 EXCEPT !.send_buf = q], x, ttl)
           n3  == precursor_add(n2, f, x)
           n4  == precursor_add(n3, r, n2.rt[f].next)
<1>1. x \in Addr /\ n \in Node
  BY NextType DEF Good
<1>2. Good(n1, {}) /\ Stays(n, n1)
  <2>1. n.rt[x] \in Entry /\ EntrySound(x, n.rt[x], n.expl[x])
    BY <1>1 DEF Good, Node
  <2>2. g \in Entry /\ EntrySound(x, g, n.expl[x]) /\ g.state = n.rt[x].state
    BY <2>1 DEF Entry, EntrySound
  <2>3. n1 = IF ask THEN [n EXCEPT !.rt[x] = g] ELSE n
    BY <1>1 DEF Node
  <2>4. g.state # "NONE" \/ ~Present(n, x)
    BY <2>2 DEF Present
  <2>5. Stays(n, n)
    BY DEF Stays
  <2> HIDE DEF g, x, n1, ask
  <2> QED BY <1>1, <2>2, <2>3, <2>4, <2>5, EntryGood, EntryStays
<1>3. ask \in BOOLEAN
  BY <1>1 DEF Present, Node
<1>4. rrep_forward(n, m, r, f, ttl) = KeepRoute(n4, r)
  BY DEF rrep_forward
<1> HIDE DEF x, n1, ask
<1>5. q \in Msg
  <2>1. n1.rt[f].hopcnt \in Nat
    BY <1>2 DEF Good, Node, Entry
  <2> QED BY <1>3, <2>1 DEF Msg, RREP
<1> HIDE DEF q
<1>6. Good(n2, {}) /\ n2.rt = n1.rt
  <2> DEFINE c == [n1 EXCEPT !.send_buf = q]
  <2>1. Good(c, {}) /\ c.rt = n1.rt
    BY <1>2, <1>5, BufferGood DEF Good, Node
  <2> HIDE DEF c
  <2>2. Good(aodv_socket_send(c, x, ttl), {}) /\ aodv_socket_send(c, x, ttl).rt = c.rt
    BY <1>1, <2>1, SocketGood, SocketSame
  <2> QED BY <2>1, <2>2 DEF c
<1> HIDE DEF n2
<1>7. n2.rt[f].next \in Addr
  BY <1>2, <1>6, NextType DEF Stays, Present
<1>8. Good(n3, {})
  BY <1>1, <1>6, PrecursorAddGood
<1> HIDE DEF n3
<1>9. Good(n4, {})
  BY <1>7, <1>8, PrecursorAddGood
<1> HIDE DEF n4
<1> QED BY <1>4, <1>9, KeepRouteGood

-----------------------------------------------------------------------------
\* A message that has travelled h hops and comes from src is about a host that
\* is src itself exactly when h is 0.
LEMMA ReverseGood ==
  ASSUME NEW n, Good(n, {}), NEW m \in RREQ, NEW src \in Addr,
         m.hopcnt = 0 <=> src = m.orig
  PROVE  Good(RREQ_reverse(n, m, src), {}) /\ Present(RREQ_reverse(n, m, src), m.orig)
<1> DEFINE o == m.orig
           h == m.hopcnt + 1
           s == m.orig_seqno
           c == Fresher(n.rt[o], s, n.rt[o].state = "INVALID" \/ h < n.rt[o].hopcnt)
<1>1. o \in Addr /\ s \in Seqno /\ Hop(o, src, h) /\ "POS" \in Life
  BY DEF RREQ, Hop, Life
<1>2. RREQ_reverse(n, m, src) =
        IF ~Present(n, o) THEN rt_table_insert(n, o, src, h, s, "POS")
        ELSE IF c THEN rt_table_update(n, o, src, h, s, "POS") ELSE n
  BY DEF RREQ_reverse
<1> HIDE DEF o, h, s, c
<1>3. CASE ~Present(n, o)
  BY <1>1, <1>2, <1>3, InsertGood DEF o
<1>4. CASE Present(n, o) /\ c
  BY <1>1, <1>2, <1>4, UpdateGood DEF o, Present, Valid
<1>5. CASE Present(n, o) /\ ~c
  BY <1>2, <1>5 DEF o
<1> QED BY <1>3, <1>4, <1>5

\* The answer of the destination to a RREQ keeps it Good.
LEMMA AnswerGood ==
  ASSUME NEW n, Good(n, {}), NEW m \in RREQ, Present(n, m.orig)
  PROVE  Good(RREQ_answer(n, m), {})
<1> DEFINE s == IF m.dest_seqno = 0 THEN n.seqno
                ELSE IF Signed(n.seqno) < Signed(m.dest_seqno) THEN m.dest_seqno
                ELSE IF n.seqno = m.dest_seqno THEN seqno_incr(n.seqno)
                ELSE n.seqno
           a == [n EXCEPT !.seqno = s]
           b == rrep_create(a, 0, n.ip, s, m.orig, "POS")
<1>1. s \in Seqno
  BY IncrType DEF Good, Node, RREQ
<1>2. RREQ_answer(n, m) = rrep_send(b, m.orig, NoAddr)
  BY DEF RREQ_answer
<1> HIDE DEF s
<1>3. Good(a, {}) /\ a.rt = n.rt
  BY <1>1 DEF Good, Node
<1> HIDE DEF a
<1>4. m.orig \in Addr /\ n.ip \in Addr /\ "POS" \in Life /\ 0 \in Nat
  BY DEF RREQ, Good, Node, Life
<1>5. Good(b, {}) /\ b.rt = n.rt
  BY <1>1, <1>3, <1>4, RrepCreateGood
<1> HIDE DEF b
<1>6. Present(b, m.orig)
  BY <1>5 DEF Present
<1> QED BY <1>2, <1>4, <1>5, <1>6, RrepSendGood

\* The answer of an intermediate node, gratuitous RREP included.
LEMMA AnswerForGood ==
  ASSUME NEW n, Good(n, {}), NEW m \in RREQ, Present(n, m.orig), Present(n, m.dest),
         NEW life \in Life
  PROVE  Good(RREQ_answer_for(n, m, life), {})
<1> DEFINE o  == m.orig
           d  == m.dest
           f  == n.rt[d]
           a  == rrep_create(n, f.hopcnt, d, f.seqno, o, life)
           n1 == rrep_send(a, o, d)
           r  == n1.rt[o]
           b  == rrep_create(n1, r.hopcnt, o, r.seqno, d, life)
<1>1. RREQ_answer_for(n, m, life) = IF ~m.g THEN n1 ELSE rrep_send(b, d, o)
  BY DEF RREQ_answer_for
<1>2. o \in Addr /\ d \in Addr /\ Present(n, o) /\ Present(n, d)
  BY DEF RREQ
<1>3. f.hopcnt \in Nat /\ f.seqno \in Seqno
  BY <1>2 DEF Good, Node, Entry
<1> HIDE DEF o, d, f
<1>4. Good(a, {}) /\ a.rt = n.rt
  BY <1>2, <1>3, RrepCreateGood
<1> HIDE DEF a
<1>5. Good(n1, {}) /\ Present(n1, o) /\ Present(n1, d)
  <2>1. Present(a, o) /\ Present(a, d)
    BY <1>2, <1>4 DEF Present
  <2> QED BY <1>2, <1>4, <2>1, RrepSendGood DEF Stays
<1> HIDE DEF n1
<1>6. r.hopcnt \in Nat /\ r.seqno \in Seqno
  BY <1>2, <1>5 DEF Good, Node, Entry
<1> HIDE DEF r
<1>7. Good(b, {}) /\ b.rt = n1.rt
  BY <1>2, <1>5, <1>6, RrepCreateGood
<1> HIDE DEF b
<1>8. Present(b, o) /\ Present(b, d)
  BY <1>5, <1>7 DEF Present
<1> QED BY <1>1, <1>2, <1>5, <1>7, <1>8, RrepSendGood

\* rreq_forward only fills the send buffer and sends.
LEMMA RreqForwardGood ==
  ASSUME NEW n, Good(n, {}), NEW m \in RREQ, NEW ttl \in Int
  PROVE  Good(rreq_forward(n, m, ttl), {})
<1> DEFINE f == n.rt[m.dest].seqno
           s == IF Present(n, m.dest) /\ Signed(f) > Signed(m.dest_seqno)
                  THEN f ELSE m.dest_seqno
           q == [m EXCEPT !.dest_seqno = s, !.hopcnt = @ + 1]
           a == [n EXCEPT !.send_buf = q]
<1>1. s \in Seqno
  <2>1. m.dest \in Addr /\ m.dest_seqno \in Seqno
    BY DEF RREQ
  <2>2. f \in Seqno
    BY <2>1 DEF Good, Node, Entry
  <2> QED BY <2>1, <2>2
<1>2. rreq_forward(n, m, ttl) = aodv_socket_send(a, BCast, ttl)
  BY DEF rreq_forward
<1> HIDE DEF s
<1>3. q \in Msg
  <2>1. m.hopcnt + 1 \in Nat /\ q = [m EXCEPT !.dest_seqno = s, !.hopcnt = m.hopcnt + 1]
    BY DEF RREQ
  <2>2. [m EXCEPT !.dest_seqno = s, !.hopcnt = m.hopcnt + 1] \in RREQ
    BY <1>1, <2>1 DEF RREQ
  <2> QED BY <2>1, <2>2 DEF Msg
<1> HIDE DEF q
<1>4. Good(a, {})
  BY <1>3, BufferGood
<1> HIDE DEF a
<1> QED BY <1>2, <1>4, SocketGood

\* rreq_process keeps the node Good.
LEMMA RreqProcessGood ==
  ASSUME NEW n, Good(n, {}), NEW m \in RREQ, NEW src \in Addr,
         m.hopcnt = 0 <=> src = m.orig, NEW ttl \in Int, NEW life \in Life
  PROVE  Good(rreq_process(n, m, src, ttl, life), {})
<1> DEFINE a  == [n EXCEPT !.records = @ \cup {<<m.orig, m.rreq_id>>}]
           n1 == RREQ_reverse(a, m, src)
           f  == n1.rt[m.dest]
           g  == /\ f.state = "VALID" /\ ~m.d /\ f.seqno # 0
                 /\ Signed(f.seqno) >= Signed(m.dest_seqno)
<1>1. \/ rreq_process(n, m, src, ttl, life) = n
      \/ rreq_process(n, m, src, ttl, life) = RREQ_answer(n1, m)
      \/ g /\ rreq_process(n, m, src, ttl, life) = RREQ_answer_for(n1, m, life)
      \/ rreq_process(n, m, src, ttl, life) = rreq_forward(n1, m, ttl - 1)
      \/ rreq_process(n, m, src, ttl, life) = n1
  BY DEF rreq_process
<1>2. g => Present(n1, m.dest)
  BY DEF Present
<1>3. Good(a, {})
  BY DEF Good, Node, RREQ
<1> HIDE DEF a, g
<1>4. Good(n1, {}) /\ Present(n1, m.orig)
  BY <1>3, ReverseGood
<1> HIDE DEF n1
<1>5. Good(RREQ_answer(n1, m), {})
  BY <1>4, AnswerGood
<1>6. g => Good(RREQ_answer_for(n1, m, life), {})
  BY <1>2, <1>4, AnswerForGood
<1>7. Good(rreq_forward(n1, m, ttl - 1), {})
  BY <1>4, RreqForwardGood
<1> QED BY <1>1, <1>4, <1>5, <1>6, <1>7

-----------------------------------------------------------------------------
\* rrep_process keeps the node Good.
LEMMA RrepProcessGood ==
  ASSUME NEW n, Good(n, {}), NEW m \in RREP, NEW src \in Addr,
         m.hopcnt = 0 <=> src = m.dest, NEW ttl \in Int
  PROVE  Good(rrep_process(n, m, src, ttl), {})
<1> DEFINE d   == m.dest
           h   == m.hopcnt + 1
           s   == m.dest_seqno
           e   == n.rt[d]
           n1  == IF ~Present(n, d) THEN rt_table_insert(n, d, src, h, s, m.lifetime)
                                    ELSE rt_table_update(n, d, src, h, s, m.lifetime)
           n2  == IF m.a THEN RREP_ack_send(n1, n1.rt[d].next) ELSE n1
<1>1. \/ rrep_process(n, m, src, ttl) \in {n, n2}
      \/ rrep_process(n, m, src, ttl) = RREP_repaired(n2, e, d)
      \/ /\ Valid(n2, m.orig)
         /\ rrep_process(n, m, src, ttl) = rrep_forward(n2, m, m.orig, d, ttl - 1)
  BY DEF rrep_process
<1>2. d \in Addr /\ s \in Seqno /\ Hop(d, src, h) /\ m.lifetime \in Life /\ m.orig \in Addr
  BY DEF RREP, Hop
<1> HIDE DEF d, h, s, e
<1>3. Good(n1, {}) /\ Present(n1, d)
  <2>1. CASE ~Present(n, d)
    BY <1>2, <2>1, InsertGood
  <2>2. CASE Present(n, d)
    BY <1>2, <2>2, UpdateGood DEF Present, Valid
  <2> QED BY <2>1, <2>2
<1> HIDE DEF n1
<1>4. Good(n2, {}) /\ Present(n2, d)
  <2> DEFINE x == n1.rt[d].next
             b == [n1 EXCEPT !.send_buf = [type |-> "RREP_ACK"]]
             k == aodv_socket_send(b, x, MAXTTL)
  <2>1. x \in Addr \cup {BCast} /\ MAXTTL \in Int
    BY <1>2, <1>3, NextType DEF MAXTTL
  <2>2. [type |-> "RREP_ACK"] \in Msg
    BY DEF Msg, RREP_ack
  <2>3. Good(b, {}) /\ b.rt = n1.rt
    BY <1>3, <2>2, BufferGood DEF Good, Node
  <2>4. n2 = IF m.a THEN k ELSE n1
    BY DEF RREP_ack_send
  <2> HIDE DEF x, b, n2
  <2>5. Good(k, {}) /\ k.rt = n1.rt
    BY <2>1, <2>3, SocketGood, SocketSame
  <2> HIDE DEF k
  <2> QED BY <1>3, <2>4, <2>5 DEF Present
<1> HIDE DEF n2
<1>5. Good(RREP_repaired(n2, e, d), {})
  <2> DEFINE q == rerr_create(n2, {d}, TRUE)
             b == [n2 EXCEPT !.send_buf = q]
  <2>1. q \in Msg
    BY <1>2, <1>4, RerrType
  <2>2. \/ RREP_repaired(n2, e, d) \in {n2, b}
        \/ RREP_repaired(n2, e, d) = aodv_socket_send(b, BCast, 1)
    BY DEF RREP_repaired
  <2> HIDE DEF q
  <2>3. Good(b, {})
    BY <1>4, <2>1, BufferGood
  <2> HIDE DEF b
  <2>4. BCast \in Addr \cup {BCast} /\ 1 \in Int
    OBVIOUS
  <2>5. Good(aodv_socket_send(b, BCast, 1), {})
    BY <2>3, <2>4, SocketGood
  <2> QED BY <1>4, <2>2, <2>3, <2>5
<1>6. Valid(n2, m.orig) => Good(rrep_forward(n2, m, m.orig, d, ttl - 1), {})
  <2>1. Valid(n2, m.orig) => Present(n2, m.orig)
    BY DEF Valid, Present
  <2> QED BY <1>2, <1>4, <2>1, RrepForwardGood
<1> QED BY <1>1, <1>4, <1>5, <1>6

\* rerr_process keeps the node Good: it writes sequence numbers over
\* invalidated entries and nothing else.
LEMMA RerrProcessGood ==
  ASSUME NEW n, Good(n, {}), NEW m \in RERR, NEW src \in Addr
  PROVE  Good(rerr_process(n, m, src), {})
<1> DEFINE S  == {d \in m.dests : /\ Valid(n, d) /\ n.rt[d].next = src
                                  /\ ~(Signed(n.rt[d].seqno) > Signed(m.seqno[d]))}
           n1 == IF m.n THEN n ELSE rt_table_invalidate(n, S)
           n2 == [n1 EXCEPT !.rt = [d \in Addr |->
                                      IF d \in S THEN [n1.rt[d] EXCEPT !.seqno = m.seqno[d]]
                                                 ELSE n1.rt[d]]]
           L  == {d \in S : n2.rt[d].prec # {} /\ ~n2.rt[d].repair}
           to == rerr_dest(n2, L)
           n3 == precursor_list_destroy(n2, {d \in S : n2.rt[d].state = "INVALID"})
           q  == rerr_create(n2, L, m.n)
           n4 == [n3 EXCEPT !.send_buf = q]
<1>1. \/ rerr_process(n, m, src) \in {n3, n4}
      \/ rerr_process(n, m, src) = aodv_socket_send(n4, to, 1)
  BY DEF rerr_process
<1>2. m.dests \in SUBSET Addr /\ m.n \in BOOLEAN /\ \A d \in Addr : m.seqno[d] \in Seqno
  BY DEF RERR
<1>3. S \in SUBSET Addr /\ L \in SUBSET Addr
  BY <1>2
<1> HIDE DEF S
<1>4. Good(n1, {})
  BY <1>3, InvalidateGood
<1> HIDE DEF n1
<1>5. Good(n2, {})
  <2> DEFINE g(d) == [n1.rt[d] EXCEPT !.seqno = m.seqno[d]]
  <2>1. \A d \in Addr : n1.rt[d] \in Entry /\ EntrySound(d, n1.rt[d], n1.expl[d])
    BY <1>4 DEF Good, Node
  <2>2. \A d \in Addr : g(d) \in Entry /\ EntrySound(d, g(d), n1.expl[d])
    BY <1>2, <2>1 DEF Entry, EntrySound
  <2>3. n2 = [n1 EXCEPT !.rt = [d \in Addr |-> IF d \in S THEN g(d) ELSE n1.rt[d]]]
    OBVIOUS
  <2> HIDE DEF g, n2
  <2> DEFINE rt == [d \in Addr |-> IF d \in S THEN g(d) ELSE n1.rt[d]]
  <2>4. rt \in [Addr -> Entry] /\ \A d \in Addr : EntrySound(d, rt[d], n1.expl[d])
    BY <2>1, <2>2
  <2>5. n2 = [n1 EXCEPT !.rt = rt]
    BY <2>3
  <2> HIDE DEF rt
  <2> QED BY <1>4, <2>4, <2>5 DEF Good, Node
<1> HIDE DEF n2, L
<1>6. Good(n3, {}) /\ q \in Msg /\ to \in Addr \cup {BCast} /\ 1 \in Int
  BY <1>2, <1>3, <1>5, PrecursorDestroyGood, RerrType, RerrDestType
<1> HIDE DEF n3, q, to
<1>7. Good(n4, {})
  BY <1>6, BufferGood
<1> HIDE DEF n4
<1>8. Good(aodv_socket_send(n4, to, 1), {})
  BY <1>6, <1>7, SocketGood
<1> QED BY <1>1, <1>6, <1>7, <1>8

\* hello_process starts hello_timer only for the VALID entry of a neighbour.
LEMMA HelloProcessGood ==
  ASSUME NEW n, Good(n, {}), NEW m \in RREP, Present(n, m.dest)
  PROVE  Good(hello_process(n, m), {})
<1> DEFINE d == m.dest
           e == n.rt[d]
           k == rt_table_update(n, d, d, 1, m.dest_seqno, "POS")
<1>1. d \in Addr /\ m.dest_seqno \in Seqno /\ Hop(d, d, 1) /\ "POS" \in Life /\ Present(n, d)
  BY DEF RREP, Hop, Life
<1>2. \/ /\ e.unidir /\ Valid(n, d)
         /\ hello_process(n, m) = [n EXCEPT !.rt[d].hello = TRUE]
      \/ hello_process(n, m) = [k EXCEPT !.rt[d].hello = TRUE]
  BY DEF hello_process, Valid
<1>3. ASSUME NEW j, Good(j, {}), Valid(j, d), j.rt[d].unidir \/ j.rt[d].hopcnt = 1
      PROVE  Good([j EXCEPT !.rt[d].hello = TRUE], {})
  <2> DEFINE g == [j.rt[d] EXCEPT !.hello = TRUE]
  <2>1. j.rt[d] \in Entry /\ EntrySound(d, j.rt[d], j.expl[d])
    BY <1>1, <1>3 DEF Good, Node
  <2>2. g \in Entry /\ EntrySound(d, g, j.expl[d])
    BY <1>3, <2>1 DEF Entry, EntrySound, Valid
  <2>3. [j EXCEPT !.rt[d].hello = TRUE] = [j EXCEPT !.rt[d] = g]
    OBVIOUS
  <2> HIDE DEF g, d
  <2> QED BY <1>1, <1>3, <2>2, <2>3, EntryGood
<1> HIDE DEF d
<1>4. Good(k, {}) /\ Valid(k, d) /\ k.rt[d].hopcnt = 1
  <2> DEFINE s == m.dest_seqno
  <2>1. s \in Seqno
    BY <1>1
  <2> HIDE DEF s
  <2>2. k = rt_table_update(n, d, d, 1, s, "POS")
    BY DEF s
  <2> QED BY <1>1, <2>1, <2>2, UpdateGood
<1> HIDE DEF k
<1> QED BY <1>2, <1>3, <1>4

\* rrep_ack_process only stops the ack timer.
LEMMA AckProcessGood ==
  ASSUME NEW n, Good(n, {}), NEW src \in Addr
  PROVE  Good(rrep_ack_process(n, src), {})
BY AckGood DEF rrep_ack_process

-----------------------------------------------------------------------------
\* A message as other hosts send it: one about its sender has hop count 0.
WellFormed(m, src, to, ttl) ==
  /\ m \in RREQ \cup RREP \cup RERR \cup RREP_ack
  /\ m.type = "RREQ" => (m.hopcnt = 0 <=> src = m.orig)
  /\ m.type = "RREP" => (m.hopcnt = 0 <=> src = m.dest)
  /\ m.type = "RREP" /\ ttl = 1 /\ to = BCast => m.dest = src

\* Every well-formed message keeps the node Good.
LEMMA PackageGood ==
  ASSUME NEW n, Good(n, {}), NEW m, NEW src \in Addr, NEW to, NEW ttl \in Int,
         NEW life \in Life, WellFormed(m, src, to, ttl)
  PROVE  Good(aodv_socket_package_process(n, m, src, to, ttl, life), {})
<1> DEFINE n1 == neighbor_add(n, src)
           r  == aodv_socket_package_process(n, m, src, to, ttl, life)
<1>1. Good(n1, {}) /\ Present(n1, src)
  BY NeighborAddGood
<1>2. CASE m \in RREQ
  <2>1. m.type = "RREQ"
    BY <1>2 DEF RREQ
  <2>2. r = rreq_process(n1, m, src, ttl, life)
    BY <2>1 DEF aodv_socket_package_process
  <2> HIDE DEF n1, r
  <2>3. Good(r, {})
    BY <1>1, <1>2, <2>1, <2>2, RreqProcessGood DEF WellFormed
  <2> QED BY <2>3 DEF r
<1>3. CASE m \in RREP
  <2>1. m.type = "RREP"
    BY <1>3 DEF RREP
  <2>2. CASE ttl = 1 /\ to = BCast
    <3>1. r = hello_process(n1, m)
      BY <2>1, <2>2 DEF aodv_socket_package_process
    <3> HIDE DEF n1, r
    <3>2. Good(r, {})
      BY <1>1, <1>3, <2>1, <2>2, <3>1, HelloProcessGood DEF WellFormed
    <3> QED BY <3>2 DEF r
  <2>3. CASE ~(ttl = 1 /\ to = BCast)
    <3>1. r = rrep_process(n1, m, src, ttl)
      BY <2>1, <2>3 DEF aodv_socket_package_process
    <3> HIDE DEF n1, r
    <3>2. Good(r, {})
      BY <1>1, <1>3, <2>1, <3>1, RrepProcessGood DEF WellFormed
    <3> QED BY <3>2 DEF r
  <2> QED BY <2>2, <2>3
<1>4. CASE m \in RERR
  <2>1. m.type = "RERR"
    BY <1>4 DEF RERR
  <2>2. r = rerr_process(n1, m, src)
    BY <2>1 DEF aodv_socket_package_process
  <2> HIDE DEF n1, r
  <2>3. Good(r, {})
    BY <1>1, <1>4, <2>2, RerrProcessGood
  <2> QED BY <2>3 DEF r
<1>5. CASE m \in RREP_ack
  <2>1. m.type = "RREP_ACK"
    BY <1>5 DEF RREP_ack
  <2>2. r = rrep_ack_process(n1, src)
    BY <2>1 DEF aodv_socket_package_process
  <2> HIDE DEF n1, r
  <2>3. Good(r, {})
    BY <1>1, <2>2, AckProcessGood
  <2> QED BY <2>3 DEF r
<1> QED BY <1>2, <1>3, <1>4, <1>5 DEF WellFormed

-----------------------------------------------------------------------------
\* KAODVM_ROUTE_REQ keeps the node Good.
LEMMA DiscoveryGood ==
  ASSUME NEW n, Good(n, {}), NEW d \in Addr
  PROVE  Good(rreq_route_discovery(n, d), {})
<1> DEFINE s   == n.rt[d].seqno
           ttl == IF ~ExpandingRing THEN NET_DIAMETER
                  ELSE IF Present(n, d) THEN n.rt[d].hopcnt + TTL_INCREMENT ELSE TTL_START
           k   == KeepRoute(n, d)
           n1  == rreq_send(k, d, s, ttl)
           q   == [dest_seqno |-> s, ttl |-> ttl, rreq_cnt |-> 1]
<1>1. s \in Seqno /\ n.rt[d].hopcnt \in Nat
  BY DEF Good, Node, Entry
<1>2. ttl \in Nat
  BY <1>1 DEF NET_DIAMETER, TTL_INCREMENT, TTL_START
<1>3. rreq_route_discovery(n, d) =
        IF n.seek[d].rreq_cnt # 0 THEN n ELSE [n1 EXCEPT !.seek[d] = q]
  BY DEF rreq_route_discovery
<1> HIDE DEF s, ttl
<1>4. Good(k, {})
  BY KeepRouteGood
<1> HIDE DEF k
<1>5. Good(n1, {}) /\ q \in Seek
  BY <1>1, <1>2, <1>4, RreqSendGood DEF Seek
<1> HIDE DEF n1, q
<1> QED BY <1>3, <1>5, SeekGood

\* KAODVM_SEND_RERR keeps the node Good.
LEMMA NlSendRerrGood ==
  ASSUME NEW n, Good(n, {}), NEW s \in Addr, NEW d \in Addr
  PROVE  Good(nl_send_rerr(n, s, d), {})
<1> DEFINE q  == rerr_create(n, {d}, FALSE)
           b  == [n EXCEPT !.send_buf = q]
           k  == KeepRoute(b, d)
           to == IF Valid(n, s) THEN n.rt[s].next ELSE BCast
<1>1. nl_send_rerr(n, s, d) = aodv_socket_send(k, to, 1)
  BY DEF nl_send_rerr
<1>2. to \in Addr \cup {BCast}
  BY NextType DEF Valid, Present
<1>3. q \in Msg
  BY RerrType
<1> HIDE DEF q, to
<1>4. Good(b, {})
  BY <1>3, BufferGood
<1> HIDE DEF b
<1>5. Good(k, {})
  BY <1>4, KeepRouteGood
<1> HIDE DEF k
<1> QED BY <1>1, <1>2, <1>5, SocketGood

-----------------------------------------------------------------------------
\* A repair is given up only for an INVALID entry.
LEMMA RepairTimeoutGood ==
  ASSUME NEW n, Good(n, {}), NEW d \in Addr, n.rt[d].state = "INVALID"
  PROVE  Good(local_repair_timeout(n, d), {})
<1> DEFINE g  == [n.rt[d] EXCEPT !.repair = FALSE]
           nl == n.nl \cup {nl_send_del_route_msg(d, n.rt[d].next, n.rt[d].hopcnt)}
           n1 == [n EXCEPT !.rt[d].repair = FALSE, !.expl[d] = NoAddr, !.nl = nl]
           q  == rerr_create(n1, {d}, FALSE)
           b  == [n1 EXCEPT !.send_buf = q]
           to == rerr_dest(n1, {d})
           n2 == IF n.rt[d].prec = {} THEN n1 ELSE aodv_socket_send(b, to, 1)
           f  == [n2.rt[d] EXCEPT !.prec = {}, !.handler = "delete", !.armed = TRUE]
<1>1. n.rt[d] \in Entry /\ EntrySound(d, n.rt[d], n.expl[d]) /\ n \in Node
  BY DEF Good, Node
<1>2. g \in Entry
  BY <1>1 DEF Entry
<1>3. Good(n1, {d}) /\ n1.rt[d] = g /\ n1.expl[d] = NoAddr
  <2> DEFINE rt == [n.rt EXCEPT ![d] = g]
             ex == [n.expl EXCEPT ![d] = NoAddr]
  <2>1. n1 = [n EXCEPT !.rt = rt, !.expl = ex, !.nl = nl]
    OBVIOUS
  <2>2. nl \in SUBSET NlMsg
    BY <1>1, NlDelType DEF Node
  <2>3. rt \in [Addr -> Entry] /\ ex \in [Addr -> Addr \cup {NoAddr}]
    BY <1>1, <1>2 DEF Node
  <2>4. /\ rt[d] = g /\ ex[d] = NoAddr
        /\ \A x \in Addr \ {d} : rt[x] = n.rt[x] /\ ex[x] = n.expl[x]
    BY <1>1 DEF Node
  <2> HIDE DEF g, n1, nl, rt, ex
  <2>5. n1 \in Node /\ n1.rt = rt /\ n1.expl = ex
    BY <1>1, <2>1, <2>2, <2>3 DEF Node
  <2> QED BY <2>4, <2>5 DEF Good
<1>4. local_repair_timeout(n, d) =
        [n2 EXCEPT !.rt[d].prec = {}, !.rt[d].handler = "delete", !.rt[d].armed = TRUE]
  BY DEF local_repair_timeout
<1>5. q \in Msg /\ to \in Addr \cup {BCast} /\ 1 \in Int
  <2> HIDE DEF n1
  <2>1. {d} \in SUBSET Addr /\ FALSE \in BOOLEAN
    OBVIOUS
  <2>2. q \in Msg
    BY <1>3, <2>1, RerrType
  <2>3. to \in Addr \cup {BCast}
    BY RerrDestType
  <2> HIDE DEF q, to
  <2> QED BY <2>2, <2>3
<1> HIDE DEF n1, q, to
<1>6. Good(b, {d}) /\ b.rt = n1.rt /\ b.expl = n1.expl
  BY <1>3, <1>5, BufferGood DEF Good, Node
<1> HIDE DEF b
<1>7. Good(n2, {d}) /\ n2.rt = n1.rt /\ n2.expl = n1.expl
  BY <1>3, <1>5, <1>6, SocketGood, SocketSame
<1> HIDE DEF n2
<1>8. f \in Entry /\ EntrySound(d, f, NoAddr)
  <2>1. g.state = "INVALID" /\ g.repair = FALSE /\ g.hello = FALSE
        /\ g.next \in Addr /\ g.hopcnt >= 1 /\ (g.hopcnt = 1 <=> g.next = d)
    BY <1>1 DEF Entry, EntrySound
  <2>2. f = [g EXCEPT !.prec = {}, !.handler = "delete", !.armed = TRUE]
    BY <1>3, <1>7
  <2> HIDE DEF g, f
  <2>3. /\ f \in Entry /\ f.state = "INVALID" /\ f.repair = FALSE /\ f.hello = FALSE
        /\ f.next = g.next /\ f.hopcnt = g.hopcnt /\ f.armed = TRUE /\ f.handler = "delete"
    BY <1>2, <2>1, <2>2 DEF Entry
  <2> QED BY <2>1, <2>3 DEF EntrySound
<1>9. local_repair_timeout(n, d) = [n2 EXCEPT !.rt[d] = f]
  <2>1. n2 \in Node /\ n2.rt[d] \in Entry
    BY <1>7 DEF Good, Node
  <2>2. [n2 EXCEPT !.rt[d].prec = {}, !.rt[d].handler = "delete", !.rt[d].armed = TRUE]
          = [n2 EXCEPT !.rt[d] = f]
    BY <2>1 DEF Node
  <2> QED BY <1>4, <2>2
<1> HIDE DEF f
<1> QED BY <1>3, <1>7, <1>8, <1>9, EntryGood

\* route_expire_timeout of a VALID entry keeps the node Good.
LEMMA ExpireTimeoutGood ==
  ASSUME NEW n, Good(n, {}), NEW d \in Addr, Valid(n, d)
  PROVE  Good(route_expire_timeout(n, d), {})
<1> DEFINE e  == [n.rt[d] EXCEPT !.armed = FALSE]
           n1 == [n EXCEPT !.rt[d].armed = FALSE]
<1>1. e \in Entry /\ EntrySound(d, e, n.expl[d])
  <2>1. n.rt[d] \in Entry /\ EntrySound(d, n.rt[d], n.expl[d])
    BY DEF Good, Node
  <2> QED BY <2>1 DEF Entry, EntrySound, Valid
<1>2. n1 = [n EXCEPT !.rt[d] = e]
  OBVIOUS
<1> HIDE DEF e
<1>3. Good(n1, {})
  <2> HIDE DEF n1
  <2> QED BY <1>1, <1>2, EntryGood
<1>4. \/ route_expire_timeout(n, d) = neighbor_link_break(n1, d)
      \/ route_expire_timeout(n, d) =
           precursor_list_destroy(rt_table_invalidate(n1, {d}), {d})
  BY DEF route_expire_timeout
<1> HIDE DEF n1
<1>5. Good(neighbor_link_break(n1, d), {})
  BY <1>3, LinkBreakGood
<1>6. Good(rt_table_invalidate(n1, {d}), {})
  BY <1>3, InvalidateGood
<1>7. Good(precursor_list_destroy(rt_table_invalidate(n1, {d}), {d}), {})
  BY <1>6, PrecursorDestroyGood
<1> QED BY <1>4, <1>5, <1>7

\* route_discovery_timeout keeps the node Good, also when it gives a repair up.
LEMMA DiscoveryTimeoutGood ==
  ASSUME NEW n, Good(n, {}), NEW d \in Addr
  PROVE  Good(route_discovery_timeout(n, d), {})
<1> DEFINE s   == n.seek[d]
           ttl == IF ~ExpandingRing THEN s.ttl
                  ELSE IF s.ttl < TTL_THRESHOLD THEN s.ttl + TTL_INCREMENT ELSE NET_DIAMETER
           nl  == n.nl \cup {nl_send_no_route_found_msg(d)}
           n1  == [n EXCEPT !.seek[d] = NoSeek, !.nl = nl]
           k   == KeepRoute(n, d)
           r   == rreq_send(k, d, s.dest_seqno, ttl)
           q   == [s EXCEPT !.ttl = ttl, !.rreq_cnt = s.rreq_cnt + 1]
<1>1. \/ route_discovery_timeout(n, d) =
           [r EXCEPT !.seek[d].ttl = ttl, !.seek[d].rreq_cnt = @ + 1]
      \/ n.rt[d].repair /\ route_discovery_timeout(n, d) = local_repair_timeout(n1, d)
      \/ route_discovery_timeout(n, d) = n1
  BY DEF route_discovery_timeout
<1>2. s \in Seek /\ NoSeek \in Seek
  BY U32Assumption DEF Good, Node, NoSeek, Seek, Seqno
<1>3. ttl \in Nat
  BY <1>2 DEF Seek, NET_DIAMETER, TTL_INCREMENT
<1>4. q \in Seek
  <2> DEFINE c == s.rreq_cnt + 1
  <2>1. c \in Nat
    BY <1>2 DEF Seek
  <2> HIDE DEF s, ttl, c
  <2>2. [s EXCEPT !.ttl = ttl, !.rreq_cnt = c] \in Seek
    BY <1>2, <1>3, <2>1 DEF Seek
  <2> QED BY <2>2 DEF c
<1>5. Good(k, {}) /\ k.seek = n.seek
  BY KeepRouteGood
<1>6. Good(r, {}) /\ r.seek = n.seek
  <2> HIDE DEF k, ttl, s
  <2> DEFINE z == s.dest_seqno
  <2>1. z \in Seqno
    BY <1>2 DEF Seek
  <2> HIDE DEF z
  <2>2. Good(rreq_send(k, d, z, ttl), {}) /\ rreq_send(k, d, z, ttl).seek = k.seek
    BY <1>3, <1>5, <2>1, RreqSendGood
  <2> QED BY <1>5, <2>2 DEF z
<1>7. [r EXCEPT !.seek[d].ttl = ttl, !.seek[d].rreq_cnt = @ + 1] = [r EXCEPT !.seek[d] = q]
  <2> HIDE DEF r, ttl
  <2>1. r \in Node
    BY <1>6 DEF Good
  <2> QED BY <1>2, <1>6, <2>1 DEF Node, Seek
<1> HIDE DEF r, q
<1>8. Good([r EXCEPT !.seek[d] = q], {})
  BY <1>4, <1>6, SeekGood
<1>9. Good(n1, {}) /\ n1.rt = n.rt
  <2> DEFINE z == [n EXCEPT !.seek[d] = NoSeek]
  <2>1. Good(z, {}) /\ z.rt = n.rt /\ z.expl = n.expl
    BY <1>2, SeekGood DEF Good, Node
  <2>2. nl \in SUBSET NlMsg
    BY NlType DEF Good, Node, nl_send_no_route_found_msg, NlMsg
  <2>3. n1 = [z EXCEPT !.nl = nl]
    OBVIOUS
  <2> HIDE DEF z, nl, n1
  <2> QED BY <2>1, <2>2, <2>3 DEF Good, Node
<1> HIDE DEF n1
<1>10. n.rt[d].repair => Good(local_repair_timeout(n1, d), {})
  <2>1. n.rt[d].repair => n1.rt[d].state = "INVALID"
    BY <1>9 DEF Good, EntrySound
  <2> QED BY <1>9, <2>1, RepairTimeoutGood
<1> QED BY <1>1, <1>7, <1>8, <1>9, <1>10

\* hello_timeout marks the entry and breaks the link in one step.
LEMMA HelloTimeoutGood ==
  ASSUME NEW n, Good(n, {}), NEW d \in Addr, n.rt[d].hello
  PROVE  Good(hello_timeout(n, d), {})
<1> DEFINE e  == n.rt[d]
           b  == e.repair \/ (LocalRepair /\ e.hopcnt <= MAX_REPAIR_TTL)
           g  == [e EXCEPT !.hello = FALSE, !.repair = b]
           h  == [e EXCEPT !.hello = FALSE]
           n1 == [n EXCEPT !.rt[d] = g]
           n2 == [n EXCEPT !.rt[d] = h]
<1>1. e \in Entry /\ EntrySound(d, e, n.expl[d]) /\ n \in Node
  BY DEF Good, Node
<1>2. b \in BOOLEAN
  BY <1>1, OptionAssumption DEF Entry
<1>3. hello_timeout(n, d) =
        IF e.state = "VALID" /\ ~e.unidir THEN neighbor_link_break(n1, d) ELSE n2
  BY <1>1 DEF hello_timeout, Node, Entry
<1>4. h \in Entry /\ EntrySound(d, h, n.expl[d])
  BY <1>1 DEF Entry, EntrySound
<1>5. Good(n2, {})
  <2> HIDE DEF h
  <2> QED BY <1>4, EntryGood
<1>6. CASE e.state = "VALID" /\ ~e.unidir
  <2>1. e.hopcnt = 1 /\ e.repair = FALSE
    BY <1>1, <1>6 DEF EntrySound, Entry
  <2> HIDE DEF b
  <2>2. g \in Entry /\ g.hopcnt = 1 /\ g.state = "VALID"
    BY <1>1, <1>2, <1>6, <2>1 DEF Entry
  <2>3. [g EXCEPT !.repair = FALSE] = h
    BY <1>1, <2>1 DEF Entry
  <2>4. RepairMarked(d, g, n.expl[d])
    BY <1>4, <2>2, <2>3 DEF RepairMarked
  <2> HIDE DEF g
  <2>5. Good(n1, {d}) /\ n1.rt[d] = g /\ n1.expl = n.expl
    BY <2>2, EntryGood
  <2> HIDE DEF n1
  <2>6. Marked(n1, {d}, {})
    BY <2>2, <2>4, <2>5 DEF Good, Marked, Valid
  <2>7. Good(neighbor_link_break(n1, d), {})
    BY <2>2, <2>5, <2>6, LinkBreakMarked
  <2> QED BY <1>3, <1>6, <2>7
<1>7. CASE ~(e.state = "VALID" /\ ~e.unidir)
  BY <1>3, <1>5, <1>7
<1> QED BY <1>6, <1>7

\* rrep_ack_timeout puts the neighbour on the blacklist.
LEMMA AckTimeoutGood ==
  ASSUME NEW n, Good(n, {}), NEW d \in Addr
  PROVE  Good(rrep_ack_timeout(n, d), {})
<1> DEFINE a == [n EXCEPT !.rt[d].ack = FALSE]
<1>1. Good(a, {})
  BY AckGood
<1>2. rrep_ack_timeout(n, d) = [a EXCEPT !.blacklist = @ \cup {d}]
  BY DEF rrep_ack_timeout, Good, Node
<1> HIDE DEF a
<1> QED BY <1>1, <1>2 DEF Good, Node

\* The timeouts of RREQ records and of the blacklist leave the table alone.
LEMMA ListTimeoutGood ==
  ASSUME NEW n, Good(n, {}), NEW x
  PROVE  Good(rreq_record_timeout(n, x), {}) /\ Good(rreq_blacklist_timeout(n, x), {})
BY DEF Good, Node, rreq_record_timeout, rreq_blacklist_timeout
====
