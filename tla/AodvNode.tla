------------------------------ MODULE AodvNode ------------------------------
(***************************************************************************)
(* The handlers of the AODV daemon: AODV messages (aodv_rreq.c,            *)
(* aodv_rrep.c, aodv_rerr.c, aodv_hello.c), timers (aodv_timeout.c) and    *)
(* messages of the kernel module (nl.c).  Each is an operator from the     *)
(* state of the node before the handler to its state after it; modules     *)
(* that give a node an environment turn them into actions.                 *)
(***************************************************************************)
EXTENDS RoutingTable

CONSTANTS
  LocalRepair,    \* local_repair (main.c:32, 0 in the program)
  ExpandingRing,  \* expanding_ring_search (main.c:30, 1 in the program)
  RateLimit       \* ratelimit (main.c:29, 1 in the program)

ASSUME OptionAssumption == {LocalRepair, ExpandingRing, RateLimit} \subseteq BOOLEAN

\* parameters.h
TTL_START     == 2
TTL_INCREMENT == 2
TTL_THRESHOLD == 7
RREQ_RETRIES  == 2

\* A handler starts with a send buffer it will not read before it writes it.
Idle(n) == [n EXCEPT !.send_buf = NoMsg, !.out = {}, !.dropped = {}, !.nl = {}]

(***************************************************************************)
(* The handler that left n is done.  Of what it has passed to the socket   *)
(* the rate limiter refuses some of the RREQs and RERRs (which ones, the   *)
(* window of MainLoop decides), and by the next handler the timeouts of    *)
(* timers that are not armed compare in one way or the other.              *)
(***************************************************************************)
ratelimit(out) ==
  SUBSET {s \in out : RateLimit /\ s.msg.type \in {"RREQ", "RERR"}}

Untimed(n) == {d \in Addr : Valid(n, d) /\ ~n.rt[d].armed}

Return(n, D, K) ==
  [n EXCEPT !.send_buf = NoMsg, !.out = @ \ D, !.dropped = D,
            !.rt = [d \in Addr |-> [n.rt[d] EXCEPT !.ahead = d \in K]]]

Returned(n) ==
  {Return(n, D, K) : D \in ratelimit(n.out), K \in SUBSET Untimed(n)}

-----------------------------------------------------------------------------
(***************************************************************************)
(* Messages that a node creates, in its send buffer.                       *)
(***************************************************************************)
\* Slip: rreq_id does not wrap.
Slip_rreq_create(n, dest, dest_seqno) ==
  LET s == seqno_incr(n.seqno)
  IN  [n EXCEPT !.rreq_id = @ + 1, !.seqno = s,
                !.send_buf = [type |-> "RREQ", hopcnt |-> 0, rreq_id |-> n.rreq_id,
                              dest |-> dest, dest_seqno |-> dest_seqno,
                              orig |-> n.ip, orig_seqno |-> s,
                              d |-> FALSE, g |-> FALSE]]

rreq_create(n, dest, dest_seqno) ==
  LET s == seqno_incr(n.seqno)
  IN  [n EXCEPT !.rreq_id = (@ + 1) % U32, !.seqno = s,
                !.send_buf = [type |-> "RREQ", hopcnt |-> 0, rreq_id |-> n.rreq_id,
                              dest |-> dest, dest_seqno |-> dest_seqno,
                              orig |-> n.ip, orig_seqno |-> s,
                              d |-> FALSE, g |-> FALSE]]

rreq_send(n, dest, dest_seqno, ttl) ==
  aodv_socket_send(rreq_create(n, dest, dest_seqno), BCast, ttl)

rrep_create(n, hopcnt, dest, dest_seqno, orig, life) ==
  [n EXCEPT !.send_buf = [type |-> "RREP", hopcnt |-> hopcnt, dest |-> dest,
                          dest_seqno |-> dest_seqno, orig |-> orig,
                          lifetime |-> life, a |-> FALSE]]

(***************************************************************************)
(* A message is about a fresher route than e: the test of rreq_process and *)
(* rrep_process, in which equal numbers leave the choice to "better".      *)
(***************************************************************************)
\* Slip: the numbers are compared as u32_t.
Slip_Fresher(e, seqno, better) ==
  \/ e.seqno = 0
  \/ seqno > e.seqno
  \/ seqno = e.seqno /\ better

Fresher(e, seqno, better) ==
  \/ e.seqno = 0
  \/ Signed(seqno) > Signed(e.seqno)
  \/ seqno = e.seqno /\ better

\* rt_table_update_timeout of a route that a RREQ is sent for
KeepRoute(n, d) == [n EXCEPT !.rt[d] = rt_table_update_timeout(@, "POS")]

-----------------------------------------------------------------------------
(***************************************************************************)
(* aodv_neighbor.c: every AODV message shows that its sender is near.      *)
(***************************************************************************)
neighbor_add(n, src) ==
  IF ~Present(n, src) THEN rt_table_insert(n, src, src, 1, 0, "POS")
  ELSE IF n.rt[src].unidir THEN n
  ELSE rt_table_update(n, src, src, 1, n.rt[src].seqno, "POS")

(***************************************************************************)
(* aodv_rrep.c: rrep_send about f (a destination, or NoAddr for this host  *)
(* itself) along the route to r.  The message is in the send buffer, and   *)
(* the link break may build another one there before it leaves.            *)
(***************************************************************************)
rrep_request_ack(n, r) ==
  LET e == n.rt[r]
  IN  IF e.state = "VALID" /\ e.unidir /\ Valid(n, e.next) /\ ~n.rt[e.next].ack
        THEN [neighbor_link_break([n EXCEPT !.rt[e.next].unidir = TRUE,
                                            !.rt[e.next].hello = FALSE],
                                  e.next)
                EXCEPT !.rt[e.next].ack = TRUE]
        ELSE n

rrep_send(n, r, f) ==
  LET n1 == rrep_request_ack(n, r)
      n2 == aodv_socket_send(n1, n1.rt[r].next, MAXTTL)
  IN  IF f = NoAddr THEN n2
      ELSE precursor_add(precursor_add(n2, f, n2.rt[r].next), r, n2.rt[f].next)

\* Slip: the hop count is forwarded as it came.
Slip_rrep_forward_hops(n, m, r, f, ttl) ==
  LET x   == n.rt[r].next
      ask == Present(n, x) /\ ~n.rt[x].ack
      n1  == IF ask THEN [n EXCEPT !.rt[x].unidir = TRUE, !.rt[x].ack = TRUE] ELSE n
      n2  == aodv_socket_send([n1 EXCEPT !.send_buf = [m EXCEPT !.a = ask]], x, ttl)
  IN  KeepRoute(precursor_add(precursor_add(n2, f, x), r, n2.rt[f].next), r)

\* Slip: the RREP goes to the next hop of the route it is about.
Slip_rrep_forward_route(n, m, r, f, ttl) ==
  LET x   == n.rt[f].next
      ask == Present(n, x) /\ ~n.rt[x].ack
      n1  == IF ask THEN [n EXCEPT !.rt[x].unidir = TRUE, !.rt[x].ack = TRUE] ELSE n
      n2  == aodv_socket_send([n1 EXCEPT !.send_buf =
                                 [m EXCEPT !.a = ask, !.hopcnt = n1.rt[f].hopcnt]],
                              x, ttl)
  IN  KeepRoute(precursor_add(precursor_add(n2, f, x), r, n2.rt[f].next), r)

rrep_forward(n, m, r, f, ttl) ==
  LET x   == n.rt[r].next
      ask == Present(n, x) /\ ~n.rt[x].ack
      n1  == IF ask THEN [n EXCEPT !.rt[x].unidir = TRUE, !.rt[x].ack = TRUE] ELSE n
      n2  == aodv_socket_send([n1 EXCEPT !.send_buf =
                                 [m EXCEPT !.a = ask, !.hopcnt = n1.rt[f].hopcnt]],
                              x, ttl)
  IN  KeepRoute(precursor_add(precursor_add(n2, f, x), r, n2.rt[f].next), r)

(***************************************************************************)
(* aodv_rreq.c: rreq_process.  life is what is left of the route to dest   *)
(* when an intermediate node answers: the timer of a VALID route may be    *)
(* overdue, so it need not be positive.                                    *)
(***************************************************************************)
RREQ_reverse(n, m, src) ==
  LET e == n.rt[m.orig]
      h == m.hopcnt + 1
  IN  IF ~Present(n, m.orig)
        THEN rt_table_insert(n, m.orig, src, h, m.orig_seqno, "POS")
      ELSE IF Fresher(e, m.orig_seqno, e.state = "INVALID" \/ h < e.hopcnt)
        THEN rt_table_update(n, m.orig, src, h, m.orig_seqno, "POS")
      ELSE n

RREQ_answer(n, m) ==
  LET s == IF m.dest_seqno = 0 THEN n.seqno
           ELSE IF Signed(n.seqno) < Signed(m.dest_seqno) THEN m.dest_seqno
           ELSE IF n.seqno = m.dest_seqno THEN seqno_incr(n.seqno)
           ELSE n.seqno
  IN  rrep_send(rrep_create([n EXCEPT !.seqno = s], 0, n.ip, s, m.orig, "POS"),
                m.orig, NoAddr)

RREQ_answer_for(n, m, life) ==
  LET f  == n.rt[m.dest]
      n1 == rrep_send(rrep_create(n, f.hopcnt, m.dest, f.seqno, m.orig, life),
                      m.orig, m.dest)
      r  == n1.rt[m.orig]
  IN  IF ~m.g THEN n1
      ELSE rrep_send(rrep_create(n1, r.hopcnt, m.orig, r.seqno, m.dest, life),
                     m.dest, m.orig)

\* Slip: the hop is not counted.
Slip_rreq_forward(n, m, ttl) ==
  LET f == n.rt[m.dest].seqno
      s == IF Present(n, m.dest) /\ Signed(f) > Signed(m.dest_seqno)
             THEN f ELSE m.dest_seqno
  IN  aodv_socket_send([n EXCEPT !.send_buf = [m EXCEPT !.dest_seqno = s]], BCast, ttl)

rreq_forward(n, m, ttl) ==
  LET f == n.rt[m.dest].seqno
      s == IF Present(n, m.dest) /\ Signed(f) > Signed(m.dest_seqno)
             THEN f ELSE m.dest_seqno
  IN  aodv_socket_send([n EXCEPT !.send_buf = [m EXCEPT !.dest_seqno = s,
                                                        !.hopcnt = @ + 1]],
                       BCast, ttl)

\* Slip: an intermediate host answers although it knows no sequence number.
Slip_rreq_process_zero(n, m, src, ttl, life) ==
  LET n1 == RREQ_reverse([n EXCEPT !.records = @ \cup {<<m.orig, m.rreq_id>>}], m, src)
      f  == n1.rt[m.dest]
  IN  IF \/ m.orig = n.ip
         \/ src \in n.blacklist
         \/ <<m.orig, m.rreq_id>> \in n.records THEN n
      ELSE IF m.dest = n.ip THEN RREQ_answer(n1, m)
      ELSE IF /\ f.state = "VALID" /\ ~m.d
              /\ Signed(f.seqno) >= Signed(m.dest_seqno) THEN RREQ_answer_for(n1, m, life)
      ELSE IF ttl > 1 THEN rreq_forward(n1, m, ttl - 1)
      ELSE n1

\* Slip: our own RREQ is not recognised.
Slip_rreq_process(n, m, src, ttl, life) ==
  LET n1 == RREQ_reverse([n EXCEPT !.records = @ \cup {<<m.orig, m.rreq_id>>}], m, src)
      f  == n1.rt[m.dest]
  IN  IF \/ src \in n.blacklist
         \/ <<m.orig, m.rreq_id>> \in n.records THEN n
      ELSE IF m.dest = n.ip THEN RREQ_answer(n1, m)
      ELSE IF /\ f.state = "VALID" /\ ~m.d /\ f.seqno # 0
              /\ Signed(f.seqno) >= Signed(m.dest_seqno) THEN RREQ_answer_for(n1, m, life)
      ELSE IF ttl > 1 THEN rreq_forward(n1, m, ttl - 1)
      ELSE n1

rreq_process(n, m, src, ttl, life) ==
  LET n1 == RREQ_reverse([n EXCEPT !.records = @ \cup {<<m.orig, m.rreq_id>>}], m, src)
      f  == n1.rt[m.dest]
  IN  IF \/ m.orig = n.ip
         \/ src \in n.blacklist
         \/ <<m.orig, m.rreq_id>> \in n.records THEN n
      ELSE IF m.dest = n.ip THEN RREQ_answer(n1, m)
      ELSE IF /\ f.state = "VALID" /\ ~m.d /\ f.seqno # 0
              /\ Signed(f.seqno) >= Signed(m.dest_seqno) THEN RREQ_answer_for(n1, m, life)
      ELSE IF ttl > 1 THEN rreq_forward(n1, m, ttl - 1)
      ELSE n1

(***************************************************************************)
(* aodv_rrep.c: rrep_process                                               *)
(***************************************************************************)
RREP_ack_send(n, to) ==
  aodv_socket_send([n EXCEPT !.send_buf = [type |-> "RREP_ACK"]], to, MAXTTL)

\* the originator of a repair tells that the repaired route is longer
RREP_repaired(n, e, d) ==
  LET n1 == [n EXCEPT !.send_buf = rerr_create(n, {d}, TRUE)]
  IN  IF ~(e.repair /\ n.rt[d].hopcnt > e.hopcnt) THEN n
      ELSE IF n.rt[d].prec = {} THEN n1
      ELSE aodv_socket_send(n1, BCast, 1)

rrep_process(n, m, src, ttl) ==
  LET e   == n.rt[m.dest]
      h   == m.hopcnt + 1
      new == ~Present(n, m.dest)
      n1  == IF new THEN rt_table_insert(n, m.dest, src, h, m.dest_seqno, m.lifetime)
                    ELSE rt_table_update(n, m.dest, src, h, m.dest_seqno, m.lifetime)
      n2  == IF m.a THEN RREP_ack_send(n1, n1.rt[m.dest].next) ELSE n1
  IN  IF m.dest = n.ip THEN n
      ELSE IF ~new /\ ~Fresher(e, m.dest_seqno,
                               e.state = "INVALID" \/ e.unidir \/ h < e.hopcnt) THEN n
      ELSE IF m.orig = n.ip THEN RREP_repaired(n2, e, m.dest)
      ELSE IF Valid(n2, m.orig) THEN rrep_forward(n2, m, m.orig, m.dest, ttl - 1)
      ELSE n2

rrep_ack_process(n, src) ==
  IF Present(n, src) THEN [n EXCEPT !.rt[src].ack = FALSE] ELSE n

(***************************************************************************)
(* aodv_rerr.c: rerr_process.  S are the routes that the message breaks.   *)
(***************************************************************************)
rerr_process(n, m, src) ==
  LET S  == {d \in m.dests : /\ Valid(n, d) /\ n.rt[d].next = src
                             /\ ~(Signed(n.rt[d].seqno) > Signed(m.seqno[d]))}
      n1 == IF m.n THEN n ELSE rt_table_invalidate(n, S)
      n2 == [n1 EXCEPT !.rt = [d \in Addr |->
                                 IF d \in S THEN [n1.rt[d] EXCEPT !.seqno = m.seqno[d]]
                                            ELSE n1.rt[d]]]
      L  == {d \in S : n2.rt[d].prec # {} /\ ~n2.rt[d].repair}
      to == rerr_dest(n2, L)
      n3 == precursor_list_destroy(n2, {d \in S : n2.rt[d].state = "INVALID"})
      n4 == [n3 EXCEPT !.send_buf = rerr_create(n2, L, m.n)]
  IN  IF L = {} THEN n3
      ELSE IF to \in Addr /\ ~Present(n, to) THEN n4
      ELSE aodv_socket_send(n4, to, 1)

(***************************************************************************)
(* aodv_hello.c: hello_process, with receive_n_hellos = 0.  The entry for  *)
(* the sender exists: neighbor_add has run.                                *)
(***************************************************************************)
hello_process(n, m) ==
  LET e == n.rt[m.dest]
  IN  IF e.unidir /\ e.state = "VALID" /\ e.hopcnt > 1
        THEN [n EXCEPT !.rt[m.dest].hello = TRUE]
        ELSE [rt_table_update(n, m.dest, m.dest, 1, m.dest_seqno, "POS")
                EXCEPT !.rt[m.dest].hello = TRUE]

(***************************************************************************)
(* aodv_socket.c: dispatch of a message from src, another host.            *)
(***************************************************************************)
aodv_socket_package_process(n, m, src, to, ttl, life) ==
  LET n1 == neighbor_add(n, src)
  IN  CASE m.type = "RREP" /\ ttl = 1 /\ to = BCast -> hello_process(n1, m)
        [] m.type = "RREQ"                          -> rreq_process(n1, m, src, ttl, life)
        [] m.type = "RREP" /\ ~(ttl = 1 /\ to = BCast)
                                                    -> rrep_process(n1, m, src, ttl)
        [] m.type = "RERR"                          -> rerr_process(n1, m, src)
        [] m.type = "RREP_ACK"                      -> rrep_ack_process(n1, src)

-----------------------------------------------------------------------------
(***************************************************************************)
(* nl.c: messages of the kernel module.                                    *)
(***************************************************************************)
\* KAODVM_ROUTE_REQ
rreq_route_discovery(n, d) ==
  LET e   == n.rt[d]
      ttl == IF ~ExpandingRing THEN NET_DIAMETER
             ELSE IF Present(n, d) THEN e.hopcnt + TTL_INCREMENT ELSE TTL_START
      n1  == rreq_send(KeepRoute(n, d), d, e.seqno, ttl)
  IN  IF n.seek[d].rreq_cnt # 0 THEN n
      ELSE [n1 EXCEPT !.seek[d] = [dest_seqno |-> e.seqno, ttl |-> ttl, rreq_cnt |-> 1]]

\* KAODVM_SEND_RERR: a packet from s to d had no route here
nl_send_rerr(n, s, d) ==
  aodv_socket_send(KeepRoute([n EXCEPT !.send_buf = rerr_create(n, {d}, FALSE)], d),
                   IF Valid(n, s) THEN n.rt[s].next ELSE BCast, 1)

-----------------------------------------------------------------------------
(***************************************************************************)
(* aodv_timeout.c.  timer_timeout takes the timer from the queue and       *)
(* clears its used flag before it calls the handler.                       *)
(***************************************************************************)
local_repair_timeout(n, d) ==
  LET P  == n.rt[d].prec
      n1 == [n EXCEPT !.rt[d].repair = FALSE, !.expl[d] = NoAddr,
                      !.nl = @ \cup {nl_send_del_route_msg(d, n.rt[d].next, n.rt[d].hopcnt)}]
      n2 == IF P = {} THEN n1
            ELSE aodv_socket_send([n1 EXCEPT !.send_buf = rerr_create(n1, {d}, FALSE)],
                                  rerr_dest(n1, {d}), 1)
  IN  [n2 EXCEPT !.rt[d].prec = {}, !.rt[d].handler = "delete", !.rt[d].armed = TRUE]

route_expire_timeout(n, d) ==
  LET n1 == [n EXCEPT !.rt[d].armed = FALSE]
  IN  IF n.rt[d].hopcnt = 1 THEN neighbor_link_break(n1, d)
      ELSE precursor_list_destroy(rt_table_invalidate(n1, {d}), {d})

route_delete_timeout(n, d) == rt_table_delete(n, d)

\* Slip: a retry is not recorded in the discovery list.
Slip_route_discovery_timeout(n, d) ==
  LET s   == n.seek[d]
      ttl == IF ~ExpandingRing THEN s.ttl
             ELSE IF s.ttl < TTL_THRESHOLD THEN s.ttl + TTL_INCREMENT ELSE NET_DIAMETER
      n1  == [n EXCEPT !.seek[d] = NoSeek, !.nl = @ \cup {nl_send_no_route_found_msg(d)}]
  IN  IF s.rreq_cnt < RREQ_RETRIES THEN rreq_send(KeepRoute(n, d), d, s.dest_seqno, ttl)
      ELSE IF n.rt[d].repair THEN local_repair_timeout(n1, d)
      ELSE n1

route_discovery_timeout(n, d) ==
  LET s   == n.seek[d]
      ttl == IF ~ExpandingRing THEN s.ttl
             ELSE IF s.ttl < TTL_THRESHOLD THEN s.ttl + TTL_INCREMENT ELSE NET_DIAMETER
      n1  == [n EXCEPT !.seek[d] = NoSeek, !.nl = @ \cup {nl_send_no_route_found_msg(d)}]
  IN  IF s.rreq_cnt < RREQ_RETRIES
        THEN [rreq_send(KeepRoute(n, d), d, s.dest_seqno, ttl)
                EXCEPT !.seek[d].ttl = ttl, !.seek[d].rreq_cnt = @ + 1]
      ELSE IF n.rt[d].repair THEN local_repair_timeout(n1, d)
      ELSE n1

hello_timeout(n, d) ==
  LET e  == n.rt[d]
      n1 == [n EXCEPT !.rt[d].hello = FALSE,
                      !.rt[d].repair = @ \/ (LocalRepair /\ e.hopcnt <= MAX_REPAIR_TTL)]
  IN  IF e.state = "VALID" /\ ~e.unidir THEN neighbor_link_break(n1, d)
      ELSE [n EXCEPT !.rt[d].hello = FALSE]

rrep_ack_timeout(n, d) == [n EXCEPT !.rt[d].ack = FALSE, !.blacklist = @ \cup {d}]

rreq_record_timeout(n, rec) == [n EXCEPT !.records = @ \ {rec}]

rreq_blacklist_timeout(n, a) == [n EXCEPT !.blacklist = @ \ {a}]
=============================================================================
