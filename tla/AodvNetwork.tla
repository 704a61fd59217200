----------------------------- MODULE AodvNetwork ----------------------------
(***************************************************************************)
(* A network of hosts that all run the daemon as it is shipped: no host    *)
(* sends HELLOs (hello_start is commented out, main.c:405).  A datagram    *)
(* travels along a link of the fixed topology; datagrams overtake each     *)
(* other and are lost at any time.                                         *)
(***************************************************************************)
EXTENDS AodvNode

CONSTANTS
  Links,       \* pairs <<i, j>>: j hears what i sends
  Lossy,       \* whether datagrams are lost
  Patient,     \* whether timers run out only when no datagram is on its way
  Restarts,    \* whether daemons are restarted
  Flows,       \* pairs <<i, d>>: host i has packets for d
  EventBound   \* number of kernel messages and restarts in a behaviour, and of
               \* timeouts unless Patient

ASSUME NetworkAssumption ==
  /\ Links \subseteq {l \in Addr \X Addr : l[1] # l[2]}
  /\ {Lossy, Patient, Restarts} \subseteq BOOLEAN
  /\ Flows \subseteq {f \in Addr \X Addr : f[1] # f[2]}
  /\ EventBound \in Nat

VARIABLES
  node,     \* the state of each host
  medium,   \* the datagrams on their way, one for each receiver
  events    \* how many of these events there were

vars == <<node, medium, events>>

Datagram == [from : Addr, to : Addr, bcast : BOOLEAN, ttl : Int, msg : Msg]

Init ==
  /\ node = [i \in Addr |-> host_init(i)]
  /\ medium = {}
  /\ events = 0

\* the datagrams that the hosts in reach of i get of what i has sent
Deliver(i, out) ==
  UNION {{[from |-> i, to |-> j, bcast |-> s.to = BCast, ttl |-> s.ttl, msg |-> s.msg] :
            j \in {j \in Addr : <<i, j>> \in Links /\ s.to \in {j, BCast}}} : s \in out}

\* host i has run a handler that left it in state n
Ran(i, n, rest) ==
  \E m \in Returned(n) :
    /\ node' = [node EXCEPT ![i] = Idle(m)]
    /\ medium' = rest \cup Deliver(i, m.out)

Event == events < EventBound /\ events' = events + 1

Timer ==
  \/ Patient /\ medium = {} /\ UNCHANGED events
  \/ ~Patient /\ Event

\* Bound: a RREQ or RREP is read only before it has made NET_DIAMETER hops.  The
\* lifetime of a reverse route, PATH_DISCOVERY_TIME - 2 * hops * NODE_TRAVERSAL_TIME
\* (aodv_rreq.c:139), is then positive, and hopcnt, a u8_t, does not wrap.
HopBound(m) == m.type \in {"RREQ", "RREP"} => m.hopcnt < NET_DIAMETER

\* life is what is left of the route that a RREQ asks for, if this host has one
Receive(p) ==
  /\ UNCHANGED events
  /\ HopBound(p.msg)
  /\ \E life \in Life :
       Ran(p.to, aodv_socket_package_process(node[p.to], p.msg, p.from,
                   IF p.bcast THEN BCast ELSE p.to, p.ttl, life), medium \ {p})

Lose(p) == Lossy /\ medium' = medium \ {p} /\ UNCHANGED <<node, events>>

KernelRouteReq(i, d) == Event /\ Ran(i, rreq_route_discovery(node[i], d), medium)

KernelSendRERR(i, s, d) == Event /\ Ran(i, nl_send_rerr(node[i], s, d), medium)

RtTimer(i, d) ==
  /\ Timer
  /\ Present(node[i], d) /\ node[i].rt[d].armed
  /\ Ran(i, IF node[i].rt[d].handler = "expire" THEN route_expire_timeout(node[i], d)
            ELSE route_delete_timeout(node[i], d), medium)

AckTimer(i, d) ==
  Timer /\ node[i].rt[d].ack /\ Ran(i, rrep_ack_timeout(node[i], d), medium)

SeekTimer(i, d) ==
  Timer /\ node[i].seek[d].rreq_cnt # 0 /\ Ran(i, route_discovery_timeout(node[i], d), medium)

RecordTimer(i) ==
  Timer /\ \E rec \in node[i].records : Ran(i, rreq_record_timeout(node[i], rec), medium)

BlacklistTimer(i) ==
  Timer /\ \E a \in node[i].blacklist : Ran(i, rreq_blacklist_timeout(node[i], a), medium)

Restart(i) == Restarts /\ Event /\ Ran(i, host_init(i), medium)

Next ==
  \/ \E p \in medium : Receive(p) \/ Lose(p)
  \/ \E f \in Flows : \/ KernelRouteReq(f[1], f[2])
                      \/ \E i \in Addr \ {f[1], f[2]} : KernelSendRERR(i, f[1], f[2])
  \/ \E i, d \in Addr : RtTimer(i, d) \/ AckTimer(i, d) \/ SeekTimer(i, d)
  \/ \E i \in Addr : RecordTimer(i) \/ BlacklistTimer(i) \/ Restart(i)

Spec == Init /\ [][Next]_vars

(***************************************************************************)
(* A datagram that is not lost arrives, and timers run out.                *)
(***************************************************************************)
Fairness ==
  /\ WF_vars(\E p \in medium : Receive(p))
  /\ \A i, d \in Addr : WF_vars(SeekTimer(i, d))

FairSpec == Spec /\ Fairness

-----------------------------------------------------------------------------
(***************************************************************************)
(* Properties                                                              *)
(***************************************************************************)
\* Every host and every datagram keeps its type.
TypeOK ==
  /\ node \in [Addr -> Node]
  /\ medium \subseteq Datagram
  /\ events \in 0 .. EventBound

\* No sequence number ever leaves 0: hosts start with 0 (main.c:295), which
\* seqno_incr keeps (routing_table.h:19), and learn every other number from
\* each other.
SeqnosZero ==
  /\ \A i, d \in Addr : node[i].seqno = 0 /\ node[i].rt[d].seqno = 0
  /\ \A p \in medium : CASE p.msg.type = "RREQ" -> p.msg.dest_seqno = 0 /\ p.msg.orig_seqno = 0
                         [] p.msg.type = "RREP" -> p.msg.dest_seqno = 0
                         [] p.msg.type = "RERR" -> \A d \in Addr : p.msg.seqno[d] = 0
                         [] OTHER -> TRUE

\* A VALID route of a host always has its rt_timer armed, so that it expires.  A
\* RREP with a lifetime of 0 or less would make one without (rt_table_insert,
\* routing_table.c:151), and an intermediate host would send it when the timer
\* of its own route is due (aodv_rreq.c:183); but it answers only with a number
\* other than 0, and SeqnosZero means that it has none.
ValidHasTimer == \A i, d \in Addr : Valid(node[i], d) => node[i].rt[d].armed

\* a walk of k links leads from d to i
Walk(d, i, k) ==
  \E w \in [0 .. k -> Addr] :
    w[0] = d /\ w[k] = i /\ \A j \in 1 .. k : <<w[j - 1], w[j]>> \in Links

\* The hop count of a route is the length of a walk that a message has made, and
\* its last link comes from the next hop: rreq_forward, rrep_forward and the
\* updates of the table count every hop once.
HopsAreReal ==
  \A i, d \in Addr : LET e == node[i].rt[d] IN
    e.state # "NONE" =>
      /\ <<e.next, i>> \in Links
      /\ e.hopcnt >= 1
      /\ Walk(d, e.next, e.hopcnt - 1)

\* A route of one hop leads to the next hop itself, and no longer route does.
NeighbourHop ==
  \A i, d \in Addr : Present(node[i], d) =>
    (node[i].rt[d].hopcnt = 1 <=> node[i].rt[d].next = d)

\* A route discovery finds the route, when no datagram is lost and no timer runs
\* out early: the RREPs that rreq_process creates reach the originator.
DiscoverySucceeds ==
  \A f \in Flows : node[f[1]].seek[f[2]] # NoSeek ~> Valid(node[f[1]], f[2])
=============================================================================
