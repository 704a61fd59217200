----------------------------- MODULE AodvDaemon -----------------------------
(***************************************************************************)
(* One AODV daemon (main.c) in an open environment: the select loop runs   *)
(* one handler at a time, for an AODV message of any well-formed content   *)
(* from any other host, for a message of the kernel module, or for a timer *)
(* that has run out.  The daemon may also be killed and started again.     *)
(***************************************************************************)
EXTENDS AodvNode

CONSTANTS
  Self,       \* the address of this host
  InSeqnos,   \* sequence numbers in messages of other hosts
  InHops,     \* hop counts in messages of other hosts
  InIds,      \* rreq_ids in messages of other hosts
  InLives,    \* lifetimes in RREPs of other hosts and left of a route
  InRoutes,   \* pairs <<dest, orig>> that RREPs and RREQs are about
  InputBound  \* number of messages and restarts in a behaviour

ASSUME InAssumption ==
  /\ Self \in Addr
  /\ InSeqnos \subseteq Seqno
  /\ InHops \subseteq 0 .. (NET_DIAMETER - 1)
  /\ InIds \subseteq Seqno
  /\ InLives \subseteq Life
  /\ InRoutes \subseteq {p \in Addr \X Addr : p[1] # p[2]}
  /\ InputBound \in Nat

VARIABLES
  n,       \* the state of the node; n.out is what the last handler passed to sendto
  inputs   \* how many messages and restarts there were

vars == <<n, inputs>>

Peer == Addr \ {Self}

Input == inputs < InputBound /\ inputs' = inputs + 1

Timer == UNCHANGED inputs

Init == n = host_init(Self) /\ inputs = 0

(***************************************************************************)
(* AODV messages, from aodv_socket_read.  Other hosts run the same         *)
(* protocol: the originator of a RREQ sends it with hop count 0 and any    *)
(* other host with more, and its destination does not forward it; likewise *)
(* for a RREP.  No host reports itself unreachable.                        *)
(***************************************************************************)
receive(m, src, to, ttl, life) ==
  n' \in Returned(aodv_socket_package_process(Idle(n), m, src, to, ttl, life))

RecvRREQ(src) ==
  /\ Input
  /\ \E r \in InRoutes, h \in InHops, id \in InIds, ds \in InSeqnos, os \in InSeqnos,
        f \in {"none", "D", "G"}, ttl \in {1, 2}, life \in InLives :
       /\ (h = 0) <=> (src = r[2])
       /\ src # r[1]
       /\ receive([type |-> "RREQ", hopcnt |-> h, rreq_id |-> id, dest |-> r[1],
                   dest_seqno |-> ds, orig |-> r[2], orig_seqno |-> os,
                   d |-> f = "D", g |-> f = "G"], src, BCast, ttl, life)

RecvRREP(src) ==
  /\ Input
  /\ \E r \in InRoutes, h \in InHops, ds \in InSeqnos, life \in InLives, a \in BOOLEAN :
       /\ (h = 0) <=> (src = r[1])
       /\ src # r[2]
       /\ receive([type |-> "RREP", hopcnt |-> h, dest |-> r[1], dest_seqno |-> ds,
                   orig |-> r[2], lifetime |-> life, a |-> a], src, Self, MAXTTL, life)

RecvRERR(src) ==
  /\ Input
  /\ \E D \in SUBSET (Addr \ {src}) \ {{}}, s \in InSeqnos, nodelete \in BOOLEAN :
       receive([type |-> "RERR", n |-> nodelete, dests |-> D,
                seqno |-> [d \in Addr |-> IF d \in D THEN s ELSE 0]], src, BCast, 1, "POS")

RecvHELLO(src) ==
  /\ Input
  /\ \E s \in InSeqnos :
       receive([type |-> "RREP", hopcnt |-> 0, dest |-> src, dest_seqno |-> s,
                orig |-> src, lifetime |-> "POS", a |-> FALSE], src, BCast, 1, "POS")

RecvRREP_ACK(src) ==
  Input /\ receive([type |-> "RREP_ACK"], src, Self, MAXTTL, "POS")

(***************************************************************************)
(* Messages of the kernel module, from nl_kaodv_callback.                  *)
(***************************************************************************)
Handled(n1) == n' \in Returned(n1)

KernelRouteReq(d) == Input /\ Handled(rreq_route_discovery(Idle(n), d))

KernelRouteUpdate(s, d) ==
  Input /\ Handled(rt_table_update_route_timeouts(Idle(n), d, s))

KernelSendRERR(s, d) == Input /\ Handled(nl_send_rerr(Idle(n), s, d))

(***************************************************************************)
(* Timers, from timer_timeout.                                             *)
(***************************************************************************)
RtTimer(d) ==
  /\ Timer
  /\ Present(n, d) /\ n.rt[d].armed
  /\ Handled(CASE n.rt[d].handler = "expire" -> route_expire_timeout(Idle(n), d)
               [] n.rt[d].handler = "delete" -> route_delete_timeout(Idle(n), d)
               [] n.rt[d].handler = "repair" -> local_repair_timeout(Idle(n), d))

HelloTimer(d) == Timer /\ n.rt[d].hello /\ Handled(hello_timeout(Idle(n), d))

AckTimer(d) == Timer /\ n.rt[d].ack /\ Handled(rrep_ack_timeout(Idle(n), d))

SeekTimer(d) ==
  Timer /\ n.seek[d].rreq_cnt # 0 /\ Handled(route_discovery_timeout(Idle(n), d))

RecordTimer ==
  Timer /\ \E rec \in n.records : Handled(rreq_record_timeout(Idle(n), rec))

BlacklistTimer ==
  Timer /\ \E a \in n.blacklist : Handled(rreq_blacklist_timeout(Idle(n), a))

(***************************************************************************)
(* The daemon is killed and started again: its memory is lost, and the     *)
(* kernel module flushes its routes when the netlink socket is released    *)
(* (kaodv_netlink_event).                                                  *)
(***************************************************************************)
Restart == Input /\ n' = host_init(Self)

Next ==
  \/ \E p \in Peer : \/ RecvRREQ(p) \/ RecvRREP(p) \/ RecvRERR(p)
                     \/ RecvHELLO(p) \/ RecvRREP_ACK(p)
  \/ \E d \in Peer : \/ KernelRouteReq(d) \/ RtTimer(d) \/ HelloTimer(d)
                     \/ AckTimer(d) \/ SeekTimer(d)
  \/ \E s, d \in Addr : KernelRouteUpdate(s, d)
  \/ \E s \in Addr, d \in Peer : KernelSendRERR(s, d)
  \/ RecordTimer \/ BlacklistTimer
  \/ Restart

Spec == Init /\ [][Next]_vars

-----------------------------------------------------------------------------
(***************************************************************************)
(* Properties                                                              *)
(***************************************************************************)

\* Every field of this_host, of the tables and of the messages sent keeps its type.
TypeOK == n \in Node /\ inputs \in 0 .. InputBound

\* A next hop that the kernel module forwards through is the one of a VALID
\* route of the daemon: the messages of nl.c never leave a stale route behind.
KernelSound ==
  \A d \in Addr : n.expl[d] # NoAddr => Valid(n, d) /\ n.expl[d] = n.rt[d].next

\* The kernel module has every VALID route to a neighbour: after a neighbour was
\* seen as a farther host and as a neighbour again, ADDROUTE was sent for it.
NeighbourInKernel ==
  \A d \in Addr : Valid(n, d) /\ n.rt[d].hopcnt = 1 => n.expl[d] = d

\* rt_timer always has the handler that fits the state of its entry, and an
\* entry that is not VALID always has a timer that will remove it.
TimerFitsState ==
  \A d \in Addr :
    /\ Valid(n, d) => n.rt[d].handler = "expire"
    /\ n.rt[d].state = "INVALID" =>
         n.rt[d].armed /\ n.rt[d].handler = (IF n.rt[d].repair THEN "repair" ELSE "delete")

\* RT_REPAIR is only on INVALID entries, so that no ADDROUTE carries it and the
\* kernel never asks for a repair (KAODVM_REPAIR).
RepairNotValid == \A d \in Addr : n.rt[d].repair => n.rt[d].state = "INVALID"

\* hello_timer runs for VALID entries only; when it runs out, the link break
\* that hello_timeout asks for is not refused because of the hop count.
HelloBreaksLink ==
  \A d \in Addr : n.rt[d].hello =>
    Valid(n, d) /\ (n.rt[d].unidir \/ n.rt[d].hopcnt = 1)

\* rt_tbl.num_entries, which rt_table_check trusts, counts the entries.
EntriesCounted == n.num_entries = Cardinality({d \in Addr : Present(n, d)}) % U32

\* A host never keeps a route to itself, whatever RREQ, RREP or RERR about its
\* own address comes back to it.
NoSelfRoute == ~Present(n, Self) /\ n.expl[Self] = NoAddr

\* What rrep_send and rrep_process pass to the socket with TTL MAXTTL is the RREP
\* (aodv_rrep.c:91) or RREP_ack they built, not a message built over it.
ReplyIsSent ==
  \A s \in n.out : s.ttl = MAXTTL => s.msg.type \in {"RREP", "RREP_ACK"}

\* A precursor is never forgotten in silence.  Whatever handler runs, and whatever
\* links it breaks on the way, a precursor of a route that is VALID or under
\* repair stays recorded for it, or the handler passes a RERR about this route
\* to the socket, addressed to this precursor or to all.  The rate limiter may
\* refuse this RERR, and then nobody tells the precursor again.  Two handlers
\* of the code forget it without a RERR: route_expire_timeout of a route of
\* several hops, and rerr_process when it has no entry for the precursor.
PrecursorsTold ==
  [][~Restart => \A d \in Addr : \A p \in n.rt[d].prec : Awaits(n, d) =>
       \/ Awaits(n', d) /\ p \in n'.rt[d].prec
       \/ Warned(n'.out \cup n'.dropped, d, p)
       \/ RtTimer(d) /\ Valid(n, d) /\ n.rt[d].hopcnt # 1
       \/ ~Present(n', p) /\ \E x \in Peer : RecvRERR(x)]_vars

\* a is a later sequence number than b, in the circular order of u32_t
Newer(a, b) == (a - b) % U32 \in 1 .. (U32 \div 2 - 1)

\* What a VALID route is replaced by is never older news, whatever mix of RREQs,
\* RREPs and RERRs comes in and however often the numbers wrap: its sequence
\* number is newer, or the same with no more hops.  Only a HELLO of the
\* destination itself, a route whose number is 0 and one that is marked
\* unidirectional may go back, and two numbers that the code misjudges: it
\* compares s32_t values instead of the sign of their difference
\* (aodv_rreq.c:150), so of two that are half the range apart or more the
\* one that is positive wins, although it is the older one.
RouteImproves ==
  [][\A d \in Addr :
       LET e == n.rt[d]
           f == n'.rt[d]
       IN  e.state = "VALID" /\ f.state = "VALID" /\ e.seqno # 0 /\ ~e.unidir
             => \/ Newer(f.seqno, e.seqno)
                \/ f.seqno = e.seqno /\ f.hopcnt <= e.hopcnt
                \/ d \in Peer /\ RecvHELLO(d)
                \/ Signed(f.seqno) - Signed(e.seqno) >= U32 \div 2]_vars
=============================================================================
