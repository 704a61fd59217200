---------------------------- MODULE RoutingTable ----------------------------
(***************************************************************************)
(* The routing table of the AODV daemon (routing_table.c), the link-break  *)
(* procedure that walks it (aodv_neighbor.c), the send buffer they build   *)
(* route errors in (aodv_socket.c, aodv_rerr.c) and the kernel route cache *)
(* that follows the table through synchronous netlink calls (nl.c).        *)
(*                                                                         *)
(* The daemon is single threaded: a handler runs to completion.  So every  *)
(* C function is an operator from the state n of a node, before the call,  *)
(* to its state after it, and a handler is a composition of them, in the   *)
(* order of the calls.  A route is named by its destination: the table     *)
(* holds at most one entry for each.                                       *)
(*                                                                         *)
(* Time is abstracted: an armed timer may expire at any later step.  What  *)
(* is kept of a lifetime is its effect on timer_set_timeout.               *)
(***************************************************************************)
EXTENDS Integers, FiniteSets

CONSTANTS
  Addr,          \* IPv4 addresses of the nodes of the network
  NoAddr,        \* "no address": s_addr = 0
  BCast,         \* AODV_BROADCAST
  U32,           \* number of values of a u32_t, 2^32 in the program
  WaitOnReboot   \* the initial value of wait_on_reboot (main.c:28)

ASSUME AddrAssumption ==
  /\ NoAddr \notin Addr
  /\ BCast \notin Addr
  /\ NoAddr # BCast
  /\ IsFiniteSet(Addr)

ASSUME U32Assumption == U32 \in Nat /\ U32 >= 4 /\ U32 % 2 = 0

ASSUME WaitOnRebootAssumption == WaitOnReboot \in BOOLEAN

(***************************************************************************)
(* parameters.h and <netinet/ip.h>                                         *)
(***************************************************************************)
NET_DIAMETER   == 35
MAX_REPAIR_TTL == (3 * NET_DIAMETER) \div 10
MAXTTL         == 255

(***************************************************************************)
(* Sequence numbers are u32_t and are compared as s32_t.                   *)
(***************************************************************************)
Seqno == 0 .. (U32 - 1)

Signed(s) == IF s < U32 \div 2 THEN s ELSE s - U32

\* Slip: no wrap to 1 after 0xffffffff.
Slip_seqno_incr(s) == IF s = 0 THEN 0 ELSE s + 1

\* Slip: a number that is still 0 is incremented too.
Slip_seqno_incr_zero(s) == IF s = U32 - 1 THEN 1 ELSE s + 1

seqno_incr(s) == IF s = 0 THEN 0 ELSE IF s = U32 - 1 THEN 1 ELSE s + 1

(***************************************************************************)
(* A lifetime in milliseconds, as timer_set_timeout sees it.  One with its *)
(* top bit set is a long below zero on the 32-bit target.  It is "NEG"     *)
(* when the timer that it would shorten is due later than that, or was due *)
(* less long ago, and "LATE" when that timer is overdue by more.           *)
(***************************************************************************)
Life == {"POS", "ZERO", "NEG", "LATE"}

(***************************************************************************)
(* rt_table_t.  State "NONE" stands for a destination with no entry.  The  *)
(* handler is that of rt_timer and armed is its used flag; ahead says that *)
(* the timeout rt_timer was last set to, if any, compares as not before a  *)
(* new one: timeval_diff is a difference modulo 2^32 microseconds on the   *)
(* target, so this may come out either way for a timer that is not armed.  *)
(* ack and hello are the used flags of the two other timers; prec is the   *)
(* set of precursors, and nprecursor its cardinality.                      *)
(***************************************************************************)
Entry == [state   : {"NONE", "INVALID", "VALID"},
          next    : Addr \cup {NoAddr},
          hopcnt  : Nat,
          seqno   : Seqno,
          unidir  : BOOLEAN,
          repair  : BOOLEAN,
          handler : {"expire", "delete", "repair"},
          armed   : BOOLEAN,
          ahead   : BOOLEAN,
          ack     : BOOLEAN,
          hello   : BOOLEAN,
          prec    : SUBSET Addr]

NoEntry == [state |-> "NONE", next |-> NoAddr, hopcnt |-> 0, seqno |-> 0,
            unidir |-> FALSE, repair |-> FALSE, handler |-> "expire",
            armed |-> FALSE, ahead |-> FALSE, ack |-> FALSE, hello |-> FALSE,
            prec |-> {}]

(***************************************************************************)
(* seek_list_t: a route discovery in progress.  Its timer is armed as long *)
(* as the entry exists, and rreq_cnt is at least 1, so 0 means no entry.   *)
(***************************************************************************)
Seek == [dest_seqno : Seqno, ttl : Nat, rreq_cnt : Nat]

NoSeek == [dest_seqno |-> 0, ttl |-> 0, rreq_cnt |-> 0]

(***************************************************************************)
(* Messages.  src and ttl of the IP header are kept beside the message.    *)
(***************************************************************************)
RREQ == [type : {"RREQ"}, hopcnt : Nat, rreq_id : Seqno, dest : Addr,
         dest_seqno : Seqno, orig : Addr, orig_seqno : Seqno,
         d : BOOLEAN, g : BOOLEAN]

RREP == [type : {"RREP"}, hopcnt : Nat, dest : Addr, dest_seqno : Seqno,
         orig : Addr, lifetime : Life, a : BOOLEAN]

RERR == [type : {"RERR"}, n : BOOLEAN, dests : SUBSET Addr,
         seqno : [Addr -> Seqno]]

RREP_ack == [type : {"RREP_ACK"}]

NoMsg == [type |-> "NONE"]

Msg == RREQ \cup RREP \cup RERR \cup RREP_ack \cup {NoMsg}

Sent == [to : Addr \cup {BCast}, ttl : Int, msg : Msg]

(***************************************************************************)
(* nl.c: messages to the kernel.  Each route message goes to the kernel    *)
(* module and, with its metric, to the kernel's own routing table.         *)
(***************************************************************************)
NlMsg == [op : {"ADDROUTE", "DELROUTE", "NOROUTE"}, dest : Addr,
          hop : Addr \cup {NoAddr}, metric : Nat]

nl_send_add_route_msg(d, hop, metric) ==
  [op |-> "ADDROUTE", dest |-> d, hop |-> hop, metric |-> metric]

nl_send_del_route_msg(d, hop, metric) ==
  [op |-> "DELROUTE", dest |-> d, hop |-> hop, metric |-> metric]

nl_send_no_route_found_msg(d) ==
  [op |-> "NOROUTE", dest |-> d, hop |-> NoAddr, metric |-> 0]

(***************************************************************************)
(* The state of a node: this_host, rt_tbl, the seek list, rreq_records,    *)
(* rreq_blacklists, the kernel route cache (expl: destination to next hop, *)
(* NoAddr when it has no entry), the one send buffer, what the handler now *)
(* running has passed to the socket (out) and what of it the rate limiter  *)
(* has refused when the handler is done (dropped), and what it has passed  *)
(* to the kernel.  The messages to the kernel are a set: in every handler, *)
(* those about one destination are an ADDROUTE, if any, before the         *)
(* DELROUTEs (CacheSound of AodvHost).                                     *)
(***************************************************************************)
Node == [ip          : Addr,
         seqno       : Seqno,
         rreq_id     : Seqno,
         rt          : [Addr -> Entry],
         num_entries : Seqno,
         num_active  : Seqno,
         seek        : [Addr -> Seek],
         records     : SUBSET (Addr \X Seqno),
         blacklist   : SUBSET Addr,
         expl        : [Addr -> Addr \cup {NoAddr}],
         send_buf    : Msg,
         out         : SUBSET Sent,
         dropped     : SUBSET Sent,
         nl          : SUBSET NlMsg]

\* host_init, rt_table_init and the static initialisers of the lists
host_init(ip) ==
  [ip |-> ip, seqno |-> 0, rreq_id |-> 0,
   rt |-> [d \in Addr |-> NoEntry], num_entries |-> 0, num_active |-> 0,
   seek |-> [d \in Addr |-> NoSeek], records |-> {}, blacklist |-> {},
   expl |-> [d \in Addr |-> NoAddr], send_buf |-> NoMsg, out |-> {},
   dropped |-> {}, nl |-> {}]

(***************************************************************************)
(* What always holds of the entry e for d and of the next hop x that the   *)
(* kernel has for d.  It ties together the state of the entry, its timers, *)
(* its flags and the kernel, for one destination at a time.                *)
(***************************************************************************)
EntrySound(d, e, x) ==
  /\ x # NoAddr => e.state = "VALID" /\ x = e.next
  /\ e.state = "VALID" => e.handler = "expire"
  /\ e.state = "INVALID" =>
       e.armed /\ e.handler = (IF e.repair THEN "repair" ELSE "delete")
  /\ e.repair => e.state = "INVALID"
  /\ e.hello => e.state = "VALID" /\ (e.unidir \/ e.hopcnt = 1)
  /\ e.state # "NONE" => e.next \in Addr /\ e.hopcnt >= 1
  /\ e.state # "NONE" => (e.hopcnt = 1 <=> e.next = d)
  /\ e.state = "VALID" /\ e.hopcnt = 1 => x = d

NodeSound(n) == \A d \in Addr : EntrySound(d, n.rt[d], n.expl[d])

Present(n, d) == n.rt[d].state # "NONE"
Valid(n, d)   == n.rt[d].state = "VALID"

\* the precursors of the route to d still count on this host for it
Awaits(n, d) == Valid(n, d) \/ n.rt[d].repair

\* a RERR about the route to d is addressed to p or to all
Warned(out, d, p) ==
  \E s \in out : s.msg.type = "RERR" /\ d \in s.msg.dests /\ s.to \in {p, BCast}

-----------------------------------------------------------------------------
(***************************************************************************)
(* aodv_socket.c: what leaves is the send buffer, whatever was last built  *)
(* in it.  No handler learns what becomes of it (the function is void), so *)
(* the rate limiter acts on out when the handler is done: see ratelimit    *)
(* and Returned in AodvNode.  A failing sendto is a loss of the medium.    *)
(***************************************************************************)
aodv_socket_send(n, to, ttl) ==
  IF WaitOnReboot /\ n.send_buf.type = "RREP"
    THEN n
    ELSE [n EXCEPT !.out = @ \cup {[to |-> to, ttl |-> ttl, msg |-> n.send_buf]}]

-----------------------------------------------------------------------------
(***************************************************************************)
(* aodv_rerr.c: rerr_create and rerr_add_udest for the destinations in L,  *)
(* and the choice of the addressee: the one precursor if all the routes    *)
(* listed have it alone, all neighbours otherwise.                         *)
(***************************************************************************)
rerr_create(n, L, nodelete) ==
  [type |-> "RERR", n |-> nodelete, dests |-> L,
   seqno |-> [d \in Addr |-> IF d \in L THEN n.rt[d].seqno ELSE 0]]

\* Slip: unicast as soon as one of the routes has a single precursor.
Slip_rerr_dest(n, L) ==
  IF \E p \in Addr, d \in L : n.rt[d].prec = {p}
    THEN CHOOSE p \in Addr : \E d \in L : n.rt[d].prec = {p}
    ELSE BCast

rerr_dest(n, L) ==
  IF \E p \in Addr : \A d \in L : n.rt[d].prec = {p}
    THEN CHOOSE p \in Addr : \A d \in L : n.rt[d].prec = {p}
    ELSE BCast

-----------------------------------------------------------------------------
(***************************************************************************)
(* routing_table.c: precursors                                             *)
(***************************************************************************)
precursor_add(n, d, a) == [n EXCEPT !.rt[d].prec = @ \cup {a}]

precursor_list_destroy(n, D) ==
  [n EXCEPT !.rt = [d \in Addr |-> IF d \in D THEN [n.rt[d] EXCEPT !.prec = {}]
                                              ELSE n.rt[d]]]

(***************************************************************************)
(* routing_table.c: entries.  nl_send_add_route_msg and                    *)
(* nl_send_del_route_msg reach kaodv_netlink_receive_peer before they      *)
(* return, so the kernel cache changes in the same step.                   *)
(***************************************************************************)
rt_table_insert(n, d, next, hops, seqno, life) ==
  [n EXCEPT !.rt[d] = [NoEntry EXCEPT !.state = "VALID", !.next = next,
                                      !.hopcnt = hops, !.seqno = seqno,
                                      !.armed = (life = "POS")],
            !.num_entries = (@ + 1) % U32,
            !.num_active  = (@ + 1) % U32,
            !.expl[d] = next,
            !.nl = @ \cup {nl_send_add_route_msg(d, next, hops)},
            !.seek[d] = NoSeek]

\* rt_timer of a VALID entry is set again if its timeout compares as before the
\* new one; timer_set_timeout disarms it when the lifetime is below zero.
rt_table_update_timeout(e, life) ==
  IF e.state # "VALID" \/ life = "NEG" THEN e
  ELSE [e EXCEPT !.armed = (life # "LATE" /\ (@ \/ ~e.ahead))]

\* Slip: the hello timer is left running.
Slip_Invalidated_hello(e) ==
  [e EXCEPT !.state = "INVALID", !.seqno = seqno_incr(@), !.ack = FALSE, !.armed = TRUE,
            !.handler = IF e.repair THEN "repair" ELSE "delete"]

\* Slip: timer_set_timeout for the delete period is forgotten.
Slip_Invalidated_timer(e) ==
  [e EXCEPT !.state = "INVALID", !.seqno = seqno_incr(@),
            !.hello = FALSE, !.ack = FALSE, !.armed = FALSE,
            !.handler = IF e.repair THEN "repair" ELSE "delete"]

Invalidated(e) ==
  [e EXCEPT !.state = "INVALID", !.seqno = seqno_incr(@),
            !.hello = FALSE, !.ack = FALSE, !.armed = TRUE,
            !.handler = IF e.repair THEN "repair" ELSE "delete"]

\* Slip: no DELROUTE.
Slip_rt_table_invalidate(n, D) ==
  LET V == {d \in D : Valid(n, d)}
  IN  [n EXCEPT !.rt = [d \in Addr |-> IF d \in V THEN Invalidated(n.rt[d])
                                                  ELSE n.rt[d]],
                !.num_active = (@ - Cardinality(V)) % U32]

\* rt_table_invalidate for every destination in D; an INVALID entry is left
rt_table_invalidate(n, D) ==
  LET V == {d \in D : Valid(n, d)}
  IN  [n EXCEPT !.rt = [d \in Addr |-> IF d \in V THEN Invalidated(n.rt[d])
                                                  ELSE n.rt[d]],
                !.num_active = (@ - Cardinality(V)) % U32,
                !.expl = [d \in Addr |-> IF d \in V THEN NoAddr ELSE n.expl[d]],
                !.nl = @ \cup {nl_send_del_route_msg(d, n.rt[d].next, n.rt[d].hopcnt) : d \in V}]

\* Slip: num_entries is not decremented.
Slip_rt_table_delete(n, d) ==
  [n EXCEPT !.rt[d] = NoEntry,
            !.num_active  = IF Valid(n, d) THEN (@ - 1) % U32 ELSE @,
            !.expl[d] = IF Valid(n, d) THEN NoAddr ELSE @,
            !.nl = IF Valid(n, d)
                     THEN @ \cup {nl_send_del_route_msg(d, n.rt[d].next, n.rt[d].hopcnt)} ELSE @]

rt_table_delete(n, d) ==
  [n EXCEPT !.rt[d] = NoEntry,
            !.num_entries = (@ - 1) % U32,
            !.num_active  = IF Valid(n, d) THEN (@ - 1) % U32 ELSE @,
            !.expl[d] = IF Valid(n, d) THEN NoAddr ELSE @,
            !.nl = IF Valid(n, d)
                     THEN @ \cup {nl_send_del_route_msg(d, n.rt[d].next, n.rt[d].hopcnt)} ELSE @]

(***************************************************************************)
(* aodv_neighbor.c: the link to the neighbour d is down.  Its entry and    *)
(* those of the set U of routes through it become INVALID; R of them are   *)
(* kept for repair; the precursors of the others are told and forgotten.   *)
(***************************************************************************)
\* the precursors of the routes in lost are told, and forgotten
link_break_tell(n, lost) ==
  LET L  == {u \in lost : n.rt[u].prec # {}}
      n1 == precursor_list_destroy(n, lost)
  IN  IF L = {} THEN n1
      ELSE aodv_socket_send([n1 EXCEPT !.send_buf = rerr_create(n, L, FALSE)],
                            rerr_dest(n, L), 1)

\* the entry of d is INVALID already
link_break_through(n, d) ==
  LET keep == n.rt[d].repair
      U    == {u \in Addr \ {d} : Valid(n, u) /\ n.rt[u].next = d}
      R    == {u \in U : keep /\ n.rt[u].hopcnt <= MAX_REPAIR_TTL}
      n1   == [n EXCEPT !.rt = [u \in Addr |->
                                  IF u \in R THEN [n.rt[u] EXCEPT !.repair = TRUE]
                                             ELSE n.rt[u]]]
  IN  link_break_tell(rt_table_invalidate(n1, U),
                      (U \ R) \cup (IF keep THEN {} ELSE {d}))

neighbor_link_break(n, d) ==
  IF n.rt[d].hopcnt # 1 THEN n
  ELSE link_break_through(rt_table_invalidate(n, {d}), d)

(***************************************************************************)
(* rt_table_update, for an entry that exists and the state VALID.  The     *)
(* flags its callers pass are those of the entry.  First the kernel is     *)
(* told, then a neighbour that turns out to be farther away loses its      *)
(* link, then the entry changes.  Its timer is updated before its state    *)
(* is: an entry that was INVALID, or that the link break has just made so, *)
(* keeps its delete timer and changes only its handler.                    *)
(***************************************************************************)
\* Slip: no ADDROUTE when only the next hop changes.
Slip_update_kernel(n, d, next, hops) ==
  LET n1 == [n EXCEPT !.expl[d] = next,
                      !.nl = @ \cup {nl_send_add_route_msg(d, next, hops)}]
  IN  IF n.rt[d].state = "INVALID" THEN [n1 EXCEPT !.num_active = (@ + 1) % U32] ELSE n

update_kernel(n, d, next, hops) ==
  LET n1 == [n EXCEPT !.expl[d] = next,
                      !.nl = @ \cup {nl_send_add_route_msg(d, next, hops)}]
  IN  IF n.rt[d].state = "INVALID" THEN [n1 EXCEPT !.num_active = (@ + 1) % U32]
      ELSE IF n.rt[d].next # next THEN n1
      ELSE n

update_link(n, d, hops) ==
  IF hops > 1 /\ n.rt[d].hopcnt = 1
    THEN neighbor_link_break([n EXCEPT !.rt[d].hello = FALSE], d)
    ELSE n

\* Slip: the handler is left as it was.
Slip_update_entry_handler(e, old, next, hops, seqno, life) ==
  [rt_table_update_timeout(e, life)
     EXCEPT !.repair = (old.state # "INVALID" /\ old.repair), !.seqno = seqno,
            !.next = next, !.hopcnt = hops, !.state = "VALID"]

\* Slip: RT_REPAIR is not taken out of the flags.
Slip_update_entry_repair(e, old, next, hops, seqno, life) ==
  [rt_table_update_timeout(e, life)
     EXCEPT !.repair = old.repair, !.seqno = seqno,
            !.next = next, !.hopcnt = hops, !.handler = "expire", !.state = "VALID"]

\* e is the entry now, old what it was when rt_table_update was called
update_entry(e, old, next, hops, seqno, life) ==
  [rt_table_update_timeout(e, life)
     EXCEPT !.repair = (old.state # "INVALID" /\ old.repair), !.seqno = seqno,
            !.next = next, !.hopcnt = hops, !.handler = "expire", !.state = "VALID"]

rt_table_update(n, d, next, hops, seqno, life) ==
  LET n1 == update_link(update_kernel(n, d, next, hops), d, hops)
  IN  [n1 EXCEPT !.rt[d] = update_entry(n1.rt[d], n.rt[d], next, hops, seqno, life),
                 !.seek[d] = NoSeek]

\* rt_table_update_route_timeouts: traffic postpones the expiry of VALID routes
rt_table_update_route_timeouts(n, fwd, rev) ==
  LET Via(r)  == {u \in Addr : Valid(n, u) /\ u = n.rt[r].next /\ u # r /\ n.rt[r].hello}
      F == IF Valid(n, fwd)
             THEN Via(fwd) \cup
                  (IF n.rt[fwd].hopcnt # 1 \/ n.rt[fwd].hello THEN {fwd} ELSE {})
             ELSE {}
      R == IF Valid(n, rev) THEN {rev} \cup Via(rev) ELSE {}
  IN  [n EXCEPT !.rt = [d \in Addr |->
                          IF d \in F \cup R
                            THEN rt_table_update_timeout(n.rt[d], "POS")
                            ELSE n.rt[d]]]
=============================================================================
