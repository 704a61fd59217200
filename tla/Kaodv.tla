------------------------------- MODULE Kaodv --------------------------------
(***************************************************************************)
(* The kernel module: the route cache (kaodv_expl.c), the queue of packets *)
(* that wait for a route (kaodv_queue.c), the netfilter hook that every    *)
(* packet passes (kaodv_mod.c) and the handler of the daemon's netlink     *)
(* messages (kaodv_netlink.c).                                             *)
(*                                                                         *)
(* Packets and the daemon run concurrently here, so a step is what happens *)
(* under one lock: a hook that reads the cache, checks the queue, asks the *)
(* daemon and queues its packet takes four steps, and other packets and    *)
(* the daemon may come between them.                                       *)
(*                                                                         *)
(* The daemon is reduced to what AodvNode does to the kernel: it seeks a   *)
(* route when it is asked to, and adds, changes and deletes routes.  One   *)
(* route it keeps and yet deletes in the kernel: that of a neighbour which *)
(* turns out to be farther away (rt_table_update, then the link break).    *)
(* Its sendmsg returns when the handler is done, so it sends one message   *)
(* at a time.  RT_REPAIR and RT_INET_DEST never reach the kernel.          *)
(***************************************************************************)
EXTENDS Integers, Sequences, FiniteSets

CONSTANTS
  Addr,           \* addresses of other hosts
  NoAddr,         \* no address
  Packet,         \* packets; each passes the hooks once
  EXPL_MAX_LEN,   \* 1024 in the program
  QUEUE_QMAX,     \* KAODV_QUEUE_QMAX_DEFAULT, 1024 in the program
  Preempt,        \* whether the daemon runs while a hook is between two steps:
                  \* TRUE on several CPUs, FALSE on the one of the MT7620
  Crashes,        \* whether the daemon dies and is started again
  ChangeBound     \* number of route changes and crashes in a behaviour

ASSUME KaodvAssumption ==
  /\ Addr # {} /\ NoAddr \notin Addr
  /\ IsFiniteSet(Addr) /\ IsFiniteSet(Packet)
  /\ {EXPL_MAX_LEN, QUEUE_QMAX, ChangeBound} \subseteq Nat
  /\ {Preempt, Crashes} \subseteq BOOLEAN

VARIABLES
  expl,     \* the route cache: next hops, and expl_len
  queue,    \* the packets in queue_list; queue_total is their number
  pkt,      \* where each packet is
  nl,       \* the netlink message that is being handled
  rt,       \* the daemon's VALID routes: their next hops
  ghost,    \* the destinations of VALID routes that were deleted in the kernel
  seek,     \* the destinations the daemon is seeking
  inbox,    \* number of KAODVM_ROUTE_REQs for each destination, not yet received
  alive,    \* whether the daemon runs
  changes   \* how many route changes and crashes there were

vars == <<expl, queue, pkt, nl, rt, ghost, seek, inbox, alive, changes>>

\* Places of a packet.  Those in Hook are inside a hook; a packet that is "leaked"
\* is neither queued nor freed.
Hook  == {"check", "ask", "enqueue", "refresh", "write", "forward"}
Place == Hook \cup {"new", "queued", "out", "freed", "leaked"}

\* src is NoAddr for a packet of this host.  keys are the addresses whose entries
\* the hook has still to refresh, each with whether the entry of its next hop is
\* refreshed after it; e is the entry that was copied; then is what follows.
Key == [addr : Addr, via : BOOLEAN]

Pkt == [at : Place, dest : Addr, src : Addr \cup {NoAddr}, keys : Seq(Key),
        e : Addr \cup {NoAddr}, then : {"forward", "out"}]

Message == [op : {"NONE", "ADDROUTE", "DELROUTE", "NOROUTE", "RELEASE"},
            dest : Addr, hop : Addr, at : {"get", "put", "verdict"}, found : BOOLEAN,
            del : BOOLEAN]   \* whether a DELROUTE for dest follows

-----------------------------------------------------------------------------
(***************************************************************************)
(* kaodv_expl.c, each operator under expl_lock.  When the list is full, an *)
(* entry that was taken out to be sorted in again is not put back, and     *)
(* expl_len grows by an entry that was refused.                            *)
(***************************************************************************)
kaodv_expl_add(x, d, hop) ==
  IF x.hop[d] # NoAddr THEN x
  ELSE [hop |-> IF x.len > EXPL_MAX_LEN THEN x.hop ELSE [x.hop EXCEPT ![d] = hop],
        len |-> x.len + 1]

\* Slip: an entry that is gone is made again.
Slip_expl_update_add(x, d, hop) ==
  IF x.hop[d] = NoAddr THEN kaodv_expl_add(x, d, hop)
  ELSE [x EXCEPT !.hop[d] = IF x.len > EXPL_MAX_LEN THEN NoAddr ELSE hop]

\* Slip: the next hop is left as it is.
Slip_expl_update_hop(x, d, hop) ==
  IF x.hop[d] # NoAddr /\ x.len > EXPL_MAX_LEN THEN [x EXCEPT !.hop[d] = NoAddr] ELSE x

kaodv_expl_update(x, d, hop) ==
  IF x.hop[d] = NoAddr THEN x
  ELSE [x EXCEPT !.hop[d] = IF x.len > EXPL_MAX_LEN THEN NoAddr ELSE hop]

kaodv_expl_del(x, d) ==
  IF x.hop[d] = NoAddr THEN x
  ELSE [hop |-> [x.hop EXCEPT ![d] = NoAddr], len |-> x.len - 1]

kaodv_expl_flush(x) ==
  [hop |-> [d \in Addr |-> NoAddr],
   len |-> x.len - Cardinality({d \in Addr : x.hop[d] # NoAddr})]

(***************************************************************************)
(* kaodv_queue.c, each operator under queue_lock.                          *)
(***************************************************************************)
\* Slip: the queue takes one packet more.
Slip_queue_enqueue(q, p) == IF Cardinality(q) > QUEUE_QMAX THEN q ELSE q \cup {p}

queue_enqueue(q, p) == IF Cardinality(q) >= QUEUE_QMAX THEN q ELSE q \cup {p}

kaodv_queue_check(d) == \E p \in queue : pkt[p].dest = d

-----------------------------------------------------------------------------
Some == CHOOSE d \in Addr : TRUE

Init ==
  /\ expl = [hop |-> [d \in Addr |-> NoAddr], len |-> 0]
  /\ queue = {}
  /\ pkt = [p \in Packet |-> [at |-> "new", dest |-> Some, src |-> NoAddr,
                              keys |-> <<>>, e |-> NoAddr, then |-> "out"]]
  /\ nl = [op |-> "NONE", dest |-> Some, hop |-> Some, at |-> "get", found |-> FALSE,
           del |-> FALSE]
  /\ ghost = {}
  /\ rt = [d \in Addr |-> NoAddr]
  /\ seek = {}
  /\ inbox = [d \in Addr |-> 0]
  /\ alive = TRUE
  /\ changes = 0

-----------------------------------------------------------------------------
(***************************************************************************)
(* kaodv_hook.  A packet of this host enters LOCAL_OUT and, once it has a  *)
(* route, POST_ROUTING.  A packet of another host enters PRE_ROUTING and,  *)
(* if it is not for us and has a route, POST_ROUTING.                      *)
(***************************************************************************)
keysOf(d, s) == IF s = NoAddr THEN <<[addr |-> d, via |-> TRUE]>>
                ELSE <<[addr |-> d, via |-> TRUE], [addr |-> s, via |-> TRUE]>>

PostRouting(k) == [k EXCEPT !.at = "refresh", !.keys = keysOf(k.dest, k.src), !.then = "out"]

InHook(p, k) == pkt' = [pkt EXCEPT ![p] = k] /\ UNCHANGED <<nl, rt, ghost, seek, alive, changes>>

LocalOut(p, d) ==
  /\ pkt[p].at = "new"
  /\ LET k == [pkt[p] EXCEPT !.dest = d]
     IN  InHook(p, IF expl.hop[d] = NoAddr THEN [k EXCEPT !.at = "check"] ELSE PostRouting(k))
  /\ UNCHANGED <<expl, queue, inbox>>

QueueCheck(p) ==
  /\ pkt[p].at = "check"
  /\ InHook(p, [pkt[p] EXCEPT !.at = IF kaodv_queue_check(pkt[p].dest) THEN "enqueue" ELSE "ask"])
  /\ UNCHANGED <<expl, queue, inbox>>

\* KAODVM_ROUTE_REQ; nobody hears it while the daemon is down
RouteReq(p) ==
  /\ pkt[p].at = "ask"
  /\ InHook(p, [pkt[p] EXCEPT !.at = "enqueue"])
  /\ inbox' = IF alive THEN [inbox EXCEPT ![pkt[p].dest] = @ + 1] ELSE inbox
  /\ UNCHANGED <<expl, queue>>

\* the hook returns NF_STOLEN also when the queue is full
Enqueue(p) ==
  /\ pkt[p].at = "enqueue"
  /\ queue' = queue_enqueue(queue, p)
  /\ InHook(p, [pkt[p] EXCEPT !.at = IF p \in queue' THEN "queued" ELSE "leaked"])
  /\ UNCHANGED <<expl, inbox>>

\* a packet from s for d, which is NoAddr if it is for us
PreRouting(p, s, d) ==
  /\ pkt[p].at = "new" /\ s # d
  /\ LET k == [pkt[p] EXCEPT !.at = "refresh", !.src = s]
     IN  InHook(p, IF d = NoAddr THEN [k EXCEPT !.keys = keysOf(s, NoAddr)]
                   ELSE [k EXCEPT !.dest = d, !.keys = keysOf(d, s), !.then = "forward"])
  /\ UNCHANGED <<expl, queue, inbox>>

\* a packet without a route is dropped, and the daemon asked for a RERR
Forward(p) ==
  /\ pkt[p].at = "forward"
  /\ InHook(p, IF expl.hop[pkt[p].dest] = NoAddr THEN [pkt[p] EXCEPT !.at = "freed"]
                                                 ELSE PostRouting(pkt[p]))
  /\ UNCHANGED <<expl, queue, inbox>>

(***************************************************************************)
(* kaodv_update_route_timeouts.  An entry is copied under one lock and     *)
(* written back under another.                                             *)
(***************************************************************************)
RefreshGet(p) ==
  /\ pkt[p].at = "refresh"
  /\ LET k == pkt[p]
     IN  InHook(p, IF k.keys = <<>> THEN [k EXCEPT !.at = k.then]
                   ELSE IF expl.hop[k.keys[1].addr] = NoAddr
                     THEN [k EXCEPT !.keys = Tail(@)]
                   ELSE [k EXCEPT !.at = "write", !.e = expl.hop[k.keys[1].addr]])
  /\ UNCHANGED <<expl, queue, inbox>>

RefreshPut(p) ==
  /\ pkt[p].at = "write"
  /\ LET k == pkt[p]
         key == k.keys[1]
         next == IF key.via /\ k.e # key.addr THEN <<[addr |-> k.e, via |-> FALSE]>> ELSE <<>>
     IN  /\ expl' = kaodv_expl_update(expl, key.addr, k.e)
         /\ InHook(p, [k EXCEPT !.at = "refresh", !.keys = next \o Tail(@), !.e = NoAddr])
  /\ UNCHANGED <<queue, inbox>>

-----------------------------------------------------------------------------
(***************************************************************************)
(* The daemon.  It takes a step only between two of its messages, and, on  *)
(* one CPU, only when no hook is under way.                                *)
(***************************************************************************)
Scheduled == Preempt \/ \A p \in Packet : pkt[p].at \notin Hook

Ready == alive /\ nl.op = "NONE" /\ Scheduled

Change == changes < ChangeBound /\ changes' = changes + 1

Send(op, d, hop) ==
  nl' = [op |-> op, dest |-> d, hop |-> hop, at |-> "get", found |-> FALSE, del |-> FALSE]

\* rreq_route_discovery
DaemonRouteReq(d) ==
  /\ Ready /\ inbox[d] > 0
  /\ inbox' = [inbox EXCEPT ![d] = @ - 1]
  /\ seek' = seek \cup {d}
  /\ UNCHANGED <<expl, queue, pkt, nl, rt, ghost, alive, changes>>

\* rt_table_insert and rt_table_update: ADDROUTE for a new next hop
DaemonAddRoute(d, hop) ==
  /\ Ready /\ Change
  /\ rt[d] \notin {d, hop}
  /\ rt' = [rt EXCEPT ![d] = hop]
  /\ ghost' = ghost \ {d}
  /\ seek' = seek \ {d}
  /\ Send("ADDROUTE", d, hop)
  /\ UNCHANGED <<expl, queue, pkt, inbox, alive>>

\* rt_table_update with the next hop the route has: the discovery ends, and the
\* kernel hears nothing of it
DaemonSameRoute(d) ==
  /\ Ready /\ rt[d] # NoAddr /\ d \in seek
  /\ seek' = seek \ {d}
  /\ UNCHANGED <<expl, queue, pkt, nl, rt, ghost, inbox, alive, changes>>

\* rt_table_update of a neighbour that is farther away now: ADDROUTE for the new
\* next hop, and DELROUTE of the link break
DaemonDemote(d, hop) ==
  /\ Ready /\ Change
  /\ rt[d] = d /\ hop # d
  /\ rt' = [rt EXCEPT ![d] = hop]
  /\ ghost' = ghost \cup {d}
  /\ seek' = seek \ {d}
  /\ nl' = [op |-> "ADDROUTE", dest |-> d, hop |-> hop, at |-> "get", found |-> FALSE,
            del |-> TRUE]
  /\ UNCHANGED <<expl, queue, pkt, inbox, alive>>

DelRoute(d) ==
  /\ rt[d] # NoAddr
  /\ rt' = [rt EXCEPT ![d] = NoAddr]
  /\ ghost' = ghost \ {d}
  /\ Send("DELROUTE", d, Some)
  /\ UNCHANGED <<expl, queue, pkt, seek, inbox, alive>>

\* rt_table_invalidate
DaemonDelRoute(d) == Ready /\ Change /\ DelRoute(d)

\* route_expire_timeout of a route that the kernel does not have, once the packets
\* of other hosts no longer refresh it
DaemonExpire(d) == Ready /\ d \in ghost /\ DelRoute(d) /\ UNCHANGED changes

\* route_discovery_timeout, after the last retry
DaemonGiveUp(d) ==
  /\ Ready /\ d \in seek
  /\ seek' = seek \ {d}
  /\ Send("NOROUTE", d, Some)
  /\ UNCHANGED <<expl, queue, pkt, rt, ghost, inbox, alive, changes>>

\* the daemon dies, and its netlink socket is released
Crash ==
  /\ Crashes /\ Ready /\ Change
  /\ alive' = FALSE /\ seek' = {}
  /\ rt' = [d \in Addr |-> NoAddr] /\ ghost' = {}
  /\ inbox' = [d \in Addr |-> 0]
  /\ Send("RELEASE", Some, Some)
  /\ UNCHANGED <<expl, queue, pkt>>

\* nl_init and nl_send_conf_msg, which makes the daemon the peer whose release
\* the kernel module notices
Start ==
  /\ ~alive /\ nl.op = "NONE" /\ Scheduled
  /\ alive' = TRUE
  /\ UNCHANGED <<expl, queue, pkt, nl, rt, ghost, seek, inbox, changes>>

-----------------------------------------------------------------------------
(***************************************************************************)
(* kaodv_netlink_receive_peer, and for RELEASE kaodv_netlink_rcv_nl_event. *)
(***************************************************************************)
Handler(at) == nl.op # "NONE" /\ nl.at = at /\ Scheduled

NlGet ==
  /\ Handler("get")
  /\ nl' = [nl EXCEPT !.at = IF nl.op = "NOROUTE" THEN "verdict" ELSE "put",
                      !.found = expl.hop[nl.dest] # NoAddr]
  /\ UNCHANGED <<expl, queue, pkt, rt, ghost, seek, inbox, alive, changes>>

NlPut ==
  /\ Handler("put")
  /\ expl' = CASE nl.op = "ADDROUTE" /\ nl.found  -> kaodv_expl_update(expl, nl.dest, nl.hop)
               [] nl.op = "ADDROUTE" /\ ~nl.found -> kaodv_expl_add(expl, nl.dest, nl.hop)
               [] nl.op = "DELROUTE"              -> kaodv_expl_del(expl, nl.dest)
               [] nl.op = "RELEASE"               -> kaodv_expl_flush(expl)
  /\ nl' = [nl EXCEPT !.at = "verdict"]
  /\ UNCHANGED <<queue, pkt, rt, ghost, seek, inbox, alive, changes>>

\* one turn of the loop of kaodv_queue_set_verdict
NlVerdict(p) ==
  /\ Handler("verdict") /\ nl.op # "RELEASE"
  /\ p \in queue /\ pkt[p].dest = nl.dest
  /\ queue' = queue \ {p}
  /\ pkt' = [pkt EXCEPT ![p] = IF nl.op = "ADDROUTE" /\ expl.hop[@.dest] # NoAddr
                                 THEN PostRouting(@) ELSE [@ EXCEPT !.at = "freed"]]
  /\ UNCHANGED <<expl, nl, rt, ghost, seek, inbox, alive, changes>>

\* kaodv_queue_flush: the whole queue under one lock
NlFlush ==
  /\ Handler("verdict") /\ nl.op = "RELEASE"
  /\ queue' = {}
  /\ pkt' = [p \in Packet |-> IF p \in queue THEN [pkt[p] EXCEPT !.at = "freed"] ELSE pkt[p]]
  /\ nl' = [nl EXCEPT !.op = "NONE"]
  /\ UNCHANGED <<expl, rt, ghost, seek, inbox, alive, changes>>

\* Slip: the loop may stop while packets for the destination are left.
Slip_NlDone ==
  /\ Handler("verdict") /\ nl.op # "RELEASE"
  /\ IF nl.del THEN Send("DELROUTE", nl.dest, Some) ELSE nl' = [nl EXCEPT !.op = "NONE"]
  /\ UNCHANGED <<expl, queue, pkt, rt, ghost, seek, inbox, alive, changes>>

NlDone ==
  /\ Handler("verdict") /\ nl.op # "RELEASE"
  /\ ~kaodv_queue_check(nl.dest)
  /\ IF nl.del THEN Send("DELROUTE", nl.dest, Some) ELSE nl' = [nl EXCEPT !.op = "NONE"]
  /\ UNCHANGED <<expl, queue, pkt, rt, ghost, seek, inbox, alive, changes>>

HookStep(p) ==
  QueueCheck(p) \/ RouteReq(p) \/ Enqueue(p) \/ Forward(p) \/ RefreshGet(p) \/ RefreshPut(p)

Next ==
  \/ \E p \in Packet : HookStep(p) \/ NlVerdict(p)
  \/ \E p \in Packet, d \in Addr : LocalOut(p, d)
  \/ \E p \in Packet, s \in Addr, d \in Addr \cup {NoAddr} : PreRouting(p, s, d)
  \/ \E d \in Addr : \/ DaemonRouteReq(d) \/ DaemonGiveUp(d)
                     \/ DaemonDelRoute(d) \/ DaemonExpire(d) \/ DaemonSameRoute(d)
  \/ \E d, hop \in Addr : DaemonAddRoute(d, hop) \/ DaemonDemote(d, hop)
  \/ NlGet \/ NlPut \/ NlDone \/ NlFlush
  \/ Crash \/ Start

Spec == Init /\ [][Next]_vars

(***************************************************************************)
(* A hook and a netlink call run on; the daemon reads its socket, and a    *)
(* discovery that finds nothing ends and a route that is not used expires  *)
(* (TableDrains of AodvHost).                                              *)
(***************************************************************************)
Fairness ==
  /\ \A p \in Packet : WF_vars(HookStep(p))
  /\ WF_vars(NlGet \/ NlPut \/ NlDone \/ NlFlush \/ \E p \in Packet : NlVerdict(p))
  /\ \A d \in Addr : /\ SF_vars(DaemonRouteReq(d)) /\ SF_vars(DaemonGiveUp(d))
                     /\ SF_vars(DaemonExpire(d))

FairSpec == Spec /\ Fairness

-----------------------------------------------------------------------------
(***************************************************************************)
(* Properties                                                              *)
(***************************************************************************)
\* Every variable keeps its type, and neither the queue nor expl_len leaves its
\* range, whatever hooks and messages interleave.
TypeOK ==
  /\ expl \in [hop : [Addr -> Addr \cup {NoAddr}], len : Nat]
  /\ queue \subseteq Packet /\ Cardinality(queue) <= QUEUE_QMAX
  /\ pkt \in [Packet -> Pkt]
  /\ nl \in Message
  /\ rt \in [Addr -> Addr \cup {NoAddr}]
  /\ seek \subseteq Addr
  /\ ghost \subseteq {d \in Addr : rt[d] # NoAddr}
  /\ inbox \in [Addr -> 0 .. Cardinality(Packet)]
  /\ alive \in BOOLEAN
  /\ changes \in 0 .. ChangeBound

\* Between two messages of the daemon, the cache has the daemon's routes and their
\* next hops: the synchronous update that RoutingTable assumes, although packets
\* refresh entries in between.
ExplFollows ==
  nl.op = "NONE" => expl.hop = [d \in Addr |-> IF d \in ghost THEN NoAddr ELSE rt[d]]

\* Between two messages, the cache has an entry for exactly the daemon's routes: a
\* refresh that races with DELROUTE never brings a route back.  (On several CPUs it
\* may bring an old next hop back.)
ExplHasRoutes ==
  nl.op = "NONE" =>
    \A d \in Addr : expl.hop[d] # NoAddr <=> rt[d] # NoAddr /\ d \notin ghost

\* A packet that the hook has stolen is sent or freed in the end: whenever packets
\* are queued for a destination, a request or a discovery is under way for it.
Verdict ==
  \A p \in Packet : pkt[p].at \in {"check", "ask", "enqueue", "queued"}
                      ~> pkt[p].at \in {"out", "freed"}

\* A packet that the full queue refuses is freed ("dropping packets",
\* kaodv_queue.c:67), not forgotten.
Dropped == \A p \in Packet : pkt[p].at # "leaked"
=============================================================================
