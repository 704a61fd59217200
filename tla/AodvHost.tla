------------------------------ MODULE AodvHost ------------------------------
(***************************************************************************)
(* A host: the daemon of AodvDaemon above the kernel module, with packets  *)
(* that pass the netfilter hooks.  The two talk over the AODV netlink      *)
(* socket.  The daemon's messages are handled before its sendmsg returns;  *)
(* those of the kernel module wait in the socket until the daemon reads    *)
(* them, and by then the route they are about may have changed.            *)
(*                                                                         *)
(* A hook runs to its end before the daemon goes on (one CPU): Kaodv       *)
(* splits hooks and netlink handlers into their critical sections, this    *)
(* module keeps the whole daemon.                                          *)
(***************************************************************************)
EXTENDS AodvDaemon, Sequences

Seqs == INSTANCE SequencesExt

VARIABLES
  cache,   \* the route cache of the kernel module: next hops
  queue,   \* the destinations that packets are queued for
  inbox    \* messages of the kernel module that the daemon has not read

hostVars == <<n, inputs, cache, queue, inbox>>

\* kaodv_rt_msg, as the kernel module sends it
KernelMsg == [type : {"ROUTE_REQ", "ROUTE_UPDATE", "SEND_RERR"},
              src : Addr \cup {NoAddr}, dest : Addr]

RouteReq(d)       == [type |-> "ROUTE_REQ", src |-> NoAddr, dest |-> d]
RouteUpdate(s, d) == [type |-> "ROUTE_UPDATE", src |-> s, dest |-> d]
SendRERR(s, d)    == [type |-> "SEND_RERR", src |-> s, dest |-> d]

HostInit ==
  /\ Init
  /\ cache = [d \in Addr |-> NoAddr]
  /\ queue = {}
  /\ inbox = <<>>

-----------------------------------------------------------------------------
(***************************************************************************)
(* kaodv_netlink_receive_peer for the messages in M, all of one handler.   *)
(* An ADDROUTE sends the packets that wait for the route, a DELROUTE or a  *)
(* NOROUTE_FOUND drops them.                                               *)
(***************************************************************************)
About(M, op) == {m.dest : m \in {m \in M : m.op = op}}

Cached(M) ==
  [d \in Addr |-> IF d \in About(M, "DELROUTE") THEN NoAddr
                  ELSE IF d \in About(M, "ADDROUTE")
                    THEN (CHOOSE m \in M : m.dest = d /\ m.op = "ADDROUTE").hop
                  ELSE cache[d]]

Waiting(M) == queue \ {m.dest : m \in M}

\* packets that are sent pass POST_ROUTING, which tells the daemon
Released(M) == Seqs!SetToSeq({RouteUpdate(Self, d) : d \in queue \cap About(M, "ADDROUTE")})

\* what the kernel module does while the handler of the daemon runs that has read
\* all of the inbox but rest
KernelActs(rest) ==
  /\ cache' = Cached(n'.nl)
  /\ queue' = Waiting(n'.nl)
  /\ inbox' = rest \o Released(n'.nl)

-----------------------------------------------------------------------------
(***************************************************************************)
(* kaodv_hook.  A packet of this host for d enters LOCAL_OUT: it passes on *)
(* to POST_ROUTING, or it is queued, and the first one queued for d makes  *)
(* the kernel module ask for a route.                                      *)
(***************************************************************************)
\* Slip: the kernel module asks only when no packet at all is queued.
Slip_LocalOut(d) ==
  /\ Input
  /\ IF cache[d] # NoAddr
       THEN inbox' = Append(inbox, RouteUpdate(Self, d)) /\ UNCHANGED queue
       ELSE /\ inbox' = IF queue # {} THEN inbox ELSE Append(inbox, RouteReq(d))
            /\ queue' = queue \cup {d}
  /\ UNCHANGED <<n, cache>>

LocalOut(d) ==
  /\ Input
  /\ IF cache[d] # NoAddr
       THEN inbox' = Append(inbox, RouteUpdate(Self, d)) /\ UNCHANGED queue
       ELSE /\ inbox' = IF d \in queue THEN inbox ELSE Append(inbox, RouteReq(d))
            /\ queue' = queue \cup {d}
  /\ UNCHANGED <<n, cache>>

\* A packet of the host s for d enters PRE_ROUTING.  One that is not for us passes
\* POST_ROUTING too, or is dropped when there is no route for it.
PreRouting(s, d) ==
  /\ Input /\ s # d
  /\ inbox' = Append(inbox, RouteUpdate(s, d)) \o
              (IF d = Self THEN <<>>
               ELSE IF cache[d] = NoAddr THEN <<SendRERR(s, d)>>
               ELSE <<RouteUpdate(s, d)>>)
  /\ UNCHANGED <<n, cache, queue>>

(***************************************************************************)
(* nl_kaodv_callback reads one message.                                    *)
(***************************************************************************)
nl_kaodv_callback ==
  /\ inbox # <<>>
  /\ LET m == Head(inbox)
     IN  Handled(CASE m.type = "ROUTE_REQ"    -> rreq_route_discovery(Idle(n), m.dest)
                   [] m.type = "ROUTE_UPDATE" ->
                        rt_table_update_route_timeouts(Idle(n), m.dest, m.src)
                   [] m.type = "SEND_RERR"    -> nl_send_rerr(Idle(n), m.src, m.dest))
  /\ UNCHANGED inputs
  /\ KernelActs(Tail(inbox))

(***************************************************************************)
(* The other handlers of the daemon.  An AODV message passes PRE_ROUTING   *)
(* before the daemon reads it; the daemon ignores ROUTE_UPDATEs about a    *)
(* broadcast, so only those for the messages to this host are kept.        *)
(***************************************************************************)
Broadcast(p) == (RecvRREQ(p) \/ RecvRERR(p) \/ RecvHELLO(p)) /\ KernelActs(inbox)

Unicast(p) ==
  (RecvRREP(p) \/ RecvRREP_ACK(p)) /\ KernelActs(Append(inbox, RouteUpdate(p, Self)))

Timeout(d) ==
  (RtTimer(d) \/ HelloTimer(d) \/ AckTimer(d) \/ SeekTimer(d)) /\ KernelActs(inbox)

ListTimeout == (RecordTimer \/ BlacklistTimer) /\ KernelActs(inbox)

\* The daemon is killed and started again: the kernel module flushes its cache
\* and its queue, and the messages in the socket are lost with it.
HostRestart ==
  /\ Restart
  /\ cache' = [d \in Addr |-> NoAddr]
  /\ queue' = {}
  /\ inbox' = <<>>

\* One turn of the select loop with no AODV message to read.
SelectLoop == (\E d \in Peer : Timeout(d)) \/ ListTimeout \/ nl_kaodv_callback

HostNext ==
  \/ \E d \in Peer : LocalOut(d) \/ Broadcast(d) \/ Unicast(d)
  \/ \E s \in Peer, d \in Addr : PreRouting(s, d)
  \/ SelectLoop
  \/ HostRestart

(***************************************************************************)
(* select returns when the first timer of the queue runs out (MainLoop) or *)
(* when the netlink socket has a message, so the loop runs on while there  *)
(* is either.  Nothing is assumed about which of them it handles.          *)
(* Packets, AODV messages and restarts are not fair.                       *)
(*                                                                         *)
(* This is WF_hostVars(SelectLoop) with ENABLED and the action written     *)
(* out, which TLC evaluates much faster: the loop has something to do when *)
(* LoopReady holds, and its steps are those that are no input.             *)
(***************************************************************************)
LoopReady ==
  \/ inbox # <<>>
  \/ \E d \in Peer : \/ Present(n, d) /\ n.rt[d].armed
                     \/ n.rt[d].hello \/ n.rt[d].ack \/ n.seek[d].rreq_cnt # 0
  \/ n.records # {} \/ n.blacklist # {}

LoopRuns == []<>~LoopReady \/ []<><<UNCHANGED inputs>>_hostVars

HostSpec == HostInit /\ [][HostNext]_hostVars /\ LoopRuns

-----------------------------------------------------------------------------
(***************************************************************************)
(* Properties                                                              *)
(***************************************************************************)

\* The kernel module forwards to d only through the next hop of a VALID route of
\* the daemon, although a handler may send it several messages about d and the
\* module only ever sees these messages.  It is the cache that RoutingTable updates
\* message by message, so the set of a handler's messages loses nothing.
CacheSound ==
  /\ cache = n.expl
  /\ \A d \in Addr : cache[d] # NoAddr => Valid(n, d) /\ cache[d] = n.rt[d].next

\* No packet is forgotten in the queue: while packets for d wait there is no route
\* to d in the cache, and something is under way that will decide about them: the
\* kernel's request is still unread, the daemon seeks d, or it has a route to d
\* that the kernel was told to delete (a neighbour that turned out to be farther
\* away) and that will change or expire.
QueueAwaited ==
  \A d \in queue :
    /\ cache[d] = NoAddr
    /\ \/ \E i \in DOMAIN inbox : inbox[i] = RouteReq(d)
       \/ n.seek[d] # NoSeek
       \/ Valid(n, d)

\* What Kaodv assumes of the daemon.  A route that is new, has a new next hop or is
\* lost is a route the kernel is told of in the same handler; a route that the
\* daemon keeps is deleted in the kernel only when its neighbour turns out to be
\* farther away; and a discovery ends with a route, or with a message to the kernel:
\* NOROUTE_FOUND, or, when the handler that found the route loses it again (the
\* RREP it sends breaks a one-way link), what it told of that route.
KernelTold ==
  [][n' # n /\ ~HostRestart => \A d \in Addr :
       LET told(op) == {m.hop : m \in {m \in n'.nl : m.op = op /\ m.dest = d}}
           old == IF Valid(n, d) THEN n.rt[d].next ELSE NoAddr
           new == IF Valid(n', d) THEN n'.rt[d].next ELSE NoAddr
       IN  /\ new \notin {old, NoAddr} => new \in told("ADDROUTE")
           /\ new # old /\ new = NoAddr => told("DELROUTE") # {}
           /\ new # NoAddr /\ told("DELROUTE") # {} => old = d /\ new # d
           /\ n.seek[d] # NoSeek /\ n'.seek[d] = NoSeek =>
                new # NoAddr \/ \E m \in n'.nl : m.dest = d]_hostVars

\* Packets that wait for a route are sent or dropped in the end, whatever happens
\* to the route, the discovery and the daemon meanwhile.
PacketsDecided == \A d \in Peer : d \in queue ~> d \notin queue

\* Once no message comes any more, every discovery ends, every route expires and
\* is deleted, and the kernel module is left without routes and without packets.
TableDrains ==
  <>[](/\ \A d \in Addr : ~Present(n, d) /\ n.seek[d] = NoSeek /\ cache[d] = NoAddr
       /\ queue = {} /\ inbox = <<>>)
=============================================================================
