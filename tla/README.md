# A TLA+ model of the AODV daemon and its kernel module

The repository is an implementation of the AODV routing protocol for OpenWrt
routers: a user-space daemon (`*.c` in the top directory) that keeps the routing
table and speaks the protocol over UDP, and a Linux kernel module (`kaodv/src`)
that sees every IP packet, holds packets that have no route yet and asks the
daemon for one. This directory models both, checks them with TLC and proves with
TLAPS the invariants of the daemon, the kernel module, their composition, the
network and the timer queue.

## 1. The system

### Components

| Component | State | Operations | Model |
|---|---|---|---|
| routing table (`routing_table.c`) | entries with next hop, hop count, sequence number, flags, three timers, precursors; `num_entries`, `num_active` | insert, update, refresh, invalidate, delete, precursors | `RoutingTable` |
| neighbours (`aodv_neighbor.c`) | none of its own | `neighbor_add` for every message received, `neighbor_link_break` | `RoutingTable`, `AodvNode` |
| RREQ, RREP, RERR, HELLO (`aodv_rreq.c`, `aodv_rrep.c`, `aodv_rerr.c`, `aodv_hello.c`) | `rreq_records`, `rreq_blacklists`, `this_host.seqno`, `this_host.rreq_id` | create, send, process, forward | `AodvNode` |
| discovery list (`seek_list.c`) | one entry per destination sought | insert, remove, check | in `RoutingTable`, `AodvNode` |
| timeout handlers (`aodv_timeout.c`) | none of their own | eight handlers | `AodvNode` |
| timer queue (`timer_queue.c`) | sorted list of timers with their times, private list of those that have run out | set, remove, age | `MainLoop`, `Timers` |
| socket (`aodv_socket.c`) | one send buffer, rate limits | send, receive, dispatch | `RoutingTable`, `AodvNode`; the limiter as a choice in `AodvNode`, its window in `MainLoop` |
| netlink, daemon side (`nl.c`) | sockets | ADDROUTE, DELROUTE, NOROUTE_FOUND out; ROUTE_REQ, ROUTE_UPDATE, SEND_RERR in; rtnetlink routes out | `RoutingTable`, `AodvNode`, `AodvHost`, `RtNetlink` |
| main loop (`main.c`) | options | `select`, one callback at a time | `MainLoop`; handlers as actions in `AodvDaemon`, `AodvHost`, `AodvNetwork` |
| kernel route cache (`kaodv_expl.c`) | `expl_head`, `expl_len` | add, update, del, get, flush | `Kaodv` |
| kernel packet queue (`kaodv_queue.c`) | `queue_list`, `queue_total` | enqueue, check, verdict, flush | `Kaodv` |
| netfilter hook (`kaodv_mod.c`) | none | one hook function for three hook points | `Kaodv`, `AodvHost` |
| netlink, kernel side (`kaodv_netlink.c`) | `peer_pid` | receive, broadcast, release | `Kaodv`, `AodvHost` |
| not modelled | | gateway encapsulation (`kaodv_ipenc.c`), logging (`debug.c`, `/proc`), `list.c`, interface set-up, the kernel's own FIB | section 8 |

### How they interact

A packet without a route is held by the hook, which broadcasts `ROUTE_REQ`; the
daemon floods a RREQ and waits in the discovery list. Every host that forwards
the RREQ learns a route back to its originator; the destination, or a host with a
fresh route, answers with a RREP along that way, and every host on it learns the
route. Each insert or change of a route sends ADDROUTE to the kernel, which
releases the packets that wait for it; each invalidation sends DELROUTE. When a
link breaks, the host invalidates the routes through it and sends RERRs to the
precursors.

### What is hard

* Handlers call each other in the middle of their work: `rt_table_update` may
  break the link of the very entry it updates, and `rrep_send` may do so after it
  has built its message in the only send buffer.
* Entry state, timer handler, armed flag, repair flag, `num_active` and the kernel
  cache are separate variables changed on different lines of a dozen paths.
* Messages are lost, overtake each other and come from hosts that have restarted.
* In the kernel, packets on several CPUs and the daemon's messages interleave
  between short critical sections; the daemon may die at any time.
* The kernel's requests wait in a socket while the daemon handles messages and
  timers, so the route that a request is about may have come, changed or gone
  by the time it is read.
* Timers that run out together are taken from the queue together, and their
  handlers remove and restart each other; all comparisons round to milliseconds.
* Numbers are compared as signed 32-bit integers and start at 0, which
  `seqno_incr` never leaves.
* A lifetime of 0, or one that has become negative, arms no timer or disarms the one
  there is; the rate limiter refuses messages whose senders do not learn of it.

`PROJECT.json` lists the hazards one by one, each at its line, with the
properties that watch it.

### What makes it correct

The kernel forwards only along routes that the daemon believes in; every entry
ends in a state from which a timer removes it; a route is not replaced by older
news; hop counts describe real paths; precursors hear of lost routes; a discovery
ends, and finds a reachable host when nothing is lost; a packet taken from its
sender is sent or freed; a timer that is set runs its handler once, when it is due.

## 2. Modules

| Module | Models |
|---|---|
| `RoutingTable` | types, the routing table, link breaks, the send buffer and the kernel cache as the daemon drives it |
| `AodvNode` (extends it) | every message, kernel and timeout handler of one node |
| `AodvDaemon` (extends that) | one daemon in an open environment: any well-formed message from any host |
| `AodvNetwork` (extends `AodvNode`) | several daemons and a medium that loses and reorders |
| `AodvHost` (extends `AodvDaemon`) | the composition of a host: the whole daemon above the kernel module, with packets, the packet queue and unread netlink messages |
| `Kaodv` | the kernel module at the granularity of its locks, with the daemon reduced to its netlink messages |
| `Timers` | abstract specification: one-shot timers that run out when due |
| `MainLoop` | the select loop, the timer queue and the rate limiter over explicit time; implements `Timers` |
| `RtNetlink` | the layout of the messages to the kernel's own routing table |
| `MCAodvDaemon`, `MCAodvNetwork`, `MCAodvHost`, `MCKaodv`, `MCMainLoop` | small instances for TLC (`RtNetlink` needs none) |
| `RoutingTable_proofs`, `AodvNode_proofs`, `AodvSteps_proofs` | lemmas about every operation and every handler of the daemon |
| `AodvDaemon_proofs`, `AodvHost_proofs`, `AodvNetwork_proofs`, `Kaodv_proofs`, `MainLoop_proofs` | the theorems about the specifications of these names |

**Handlers are functions.** The daemon has one thread and its handlers run to
completion, so a C function is an operator from the state of the node before the
call to the state after it, with the function's own name; a handler composes the
operators in the order of the calls, and only `AodvDaemon` and `AodvNetwork` turn
handlers into actions. So a whole handler, with every call it makes, is one step.
Where one C function is split into several operators (`update_kernel`,
`update_link`, `update_entry` of `rt_table_update`; `link_break_through`,
`link_break_tell` of `neighbor_link_break`; `RREQ_reverse`,
`RREQ_answer`, `RREQ_answer_for` of `rreq_process`) the map gives the lines.

**State.** `n` in `AodvDaemon` (and `node[i]` in `AodvNetwork`) is one record:
`rt` maps each destination to its entry (state `"NONE"` when there is none),
`seek` is the discovery list, `records` and `blacklist` the two lists of
`aodv_rreq.c`, `expl` what the kernel was last told, `send_buf` the one buffer,
`out` what the handler has passed to the socket, and `dropped` what of it the rate
limiter has refused; after the handler `out` is without it. `sendmsg` on the netlink
socket returns when the kernel's handler is done, so `expl` changes in the step
of the daemon; `ExplFollows` of `Kaodv` checks that this is what the kernel does.
`nl` is the set of netlink messages that the handler has sent.

**Lists become sets.** Precursors, records and the destinations of a RERR are
sets: no result depends on their order (the RERR is unicast exactly if all the
routes it lists have one and the same precursor, in whatever order they are met).

**The rate limiter** acts on every RREQ and RERR in `aodv_socket_send`
(`aodv_socket.c:151-201`). `aodv_socket_send` returns nothing, so no handler acts on what
became of its message, and the model decides about all of them when the handler is done:
`Returned(n)` is the set of states in which any part of the RREQs and RERRs in `out` was
refused. Which ones depends on the messages of the last second; that the window does this
as meant is `RateLimited` of `MainLoop`. `RateLimit` FALSE turns it off.

**Time** is abstracted in these modules: an armed timer may run out at any later
step. Of a lifetime only its effect on `timer_set_timeout` is kept. `"POS"` arms.
`"ZERO"` arms as well, but `rt_table_insert` does not set a timer with it. A lifetime with its
top bit set is a negative `long` on the 32-bit target, and makes `rt_table_update_timeout`
depend on the timer there is (`routing_table.c:222`): `"NEG"` is one that compares as
earlier than the timeout of the timer, which is then left alone, and `"LATE"` one for
which the timer is still longer overdue, which disarms it. For a timer that is not armed the
field `ahead` of the entry says how its old timeout compares with a new one: microseconds
are counted modulo 2^32, so after a while it may be either, and `Returned` chooses. The
flags are justified in two steps: `MainLoop`, with the queue and a clock, implements
`Timers`, and a flag that a step may clear at any time is a timer of `Timers` without
its time.

**Messages from other hosts** in `AodvDaemon` are any that hosts running this
protocol send: a RREQ has hop count 0 exactly when its sender is its originator,
and so on for the others (see the comment above `RecvRREQ`). Sequence numbers,
lifetimes, flags and the order are free.

**`AodvHost`.** `cache`, `queue` and `inbox` are the kernel's route cache, the
destinations that packets are queued for, and the messages that wait in the daemon's
netlink socket. A hook is one step (one CPU), and so is a handler of the daemon with
what the kernel module does to its messages (`KernelActs`): each ADDROUTE, DELROUTE
and NOROUTE_FOUND changes the cache and decides about the packets that wait, and a
packet that is released passes POST_ROUTING, which adds a ROUTE_UPDATE to the
socket. The kernel messages that `AodvDaemon` takes from its environment are here the
ones that packets cause, read in order by `nl_kaodv_callback`. Of the packets queued
for one destination only their presence is kept: a verdict is for all of them.

**`Kaodv`.** A step is what one thread does under one lock. A packet is at a place
of the hook (`"check"`, `"ask"`, `"enqueue"`, ...); `keys` is the list of cache
entries that `kaodv_update_route_timeouts` has still to refresh, each in two
steps, the copy and the write back. The handler of a netlink message takes three
steps or more: look up, change the cache, one verdict per packet. (The verdict loop
removes a packet and then looks the route up under another lock; these two are
one step, for only the handler itself and a full list remove entries.) The daemon
is reduced to what the kernel can see of it: it adds, replaces or deletes a route,
demotes a neighbour (ADDROUTE and DELROUTE in one handler, after which the route is in
`ghost`: the daemon has it and the kernel does not), or ends a discovery. That the
real handlers do nothing else is `KernelTold` of `AodvHost`.

**`MainLoop`.** `tq` and `exptq` are the queue and the private list of
`timer_timeout`, `timeout` and `used` the fields of the timers, `pc` the place in the
loop. What handlers do is left open: any of them sets or removes any timer, itself
included, and sends any limited message. A clock `now` counts units of which `MSEC`
make a millisecond, so that rounding in `timeval_diff` is visible. `aged` is the time
read at the start of `timer_age_queue`, from which the timeout of `select` is computed
although the handlers have taken time since. `Timers` keeps of all this the due time of
each timer that is set: `due[t]` is `timeout[t]` where `used[t]` is set.

**`RtNetlink`.** `nl_kernel_route` and `addattr` as arithmetic on a buffer of words;
words that the code does not write have any value the stack may have held.

## 3. Runs

| Run | Question | Distinct states |
|---|---|---|
| `daemon` | Do the table, timers, flags, counters and kernel routes of one daemon stay consistent, and is no precursor forgotten in silence, whatever three messages come from three hosts, lifetimes that disarm timers included, and whatever the rate limiter refuses? | 487 000 |
| `daemon_news` | Is a VALID route ever replaced by older news? Numbers 2, 4 and 7 of eight: 4 and 7 are negative as signed values, 4 is newer than 2, 7 newer than 4, and 2 newer than 7. | 327 000 |
| `host` | Is any packet forgotten in the kernel's queue, does the cache follow the routes, is the kernel told of every change, and does everything drain when messages stop? | 611 000 |
| `network` | In a line of three hosts with loss, rate limits, reordering, timeouts and restarts, do hop counts describe real walks, does every VALID route have a timer, and do sequence numbers leave 0? | 225 000 |
| `network_live` | Does a discovery over two hops succeed when nothing is lost? | 25 000 |
| `kaodv` | On several CPUs, with crashes of the daemon: does the cache have exactly the daemon's destinations, and is the queue within its limit? | 1 235 000 |
| `kaodv_live` | On one CPU: is the cache what the daemon last said, and is every packet that the hook takes sent or freed? | 167 000 |
| `loop` | Does every timer run out once and on time, whatever handlers do to the others, and is the rate limit kept? | 1 932 000 |

Four more runs show a disagreement between a comment or message of the code and
what the code does (section 6): `daemon_reply`, `network_reboot`, `kaodv_full`,
`rtnl_attrs`.

### Properties

`AodvDaemon`
* `KernelSound`: what the kernel forwards through is the next hop of a VALID route.
* `NeighbourInKernel`: the kernel has every VALID route to a neighbour. (It need not
  have every VALID route: when a neighbour is seen as a farther host,
  `rt_table_update` sends ADDROUTE and the link break it causes sends DELROUTE, so
  the route is VALID in the daemon and absent in the kernel until it changes again.)
* `TimerFitsState`: the handler of `rt_timer` fits the entry; INVALID entries have
  it armed.
* `RepairNotValid`: `RT_REPAIR` never reaches the kernel, so `KAODVM_REPAIR` and
  `rreq_local_repair` are dead code.
* `HelloBreaksLink`: the link break that `hello_timeout` asks for is not refused.
* `EntriesCounted`, `NoSelfRoute`.
* `PrecursorsTold`: no handler, whatever links it breaks on its way, forgets a
  precursor of a route that is VALID or under repair without passing a RERR about the
  route, to this precursor or to all, to the socket. A RERR that the limiter refuses
  counts (it is in `dropped`): its precursors are gone by then and nobody tells them
  later. Two exceptions are the code's own: `route_expire_timeout` of a route of several
  hops sends nothing, and `rerr_process` collects only precursors that have an entry
  in the table.
* `RouteImproves`: a VALID route is replaced by a newer number, or by the same with
  no more hops. Newer means less than half the range ahead in the circular order of `u32_t`,
  whatever the code compares. The exceptions are a HELLO of the destination, a route with
  number 0 or marked unidirectional, and two numbers that the code misjudges: it
  compares values as `s32_t` instead of the sign of their difference (`aodv_rreq.c:150`,
  `aodv_rrep.c:179`), so that of two whose signed values are half the range apart or more
  the older one wins. The property shows that this is all: between any other two numbers
  the order is right, across the wrap too.

`AodvHost`
* `CacheSound`: the kernel's cache, which only sees the messages, has VALID routes with
  their next hops, and is what `RoutingTable` says it is.
* `QueueAwaited`: while packets wait for a route, something is under way that will
  decide about them.
* `KernelTold`: the interface on which `Kaodv` rests: new, changed and lost routes are
  announced in the same handler, and a discovery ends with a route or a message to the
  kernel. That message is NOROUTE_FOUND, or it is what was told of a route that the
  same handler loses again: a RREQ of a host that is being sought gives a route to it,
  and the RREP that answers the RREQ breaks the link when the link is one-way.
  (An earlier form asked for NOROUTE_FOUND in every case without a route. The proof
  attempt met this one; TLC finds it when `<<Self, b>>` is added to `ToA` of
  `MCAodvHost`, which makes 1 041 000 states, too many for the temporal properties. So
  the run leaves this case to the theorem.)
* `PacketsDecided`: queued packets are sent or dropped in the end.
* `TableDrains`: when messages stop, discoveries end, routes expire and are deleted,
  and the kernel is left without routes and packets.

`AodvNetwork`
* `SeqnosZero`: no sequence number in the whole network is ever other than 0.
* `ValidHasTimer`: every VALID route has its `rt_timer` armed. A RREP with lifetime 0 or
  below would make one without (`routing_table.c:151`), and `aodv_rreq.c:183` computes such a
  lifetime from a timer that is overdue. It holds in a network of these daemons because an
  intermediate host answers only with a number other than 0, which by `SeqnosZero` no
  host has; `Receive` leaves the lifetime free. A daemon that hears a RREP of another
  implementation has no such protection (section 6).
* `HopsAreReal`: a hop count is the length of a walk of messages whose last link
  comes from the next hop.
* `NeighbourHop`: one hop exactly when the next hop is the destination.
* `DiscoverySucceeds`: a discovery finds the route.

`Kaodv`
* `ExplFollows`, `ExplHasRoutes`: the cache follows the daemon, with the next hops on
  one CPU, in its destinations on several.
* `Verdict`: a stolen packet gets a verdict.

`MainLoop`
* `NearlySorted`: the queue is sorted but for less than a millisecond, the most that
  rounding can cost, however often timers are set again.
* `Linked`: a timer is in one place of one list exactly while its `used` flag is set.
* `Punctual`: `select` never sleeps past a timer by a millisecond or more, but for the
  time that handlers have taken, and its timeout is never negative.
* `RateLimited`: no more than `RATELIMIT` messages of a kind in any second.
* `ImplementsTimers`: the loop implements `Timers`, fairness included: a handler runs
  once for a timer that is set, not before it is due, and it does run.

Each property of a passing run has a mutant: an operator `Slip_...`, beside the
definition it replaces, that changes it as a plausible bug would, and for which
TLC reports the property violated.

### Bounds

* `InputBound` (3; 4 in `host`) counts messages, packets (in `AodvDaemon`, the kernel's
  requests) and restarts; timers and the reading of the socket are free. Three inputs are enough for the compositions that matter:
  learn a route, use it so that a precursor is recorded, then change or break it.
  Every mutant and every violation needs at most three. `host` has a fourth, for a
  packet that comes while the request of an earlier one is unread and the route
  changes, and makes room for it with one sequence number and two (destination,
  origin) pairs in the messages of other hosts.
* Three peers in `daemon` (destination, next hop, precursor), two elsewhere. Peers
  are interchangeable, so `PeerSymmetry` is sound; no liveness run uses symmetry.
* `U32` = 4 keeps the shape of the number space: 0, the values that are positive
  and those that are negative as signed, and the wrap from the largest to 1. `daemon_news`
  has `U32` = 8, so that there are numbers on both sides of the signed boundary whose
  order the code gets right and others whose order it gets wrong.
* `InLives` is `{"POS", "LATE"}` in `daemon`: `"LATE"` is the one that disarms a timer or
  leaves one off. `"ZERO"` differs from it only in that it arms, and `"NEG"` in that it
  leaves an entry alone; the theorems are for all four.
* `HopBound` in `AodvNetwork`: a message is read before it has made `NET_DIAMETER` hops,
  so that the lifetime of a reverse route (`aodv_rreq.c:139`) is positive and `hopcnt`
  does not wrap. The lines of the runs are far shorter.
* `InHops` {0, 1}: a neighbour and a farther host. Hop counts above
  `NET_DIAMETER` - 1 are excluded by assumption: at 255 the `u8_t` would wrap.
* `EventBound` in `AodvNetwork` counts kernel requests, restarts and, unless
  `Patient`, timeouts; datagrams are unbounded. With 4 a route is requested,
  times out, is requested again, and a host restarts in between. A line of three
  hosts is the smallest network in which a host forwards.
* `QUEUE_QMAX` = 1 with two packets fills the queue; `EXPL_MAX_LEN` = 4 with two
  destinations leaves the cache room.
  `ChangeBound` counts route changes and crashes.
* `loop`: three timers, so that one handler meets a second timer in the private list
  and a third in the queue; two units to a millisecond, delays of -1 (refused), 0, 1
  and 2 ms; five callbacks and operations; a limit of 2 messages. From
  `TimeBound` on only `select` takes time, which keeps runs finite and lets every timer
  run out.
* Deadlock is not an error in these models: with the bounds used up and all timers
  run out, nothing is left to do.

`LocalRepair` is TRUE in `daemon`, although `main.c` sets
`local_repair` to 0, so that the repair paths are exercised; FALSE elsewhere.
`WaitOnReboot` is FALSE except in `network_reboot`: with the value that `main.c`
gives it no RREP leaves a host and there is little to check.

## 4. Fairness

* `AodvHost` (`LoopRuns`): weak fairness of the select loop as a whole: while a timer is
  armed or a kernel message is unread, the loop makes a step in the end. `select`
  returns for either. Nothing is assumed about which of them it handles, nor of
  messages, packets and restarts. The formula is `WF_hostVars(SelectLoop)` with
  its parts written out, for speed.
* `MainLoop`: weak fairness of the steps of the loop and of the clock: the loop blocks
  only in `select`, every handler returns, time passes. This is what justifies
  `LoopRuns`.
* `AodvNetwork` (`network_live`): weak fairness for the arrival of datagrams and for
  the discovery timer. `Lossy` is FALSE and `Patient` TRUE: timers run out only
  when nothing is on its way, the situation for which the constants of
  `parameters.h` (40 ms per hop) are chosen. Without it `DiscoverySucceeds` cannot
  hold, since two tries may both be lost.
* `Kaodv`: weak fairness for a hook that is under way and for the netlink handler:
  both are kernel code that runs on. Strong fairness for the daemon's reading of
  a request, for the end of a discovery and for the expiry of a route that the kernel
  does not have: all are disabled again and again, by
  every packet inside a hook and by every message of the daemon itself, but the
  scheduler and the select loop come back to them. That discoveries end and routes
  expire is `TableDrains` of `AodvHost`. `Preempt` is FALSE: the module is built for
  the MT7620 (`kaodv_expl.c:236` has its `HZ`), which has one core, and
  kernels for it are not preemptible, so a hook is not interrupted by the daemon.

## 5. Proofs

Every invariant and every action property of the passing runs is a theorem, for every
value of the constants that the named assumptions allow.

| Module | Theorem | States |
|---|---|---|
| `AodvDaemon_proofs` | `Invariance` | `Spec => []Inv` |
| | `TypeCorrect`, `KernelIsSound`, `NeighboursInKernel`, `TimersFit`, `RepairFits`, `HelloFits`, `EntriesAreCounted`, `NoRouteToSelf` | `Spec => []P` for `TypeOK`, `KernelSound`, `NeighbourInKernel`, `TimerFitsState`, `RepairNotValid`, `HelloBreaksLink`, `EntriesCounted`, `NoSelfRoute` |
| | `RoutesImprove`, `PrecursorsAreTold` | `Spec => RouteImproves`, `Spec => PrecursorsTold` |
| `AodvHost_proofs` | `HostInvariance`, `CacheIsSound`, `QueueIsAwaited` | `HostSpec => []P` for `HostInv`, `CacheSound`, `QueueAwaited` |
| | `KernelIsTold` | `HostSpec => KernelTold` |
| `AodvNetwork_proofs` | `Invariance`, `TypeCorrect`, `NumbersStayZero`, `RoutesAreTimed`, `HopsReal`, `NeighbourHops` | `Spec => []P` for `NetInv`, `TypeOK`, `SeqnosZero`, `ValidHasTimer`, `HopsAreReal`, `NeighbourHop` |
| `Kaodv_proofs` | `TypeCorrect` | `Spec => []TypeOK` |
| | `Invariance`, `EntriesFollowDaemon` | `Spec /\ []HasRoom => []P` for `KaodvInv`, `ExplHasRoutes` |
| | `NextHopsFollowDaemon` | `Spec /\ []HasRoom => []ExplFollows`, if `~Preempt` |
| | `RoomForAll` | `Spec => []HasRoom`, if `Cardinality(Addr) <= EXPL_MAX_LEN` |
| `MainLoop_proofs` | `Invariance`, `TypeCorrect`, `ListsAreLinked`, `QueueIsSorted`, `SelectIsPunctual`, `SendIsLimited` | `Spec => []P` for `LoopInv`, `TypeOK`, `Linked`, `NearlySorted`, `Punctual`, `RateLimited` |
| | `Refinement` | `Spec => Abstract!Spec`: the loop implements `Timers`, without its fairness |

### The daemon

The inductive invariant is `Inv == TypeOK /\ NodeSound(n) /\ n.ip = Self /\ Tidy(n)`.
`NodeSound` says `EntrySound` of every destination: `KernelSound`,
`NeighbourInKernel`, `TimerFitsState`, `RepairNotValid` and `HelloBreaksLink`
with what they need to be inductive, that an entry has at least one hop, and that
it has exactly one if and only if its next hop is its destination. The second is
the heart of it: `neighbor_link_break` recognises a neighbour by its hop count
and its routes by their next hop, and only when the two agree does it invalidate
what it should; and `KernelSound` needs `TimerFitsState` because
`route_delete_timeout` frees an entry without telling the kernel unless it is VALID.
`Tidy` is `EntriesCounted` and `NoSelfRoute`.

`EntrySound` is about one destination, and the operations change
entries one by one. `RoutingTable_proofs` shows first what each change of an
entry preserves, then lifts it to nodes: `Good(n, X)` says that a node has its
type and is sound but for the destinations in `X`. Three places need more. A link
break marks entries for repair *before* it invalidates them, so between the two
they are only `Marked`. `rt_table_update` tells the kernel first and changes the
entry last, so in between its destination is in `X`, and `LinkBreakKeeps` says
which fields of it the link break leaves alone. And handlers that run a link
break and go on using the entry need that it is still there (`Stays`).
`AodvNode_proofs` has one lemma per handler, `AodvDaemon_proofs` one per action.

What a handler does *between* its first and its last state is in `AodvSteps_proofs`:

* `Tame(n, m)`: an operation that only loses routes. It inserts nothing, ends no
  discovery, and whatever it tells the kernel is a DELROUTE that holds at its end.
* `Informs(n, m, X)`: a precursor that counts on a route stays recorded for it, or a RERR
  about the route is in `out` for it, but for the pairs in `X`. `Quiet` is both, with `X`
  empty, and so composes along the calls of a handler: what one call has told, no later one
  takes back. `PrecursorsAreTold` follows (`Spared` in `AodvDaemon_proofs`); `X` is not empty
  in the two handlers that the property names. The last step of every handler is
  `Returned`, which moves messages from `out` to `dropped`.
* `Progress(n, m, life, X)`: a handler that keeps `Tidy`, that keeps a timer on every
  VALID route if the lifetime `life` of its message is positive, and that replaces no VALID
  route outside `X` by news that the code takes for older. `X` is empty but for a HELLO.
  `RoutesImprove` follows with `SignedNewer`: a larger signed value is newer in the
  circular order unless it is larger by half the range or more.
* `Tells(k, m)`: the messages that a handler has sent since it started in `k` describe what
  became of each route and discovery (`Reported`), and a kernel that obeys them, an
  ADDROUTE before a DELROUTE, has the cache that the node believes in (`Obeyed`). It is
  shown along the calls of each handler, because the order matters: no handler sends an
  ADDROUTE after a DELROUTE for the same route.

### Daemon and kernel module

`HostInv` is `Inv` with the types of queue and socket, `CacheSound` and `QueueAwaited`.
`CacheSound` follows from `Obeyed`: the cache that the messages of a handler leave is the
one of the node, of which `KernelSound` is known. `QueueAwaited` needs both halves. A
discovery that waits for packets ends with a message to the kernel or with a route; a
route that is lost is told with DELROUTE, which drops its packets; and a route without a
message to the kernel is one that the daemon already had. `KernelIsTold` is `Reported`.

### The network

`NetInv` says that the tables are `Real` and that the messages are `Honest`, those in
the send buffers and those on their way. `Real`: the next hop of an entry is a host with
a link to here, to which there is a walk from the destination with one hop less.
`Honest`: the hop count of a message is the length of a walk from the host it describes
to its sender, and 0 exactly if the two are one, and the lifetime of a RREP is positive.
Neither is inductive alone: tables are
filled from messages, and an intermediate RREP is built from a table. In all of it
numbers are 0, and for that reason no RREP is built from what is left of a route: with
`Progress` every VALID route keeps a timer (`Timed`), whatever lifetime `Receive` offers. The theorems hold in every topology, one-way links included.

### The kernel module

`KaodvInv` says for each netlink message how far the cache is behind the daemon while the
handler is at work (`InStep`) and, on one CPU, that the copy a hook holds is what the cache
has (`Fresh`); with the types come the counts of packets and requests (`TypeInv`) and
that NOROUTE_FOUND changes no entry (`NoPut`).
Two hypotheses are needed, and both are about the code:

* `HasRoom`: in an over-full list a refresh removes an entry and the list refuses it when it
  is sorted in again (`kaodv_expl.c:97`), so the cache loses a route that the daemon has.
  `RoomForAll` shows that this cannot happen in a network of up to `EXPL_MAX_LEN` hosts.
* `~Preempt` for next hops: on several CPUs an ADDROUTE between the copy and the write back
  of a refresh is undone (`kaodv_mod.c:68`). The set of destinations is right even then.

### The loop

`LoopInv` has the two lists without repetitions and disjoint (`Lists`); the queue sorted up
to the resolution of `timeval_diff`; that every timer `timer_timeout` has taken out was due
when the pass began, and that none left in the queue or set since was (`Passes`), from which
`Punctual` follows; and that the limiter has the times of exactly the last messages
sent (`Limits`). Each step of the loop is then a step of `Timers` or a stutter: the call
of a handler is `Fire`, and what moves timers between the two lists changes no `due`.

### Assumptions

`AddrAssumption`, `U32Assumption`, `WaitOnRebootAssumption`, `OptionAssumption`,
`InAssumption`, `NetworkAssumption`, `KaodvAssumption` and `LoopAssumption`, all evaluated
by TLC in the runs of their modules. `InAssumption` has the only one that restricts other
hosts (hop counts below `NET_DIAMETER`); the guards of the receiving actions have the
rest (`HopBound` in `AodvNetwork`).
`InputBound`, `EventBound`, `ChangeBound`, `OpBound` and `TimeBound` are any natural
numbers, so the theorems hold for runs of every length.

### Only model-checked

* Liveness, which is out of reach of the prover: `PacketsDecided`, `TableDrains`,
  `DiscoverySucceeds`, `Verdict`, and the fairness part of `ImplementsTimers`.
* The properties of the runs that expect a violation: they do not hold.

## 6. Where the code and what it says disagree

1. `network_reboot`: `wait_on_reboot` is 1 (`main.c:28`), the comment in `main` says
   that there is no wait, and the timer that would clear it cannot be started. Every
   RREP is dropped; routes are found only between neighbours.
2. `daemon_reply`: the link break in `rrep_send` overwrites the RREP in the send
   buffer with a RERR (`aodv_rrep.c:83`).
3. `kaodv_full`: a packet refused by the full queue is leaked (`kaodv_queue.c:178`).
4. `rtnl_attrs`: `addattr` (`nl.c:367`) puts each attribute 16 bytes behind the end of the
   message and extends the message by the attribute alone. The kernel reads 16
   uninitialised bytes first, and never the last two attributes. With the attribute
   at `nlmsg_len` instead the invariant holds.

Other behaviour that the models have and that no run reports, most of it in the
hazards of `PROJECT.json` with a note: a RERR with an equal sequence number breaks
a route (`aodv_rerr.c:67`, where the comment asks for a larger one); in a RREP of
another implementation a lifetime of 0 or with its top bit set leaves a VALID route without a
timer (`routing_table.c:151`); of two numbers that are far apart the older one may win
(`aodv_rreq.c:150`); a RERR that the limiter refuses is never sent again, and its
precursors are forgotten (`aodv_socket.c:184`); a route of several hops that expires is not
reported to its precursors (`aodv_timeout.c`); a neighbour that turns out to be farther away is VALID in the daemon and absent in the
kernel, and packets for it wait until the route changes or expires, which other
traffic can postpone; `num_active` misses an entry that was
demoted from neighbour to farther host; on several CPUs a refresh can undo an
ADDROUTE, and a packet can be queued just after the verdict it waits for; a
refresh of an entry of an over-full cache loses it; a packet that is queued while
the daemon is down silences later requests.

## 7. Plan

Done, in this order: the routing table and the handlers; one daemon; its
inductive invariant and proofs; the network; the kernel module; the timer queue, the
select loop and the rate limiter with their abstract specification; the
composition of daemon and kernel module; the rtnetlink messages.

Then the proofs, component by component: the rest of the daemon's invariants and its
action properties, the network, the kernel module, the loop and its refinement, and
last the host, which rests on the daemon's.

Left: what a host promises its users as an abstract specification of `AodvHost` (packets
in, packets out or dropped), and topologies with a cycle, for routing loops.

## 8. Not modelled

Gateway encapsulation (no route has `RT_INET_DEST`); `rreq_local_repair` and
`KAODVM_REPAIR` (unreachable, see `RepairNotValid`); `KAODVM_TIMEOUT` and expiry in
the kernel (`EXPL_TIMER` is not defined); sending of HELLOs (`hello_start` is
commented out); logging, `/proc` output, interface and kernel set-up and the clean-up at
SIGINT; byte layout and lengths of AODV messages; failures of `malloc` (the daemon
exits); a clock that is set back; the kernel's FIB, to which `nl_kernel_route` sends the
routes: it is not part of the repository, and what it receives (`rtnl_attrs`) depends
on uninitialised bytes.

## 9. Running

    tlc -workers 2 -config MCAodvDaemon.cfg MCAodvDaemon
    tlc -workers 2 -config MCAodvHost.cfg MCAodvHost
    tlc -workers 2 -config RtNetlink.cfg RtNetlink
    tlapm RoutingTable_proofs.tla
    tlapm AodvNode_proofs.tla
    tlapm AodvSteps_proofs.tla
    tlapm AodvDaemon_proofs.tla
    tlapm AodvHost_proofs.tla
    tlapm AodvNetwork_proofs.tla
    tlapm Kaodv_proofs.tla
    tlapm MainLoop_proofs.tla

`PROJECT.json` has the list of runs, mutants, theorems and the map from
definitions to source lines.
