-------------------------- MODULE AodvDaemon_proofs -------------------------
(***************************************************************************)
(* The invariants of a daemon in an open environment, for any number of    *)
(* hosts, any width of the sequence numbers, any messages other hosts may  *)
(* send and any number of them.  Inv is inductive because every handler    *)
(* keeps a Good node Good (AodvNode_proofs) and makes Progress             *)
(* (AodvSteps_proofs).                                                     *)
(***************************************************************************)
EXTENDS AodvDaemon, AodvSteps_proofs

Inv == TypeOK /\ NodeSound(n) /\ n.ip = Self /\ Tidy(n)

\* The inductive invariant, in the terms of the lemmas about the handlers.
LEMMA InvIsGood ==
  Inv <=> Good(n, {}) /\ inputs \in 0 .. InputBound /\ n.ip = Self /\ Tidy(n)
BY DEF Inv, TypeOK, Good, NodeSound

\* The step makes Progress, but for the routes to hosts in X, and tells the kernel
\* what becomes of the routes.
Step(X) == (\E life : Progress(n, n', life, X)) /\ Tells(Idle(n), n')

\* The step forgets no precursor in silence, but for the pairs <<destination,
\* precursor>> in Y.
Spared(Y) ==
  \A u \in Addr : \A p \in n.rt[u].prec : Awaits(n, u) =>
    \/ <<u, p>> \in Y
    \/ Awaits(n', u) /\ p \in n'.rt[u].prec
    \/ Warned(n'.out \cup n'.dropped, u, p)

\* What a handler makes of the idle node, the step makes of the node.
LEMMA HandledStep ==
  ASSUME Inv, NEW k, Good(k, {}), NEW life, NEW X, Progress(Idle(n), k, life, X),
         Tells(Idle(n), k), NEW Y, Informs(Idle(n), k, Y), n' \in Returned(k)
  PROVE  Good(n', {}) /\ Step(X) /\ Spared(Y)
<1> DEFINE i == Idle(n)
<1>1. n \in Node /\ k \in Node
  BY DEF Inv, TypeOK, Good
<1>2. i.rt = n.rt /\ i.ip = n.ip /\ i.num_entries = n.num_entries
  BY <1>1 DEF Idle, Node
<1>3. Good(n', {}) /\ Tame(k, n')
  BY ReturnedTame
<1> HIDE DEF i
<1>4. Progress(n, k, life, X)
  BY <1>2 DEF Progress, Tidy, Counted, Entries, Timed, Present, Valid, i
<1>5. Progress(n, n', life, X)
  BY <1>1, <1>3, <1>4, ProgressTame DEF Good
<1>6. Tells(Idle(n), n')
  BY <1>3, TameTells
<1>7. Spared(Y)
  <2>1. \A u \in Addr : Awaits(n, u) => Awaits(i, u)
    BY <1>2 DEF Awaits, Valid
  <2> QED BY <1>2, <2>1, ReturnedInforms DEF Spared, i
<1> QED BY <1>3, <1>5, <1>6, <1>7 DEF Step

\* An idle node has told the kernel nothing.
LEMMA IdleSilent == ASSUME Inv PROVE Idle(n).nl = {} /\ Tells(Idle(n), Idle(n))
<1>1. Idle(n).nl = {}
  BY DEF Inv, TypeOK, Idle, Node
<1> QED BY <1>1, IdleTells

\* The same for a handler that is Tame and Informs, such as a Quiet one.
LEMMA TameStep ==
  ASSUME Inv, NEW k, Good(k, {}), Tame(Idle(n), k), NEW Y, Informs(Idle(n), k, Y),
         n' \in Returned(k)
  PROVE  Good(n', {}) /\ Step({}) /\ Spared(Y)
<1>1. Idle(n) \in Node /\ k \in Node
  BY IdleGood, InvIsGood DEF Good
<1>2. Progress(Idle(n), k, "POS", {})
  BY <1>1, TameProgress
<1>3. Tells(Idle(n), k)
  BY IdleSilent, TameTells
<1> QED BY <1>2, <1>3, HandledStep

LEMMA QuietStep ==
  ASSUME Inv, NEW k, Good(k, {}), Quiet(Idle(n), k), n' \in Returned(k)
  PROVE  Good(n', {}) /\ Step({}) /\ Spared({})
BY TameStep DEF Quiet

\* Informs is about the entries and about what is sent.
LEMMA SameInforms ==
  ASSUME NEW i, NEW k, NEW m, NEW Y, Informs(i, k, Y), m.rt = k.rt, m.out = k.out
  PROVE  Informs(i, m, Y)
BY DEF Informs, Informed, Awaits, Valid

\* Any message that may be received keeps the node Good and makes Progress.
LEMMA ReceiveGood ==
  ASSUME Inv, NEW m, NEW src \in Peer, NEW to, NEW ttl \in Int, NEW life \in Life,
         WellFormed(m, src, to, ttl), receive(m, src, to, ttl, life)
  PROVE  /\ Good(n', {})
         /\ Step(IF m.type = "RREP" /\ ttl = 1 /\ to = BCast THEN {src} ELSE {})
         /\ Spared(IF m.type = "RERR" THEN Strangers(n') ELSE {})
<1> DEFINE i == Idle(n)
           p == aodv_socket_package_process(i, m, src, to, ttl, life)
           l == IF m.type = "RREP" THEN m.lifetime ELSE "POS"
           X == IF m.type = "RREP" /\ ttl = 1 /\ to = BCast THEN {src} ELSE {}
           Y == IF m.type = "RERR" THEN Strangers(p) ELSE {}
<1>1. n' \in Returned(p)
  BY DEF receive
<1>2. Good(i, {}) /\ i.ip = Self /\ i.nl = {}
  BY InvIsGood, IdleGood, IdleSilent DEF Idle, Good, Node
<1>3. src \in Addr /\ src # i.ip
  BY <1>2 DEF Peer
<1> HIDE DEF i
<1>4. Good(p, {}) /\ Progress(i, p, l, X) /\ Tells(i, p) /\ Informs(i, p, Y)
  BY <1>2, <1>3, PackageGood, PackageProgress, PackageTells
<1> HIDE DEF p, l, X, Y
<1>5. Good(n', {}) /\ Step(X) /\ Spared(Y)
  BY <1>1, <1>4, HandledStep DEF i
<1>6. \A a \in Addr : Present(n', a) <=> Present(p, a)
  <2>1. Tame(p, n')
    BY <1>1, <1>4, ReturnedTame
  <2> QED BY <2>1 DEF Tame, Mild, Present
<1>7. Strangers(n') = Strangers(p)
  BY <1>6 DEF Strangers
<1> QED BY <1>5, <1>7 DEF X, Y

\* The count of inputs stays within its bound.
LEMMA NextInputs == ASSUME inputs \in 0 .. InputBound, Input \/ Timer
                    PROVE  inputs' \in 0 .. InputBound
BY InAssumption DEF Input, Timer

\* A host starts with no entry.
LEMMA HostInitTidy ==
  LET h == host_init(Self) IN Tidy(h) /\ h.ip = Self /\ \A d \in Addr : h.rt[d].state = "NONE"
<1> DEFINE h == host_init(Self)
<1>1. h.ip = Self /\ h.num_entries = 0 /\ \A d \in Addr : h.rt[d].state = "NONE"
  BY DEF host_init, NoEntry
<1> HIDE DEF h
<1>2. Entries(h) = {} /\ ~Present(h, Self)
  BY <1>1, InAssumption DEF Entries, Present
<1>3. Cardinality({}) = 0 /\ 0 % U32 = 0
  BY FS_EmptySet, U32Assumption
<1> QED BY <1>1, <1>2, <1>3 DEF Tidy, Counted, h

\* The daemon starts within the invariant.
LEMMA InitInv == Init => Inv
<1>1. Init => Good(n, {}) /\ inputs \in 0 .. InputBound
  BY HostInitGood, InAssumption DEF Init
<1>2. Init => n.ip = Self /\ Tidy(n)
  BY HostInitTidy DEF Init
<1> QED BY <1>1, <1>2, InvIsGood

-----------------------------------------------------------------------------
\* A received RREQ keeps the invariant.
LEMMA RecvRREQInv == ASSUME Inv, NEW src \in Peer, RecvRREQ(src)
            PROVE  Good(n', {}) /\ Step({}) /\ Spared({})
<1>1. PICK r \in InRoutes, h \in InHops, id \in InIds, ds \in InSeqnos, os \in InSeqnos,
           f \in {"none", "D", "G"},
           ttl \in {1, 2}, life \in InLives :
             /\ (h = 0) <=> (src = r[2])
             /\ src # r[1]
             /\ receive([type |-> "RREQ", hopcnt |-> h, rreq_id |-> id, dest |-> r[1],
                         dest_seqno |-> ds, orig |-> r[2], orig_seqno |-> os,
                         d |-> f = "D", g |-> f = "G"], src, BCast, ttl, life)
  BY DEF RecvRREQ
<1> DEFINE m == [type |-> "RREQ", hopcnt |-> h, rreq_id |-> id, dest |-> r[1],
                 dest_seqno |-> ds, orig |-> r[2], orig_seqno |-> os,
                 d |-> f = "D", g |-> f = "G"]
<1>2. /\ src \in Addr /\ r[1] \in Addr /\ r[2] \in Addr /\ h \in Nat /\ id \in Seqno
      /\ ds \in Seqno /\ os \in Seqno /\ ttl \in Int /\ life \in Life
  BY InAssumption DEF Peer
<1>3. m \in RREQ
  BY <1>2 DEF RREQ
<1>4. WellFormed(m, src, BCast, ttl)
  BY <1>1, <1>3 DEF WellFormed
<1>5. receive(m, src, BCast, ttl, life) /\ m.type = "RREQ"
  BY <1>1
<1> HIDE DEF m
<1> QED BY <1>2, <1>4, <1>5, ReceiveGood

\* A received RREP keeps the invariant.
LEMMA RecvRREPInv == ASSUME Inv, NEW src \in Peer, RecvRREP(src)
            PROVE  Good(n', {}) /\ Step({}) /\ Spared({})
<1>1. PICK r \in InRoutes, h \in InHops, ds \in InSeqnos, life \in InLives, a \in BOOLEAN :
             /\ (h = 0) <=> (src = r[1])
             /\ receive([type |-> "RREP", hopcnt |-> h, dest |-> r[1], dest_seqno |-> ds,
                         orig |-> r[2], lifetime |-> life, a |-> a], src, Self, MAXTTL, life)
  BY DEF RecvRREP
<1> DEFINE m == [type |-> "RREP", hopcnt |-> h, dest |-> r[1], dest_seqno |-> ds,
                 orig |-> r[2], lifetime |-> life, a |-> a]
<1>2. /\ src \in Addr /\ r[1] \in Addr /\ r[2] \in Addr /\ h \in Nat
      /\ ds \in Seqno /\ MAXTTL \in Int /\ life \in Life
  BY InAssumption DEF Peer, MAXTTL
<1>3. m \in RREP
  BY <1>2 DEF RREP
<1>4. WellFormed(m, src, Self, MAXTTL)
  BY <1>1, <1>3 DEF WellFormed, MAXTTL
<1>5. receive(m, src, Self, MAXTTL, life) /\ m.type = "RREP"
  BY <1>1
<1>6. MAXTTL # 1
  BY DEF MAXTTL
<1> HIDE DEF m
<1> QED BY <1>2, <1>4, <1>5, <1>6, ReceiveGood

\* A received RERR keeps the invariant.
LEMMA RecvRERRInv == ASSUME Inv, NEW src \in Peer, RecvRERR(src)
            PROVE  Good(n', {}) /\ Step({}) /\ Spared(Strangers(n'))
<1>1. PICK D \in SUBSET (Addr \ {src}), s \in InSeqnos, nodelete \in BOOLEAN :
         receive([type |-> "RERR", n |-> nodelete, dests |-> D,
                  seqno |-> [d \in Addr |-> IF d \in D THEN s ELSE 0]], src, BCast, 1, "POS")
  BY DEF RecvRERR
<1> DEFINE m == [type |-> "RERR", n |-> nodelete, dests |-> D,
                 seqno |-> [d \in Addr |-> IF d \in D THEN s ELSE 0]]
<1>2. src \in Addr /\ D \in SUBSET Addr /\ s \in Seqno /\ 0 \in Seqno /\ "POS" \in Life
  BY InAssumption, U32Assumption DEF Peer, Seqno, Life
<1>3. m \in RERR /\ m.type = "RERR"
  BY <1>2 DEF RERR
<1>4. WellFormed(m, src, BCast, 1)
  BY <1>3 DEF WellFormed
<1>5. receive(m, src, BCast, 1, "POS")
  BY <1>1
<1>6. 1 \in Int
  OBVIOUS
<1> HIDE DEF m
<1> QED BY <1>2, <1>3, <1>4, <1>5, <1>6, ReceiveGood

\* A received HELLO keeps the invariant.
LEMMA RecvHELLOInv == ASSUME Inv, NEW src \in Peer, RecvHELLO(src)
            PROVE  Good(n', {}) /\ Step({src}) /\ Spared({})
<1>1. PICK s \in InSeqnos :
         receive([type |-> "RREP", hopcnt |-> 0, dest |-> src, dest_seqno |-> s,
                  orig |-> src, lifetime |-> "POS", a |-> FALSE], src, BCast, 1, "POS")
  BY DEF RecvHELLO
<1> DEFINE m == [type |-> "RREP", hopcnt |-> 0, dest |-> src, dest_seqno |-> s,
                 orig |-> src, lifetime |-> "POS", a |-> FALSE]
<1>2. src \in Addr /\ s \in Seqno /\ "POS" \in Life /\ 1 \in Int
  BY InAssumption DEF Peer, Life
<1>3. m \in RREP /\ m.type = "RREP" /\ m.hopcnt = 0 /\ m.dest = src
  BY <1>2 DEF RREP
<1>4. WellFormed(m, src, BCast, 1)
  BY <1>3 DEF WellFormed
<1>5. receive(m, src, BCast, 1, "POS")
  BY <1>1
<1> HIDE DEF m
<1> QED BY <1>2, <1>3, <1>4, <1>5, ReceiveGood

\* A received RREP_ack keeps the invariant.
LEMMA RecvAckInv == ASSUME Inv, NEW src \in Peer, RecvRREP_ACK(src)
            PROVE  Good(n', {}) /\ Step({}) /\ Spared({})
<1> DEFINE m == [type |-> "RREP_ACK"]
<1>1. src \in Addr /\ "POS" \in Life /\ MAXTTL \in Int
  BY DEF Peer, Life, MAXTTL
<1>2. m \in RREP_ack /\ m.type = "RREP_ACK"
  BY DEF RREP_ack
<1>3. WellFormed(m, src, Self, MAXTTL)
  BY <1>2 DEF WellFormed
<1>4. receive(m, src, Self, MAXTTL, "POS")
  BY DEF RecvRREP_ACK
<1> HIDE DEF m
<1> QED BY <1>1, <1>2, <1>3, <1>4, ReceiveGood

-----------------------------------------------------------------------------
\* A timer of an entry finds the entry in the state its handler expects, and only
\* the expiry of a route of several hops forgets its precursors.
LEMMA RtTimerInv ==
  ASSUME Inv, NEW d \in Addr, RtTimer(d)
  PROVE  /\ Good(n', {}) /\ Step({})
         /\ Spared(IF Valid(n, d) /\ n.rt[d].hopcnt # 1 THEN {d} \X Addr ELSE {})
<1> DEFINE i == Idle(n)
           Y == IF Valid(n, d) /\ n.rt[d].hopcnt # 1 THEN {d} \X Addr ELSE {}
<1>1. Good(n, {}) /\ Good(i, {}) /\ i.rt = n.rt
  BY InvIsGood, IdleGood
<1>2. n.rt[d] \in Entry /\ EntrySound(d, n.rt[d], n.expl[d]) /\ Present(n, d)
  BY <1>1 DEF Good, Node, RtTimer
<1>3. \/ n.rt[d].handler = "expire" /\ n' \in Returned(route_expire_timeout(i, d))
      \/ n.rt[d].handler = "delete" /\ n' \in Returned(route_delete_timeout(i, d))
      \/ n.rt[d].handler = "repair" /\ n' \in Returned(local_repair_timeout(i, d))
  <2>1. n.rt[d].handler \in {"expire", "delete", "repair"}
    BY <1>2 DEF Entry
  <2> HIDE DEF i
  <2> QED BY <2>1 DEF RtTimer, Handled, i
<1>4. i \in Node
  BY <1>1 DEF Good
<1> HIDE DEF i
<1>5. CASE n.rt[d].handler = "expire" /\ n' \in Returned(route_expire_timeout(i, d))
  <2>1. Valid(i, d) /\ Valid(n, d)
    BY <1>1, <1>2, <1>5 DEF EntrySound, Entry, Present, Valid
  <2>2. Good(route_expire_timeout(i, d), {}) /\ Tame(i, route_expire_timeout(i, d))
    BY <1>1, <2>1, ExpireTimeoutGood, ExpireTimeoutTame
  <2>3. Informs(i, route_expire_timeout(i, d), Y)
    BY <1>1, <1>4, <2>1, ExpireTimeoutInforms
  <2> HIDE DEF Y
  <2> QED BY <1>5, <2>2, <2>3, TameStep DEF i, Y
<1>6. CASE n.rt[d].handler = "delete" /\ n' \in Returned(route_delete_timeout(i, d))
  <2>1. Present(i, d) /\ ~Valid(i, d) /\ ~Valid(n, d) /\ ~Awaits(i, d)
    BY <1>1, <1>2, <1>6 DEF Present, Valid, EntrySound, Awaits
  <2>2. Tells(i, i)
    BY IdleSilent DEF i
  <2> DEFINE k == route_delete_timeout(i, d)
  <2>3. Good(k, {}) /\ Progress(i, k, "POS", {}) /\ Tells(i, k) /\ Informs(i, k, {})
    BY <1>1, <1>4, <2>1, <2>2, DeleteGood, DeleteProgress, DeleteTells, DeleteInforms
       DEF route_delete_timeout
  <2>4. Y = {}
    BY <2>1
  <2> HIDE DEF k, Y
  <2> QED BY <1>6, <2>3, <2>4, HandledStep DEF i, k, Y
<1>7. CASE n.rt[d].handler = "repair" /\ n' \in Returned(local_repair_timeout(i, d))
  <2>1. i.rt[d].state = "INVALID" /\ ~Valid(n, d)
    BY <1>1, <1>2, <1>7 DEF EntrySound, Entry, Present, Valid
  <2>2. Good(local_repair_timeout(i, d), {}) /\ Quiet(i, local_repair_timeout(i, d))
    BY <1>1, <2>1, RepairTimeoutGood, RepairTimeoutQuiet
  <2>3. Y = {}
    BY <2>1
  <2> HIDE DEF Y
  <2> QED BY <1>7, <2>2, <2>3, QuietStep DEF i, Y
<1> QED BY <1>3, <1>5, <1>6, <1>7

\* hello_timer running out keeps the invariant.
LEMMA HelloTimerInv == ASSUME Inv, NEW d \in Addr, HelloTimer(d)
            PROVE  Good(n', {}) /\ Step({}) /\ Spared({})
<1> DEFINE i == Idle(n)
<1>1. Good(i, {}) /\ i.rt = n.rt
  BY InvIsGood, IdleGood
<1>2. n.rt[d].hello /\ n' \in Returned(hello_timeout(i, d))
  BY DEF HelloTimer, Handled
<1> HIDE DEF i
<1>3. Good(hello_timeout(i, d), {}) /\ Quiet(i, hello_timeout(i, d))
  BY <1>1, <1>2, HelloTimeoutGood, HelloTimeoutQuiet DEF Good
<1> QED BY <1>2, <1>3, QuietStep DEF i

\* The handlers that a Good node is enough for.
LEMMA OtherHandlersInv ==
  ASSUME Inv, NEW d \in Addr, NEW s \in Addr,
         \/ Handled(rreq_route_discovery(Idle(n), d))
         \/ Handled(rt_table_update_route_timeouts(Idle(n), d, s))
         \/ Handled(nl_send_rerr(Idle(n), s, d))
         \/ AckTimer(d) \/ SeekTimer(d) \/ RecordTimer \/ BlacklistTimer
  PROVE  Good(n', {}) /\ Step({}) /\ Spared({})
<1> DEFINE i == Idle(n)
<1>1. Good(i, {})
  BY InvIsGood, IdleGood
<1>2. \E k : /\ n' \in Returned(k)
             /\ \/ k = rreq_route_discovery(i, d)
                \/ k = rt_table_update_route_timeouts(i, d, s)
                \/ k = nl_send_rerr(i, s, d)
                \/ k = rrep_ack_timeout(i, d)
                \/ k = route_discovery_timeout(i, d)
                \/ \E x : k = rreq_record_timeout(i, x) \/ k = rreq_blacklist_timeout(i, x)
  <2> HIDE DEF i
  <2>1. ASSUME RecordTimer
        PROVE  \E x : n' \in Returned(rreq_record_timeout(i, x))
    BY <2>1 DEF RecordTimer, Handled, i
  <2>2. ASSUME BlacklistTimer
        PROVE  \E x : n' \in Returned(rreq_blacklist_timeout(i, x))
    BY <2>2 DEF BlacklistTimer, Handled, i
  <2>3. ASSUME ~RecordTimer, ~BlacklistTimer
        PROVE  \/ n' \in Returned(rreq_route_discovery(i, d))
               \/ n' \in Returned(rt_table_update_route_timeouts(i, d, s))
               \/ n' \in Returned(nl_send_rerr(i, s, d))
               \/ n' \in Returned(rrep_ack_timeout(i, d))
               \/ n' \in Returned(route_discovery_timeout(i, d))
    BY <2>3 DEF AckTimer, SeekTimer, Handled, i
  <2> QED BY <2>1, <2>2, <2>3
<1> HIDE DEF i
<1>3. PICK k : /\ n' \in Returned(k)
               /\ \/ k = rreq_route_discovery(i, d)
                  \/ k = rt_table_update_route_timeouts(i, d, s)
                  \/ k = nl_send_rerr(i, s, d)
                  \/ k = rrep_ack_timeout(i, d)
                  \/ k = route_discovery_timeout(i, d)
                  \/ \E x : k = rreq_record_timeout(i, x) \/ k = rreq_blacklist_timeout(i, x)
  BY <1>2
<1>4. Good(k, {})
  BY <1>1, <1>3, DiscoveryGood, RouteTimeoutsGood, NlSendRerrGood, AckTimeoutGood,
     DiscoveryTimeoutGood, ListTimeoutGood
<1>5. i \in Node /\ k \in Node
  BY <1>1, <1>4 DEF Good
<1>6. Progress(i, k, "POS", {}) /\ Informs(i, k, {})
  <2>1. CASE k = rreq_route_discovery(i, d)
    <3>1. CASE i.seek[d].rreq_cnt = 0
      <4>1. PICK j, q : /\ Good(j, {}) /\ Quiet(i, j) /\ q.rreq_cnt = 1
                        /\ rreq_route_discovery(i, d) = [j EXCEPT !.seek[d] = q]
        BY <1>1, <3>1, DiscoveryQuiet
      <4>2. j \in Node
        BY <4>1 DEF Good
      <4>3. k.rt = j.rt /\ k.ip = j.ip /\ k.num_entries = j.num_entries
        BY <2>1, <4>1, <4>2 DEF Node
      <4>4. Progress(i, j, "POS", {})
        BY <1>5, <4>1, <4>2, QuietProgress
      <4>5. k.out = j.out /\ Informs(i, j, {})
        BY <2>1, <4>1, <4>2 DEF Node, Quiet
      <4> QED BY <4>2, <4>3, <4>4, <4>5, SameTableProgress, SameInforms
    <3>2. CASE i.seek[d].rreq_cnt # 0
      <4>1. k = i
        BY <2>1, <3>2 DEF rreq_route_discovery
      <4> QED BY <1>5, <4>1, QuietRefl, QuietProgress DEF Quiet
    <3> QED BY <3>1, <3>2
  <2>2. CASE k = route_discovery_timeout(i, d)
    <3> DEFINE n1 == [i EXCEPT !.seek[d] = NoSeek,
                               !.nl = @ \cup {nl_send_no_route_found_msg(d)}]
    <3>1. \/ \E j, q : Good(j, {}) /\ Quiet(i, j) /\ k = [j EXCEPT !.seek[d] = q]
          \/ Good(n1, {}) /\ Quiet(n1, k)
      BY <1>1, <2>2, DiscoveryTimeoutQuiet
    <3>2. CASE \E j, q : Good(j, {}) /\ Quiet(i, j) /\ k = [j EXCEPT !.seek[d] = q]
      <4>1. PICK j, q : Good(j, {}) /\ Quiet(i, j) /\ k = [j EXCEPT !.seek[d] = q]
        BY <3>2
      <4>2. j \in Node /\ Informs(i, j, {})
        BY <4>1 DEF Good, Quiet
      <4>3. k.rt = j.rt /\ k.ip = j.ip /\ k.num_entries = j.num_entries /\ k.out = j.out
        BY <4>1, <4>2 DEF Node
      <4> QED BY <1>5, <4>1, <4>2, <4>3, QuietProgress, SameTableProgress, SameInforms
    <3>3. CASE Good(n1, {}) /\ Quiet(n1, k)
      <4>1. /\ n1.rt = i.rt /\ n1.ip = i.ip /\ n1.num_entries = i.num_entries
            /\ n1.out = i.out
        BY <1>5 DEF Node
      <4> HIDE DEF n1
      <4>2. Progress(i, n1, "POS", {})
        BY <1>5, <4>1, QuietRefl, QuietProgress, SameTableProgress
      <4>3. Informs(i, k, {})
        <5>1. Informs(i, n1, {})
          BY <4>1, QuietRefl, SameInforms DEF Quiet
        <5> QED BY <3>3, <5>1, InformsTrans DEF Quiet
      <4> QED BY <1>5, <3>3, <4>2, <4>3, ProgressQuiet DEF Good
    <3> QED BY <3>1, <3>2, <3>3
  <2>3. CASE k # rreq_route_discovery(i, d) /\ k # route_discovery_timeout(i, d)
    BY <1>1, <1>3, <1>5, <2>3, RouteTimeoutsQuiet, NlSendRerrQuiet, AckTimeoutQuiet,
       ListTimeoutQuiet, QuietProgress DEF Quiet
  <2> QED BY <2>1, <2>2, <2>3
<1>7. Tells(i, k)
  <2>1. i.nl = {} /\ Tells(i, i)
    BY IdleSilent DEF i
  <2>2. k = rreq_route_discovery(i, d) => Tells(i, k)
    BY <1>1, <2>1, DiscoveryTells
  <2>3. k = route_discovery_timeout(i, d) => Tells(i, k)
    BY <1>1, <2>1, DiscoveryTimeoutTells
  <2>4. ASSUME k # rreq_route_discovery(i, d), k # route_discovery_timeout(i, d)
        PROVE  Tells(i, k)
    <3>1. Quiet(i, k)
      BY <1>1, <1>3, <1>5, <2>4, RouteTimeoutsQuiet, NlSendRerrQuiet, AckTimeoutQuiet,
         ListTimeoutQuiet
    <3> QED BY <2>1, <3>1, QuietTells
  <2> QED BY <2>2, <2>3, <2>4
<1> QED BY <1>3, <1>4, <1>5, <1>6, <1>7, HandledStep DEF i

-----------------------------------------------------------------------------
\* A step of the daemon, but for a restart, makes Progress.
LEMMA NextStep ==
  ASSUME Inv, Next
  PROVE  /\ Good(n', {})
         /\ \/ Restart
            \/ Step({})
            \/ \E p \in Peer : RecvHELLO(p) /\ Step({p})
         /\ \/ Restart
            \/ Spared({})
            \/ \E d \in Addr : RtTimer(d) /\ Valid(n, d) /\ n.rt[d].hopcnt # 1
                               /\ Spared({d} \X Addr)
            \/ \E p \in Peer : RecvRERR(p) /\ Spared(Strangers(n'))
<1>1. CASE \E p \in Peer : RecvRREQ(p) \/ RecvRREP(p) \/ RecvRERR(p) \/ RecvRREP_ACK(p)
  BY <1>1, RecvRREQInv, RecvRREPInv, RecvRERRInv, RecvAckInv
<1>2. CASE \E p \in Peer : RecvHELLO(p)
  BY <1>2, RecvHELLOInv
<1>3. CASE \E d \in Peer : RtTimer(d)
  <2>1. PICK d \in Addr : RtTimer(d)
    BY <1>3 DEF Peer
  <2>2. CASE Valid(n, d) /\ n.rt[d].hopcnt # 1
    BY <2>1, <2>2, RtTimerInv
  <2>3. CASE ~(Valid(n, d) /\ n.rt[d].hopcnt # 1)
    BY <2>1, <2>3, RtTimerInv
  <2> QED BY <2>2, <2>3
<1>4. CASE \E d \in Peer : HelloTimer(d)
  BY <1>4, HelloTimerInv DEF Peer
<1>5. CASE \/ \E d \in Peer : KernelRouteReq(d) \/ AckTimer(d) \/ SeekTimer(d)
           \/ \E s, d \in Addr : KernelRouteUpdate(s, d)
           \/ \E s \in Addr, d \in Peer : KernelSendRERR(s, d)
           \/ RecordTimer \/ BlacklistTimer
  BY <1>5, OtherHandlersInv, InAssumption
     DEF Peer, KernelRouteReq, KernelRouteUpdate, KernelSendRERR
<1>6. CASE Restart
  BY <1>6, HostInitGood, InAssumption DEF Restart
<1> QED BY <1>1, <1>2, <1>3, <1>4, <1>5, <1>6 DEF Next

\* Every step of the daemon keeps the invariant.
LEMMA NextInv == Inv /\ [Next]_vars => Inv'
<1> SUFFICES ASSUME Inv, [Next]_vars PROVE Inv'
  OBVIOUS
<1>1. CASE UNCHANGED vars
  BY <1>1 DEF Inv, TypeOK, NodeSound, Tidy, Counted, Entries, Present, vars
<1>2. CASE Next
  <2>1. inputs' \in 0 .. InputBound
    <3>1. Input \/ Timer
      BY <1>2 DEF Next, RecvRREQ, RecvRREP, RecvRERR, RecvHELLO, RecvRREP_ACK,
                  KernelRouteReq, KernelRouteUpdate, KernelSendRERR, RtTimer, HelloTimer,
                  AckTimer, SeekTimer, RecordTimer, BlacklistTimer, Restart
    <3> QED BY <3>1, NextInputs DEF Inv, TypeOK
  <2>2. Good(n', {})
    BY <1>2, NextStep
  <2>3. n'.ip = Self /\ Tidy(n')
    <3>1. CASE Restart
      BY <3>1, HostInitTidy DEF Restart
    <3>2. CASE \E X : Step(X)
      BY <3>2 DEF Step, Progress, Inv
    <3> QED BY <1>2, <3>1, <3>2, NextStep
  <2>4. (Good(n, {}) /\ inputs \in 0 .. InputBound /\ n.ip = Self /\ Tidy(n))' => Inv'
    BY DEF Inv, TypeOK, Good, NodeSound
  <2>5. ((Good(n, {}))' <=> Good(n', {})) /\ ((Tidy(n))' <=> Tidy(n'))
    BY DEF Good, Tidy, Counted, Entries, Present
  <2> QED BY <2>1, <2>2, <2>3, <2>4, <2>5
<1> QED BY <1>1, <1>2

\* The inductive invariant: at every step of a daemon, the table entries, their
\* timers and flags and the kernel's routes fit together.
THEOREM Invariance == Spec => []Inv
<1>1. Init => Inv
  BY InitInv
<1>2. Inv /\ [Next]_vars => Inv'
  BY NextInv
<1> QED BY <1>1, <1>2, PTL DEF Spec

\* Every field of the daemon and every message it sends keeps its type, whatever
\* other hosts send: the counters stay u32_t and every next hop is an address.
THEOREM TypeCorrect == Spec => []TypeOK
<1>1. Inv => TypeOK
  BY DEF Inv
<1> QED BY <1>1, Invariance, PTL

\* The kernel module forwards only along VALID routes, by their next hops
\* (the ADDROUTE and DELROUTE messages of routing_table.c).
THEOREM KernelIsSound == Spec => []KernelSound
<1>1. Inv => KernelSound
  BY DEF Inv, NodeSound, EntrySound, KernelSound, Valid
<1> QED BY <1>1, Invariance, PTL

\* Every VALID neighbour has its route in the kernel module.
THEOREM NeighboursInKernel == Spec => []NeighbourInKernel
<1>1. Inv => NeighbourInKernel
  BY DEF Inv, NodeSound, EntrySound, NeighbourInKernel, Valid
<1> QED BY <1>1, Invariance, PTL

\* rt_timer has the handler of its entry's state, and runs for every INVALID one.
THEOREM TimersFit == Spec => []TimerFitsState
<1>1. Inv => TimerFitsState
  BY DEF Inv, NodeSound, EntrySound, TimerFitsState, Valid
<1> QED BY <1>1, Invariance, PTL

\* No VALID entry is marked for repair (RT_REPAIR, which neighbor_link_break and
\* hello_timeout set before they invalidate the entry).
THEOREM RepairFits == Spec => []RepairNotValid
<1>1. Inv => RepairNotValid
  BY DEF Inv, NodeSound, EntrySound, RepairNotValid
<1> QED BY <1>1, Invariance, PTL

\* hello_timer runs only for VALID entries whose link break hello_timeout can
\* carry out.
THEOREM HelloFits == Spec => []HelloBreaksLink
<1>1. Inv => HelloBreaksLink
  BY DEF Inv, NodeSound, EntrySound, HelloBreaksLink, Valid
<1> QED BY <1>1, Invariance, PTL

\* rt_tbl.num_entries counts the entries, modulo the width of a u32_t: every
\* insert and every delete of routing_table.c is counted once.
THEOREM EntriesAreCounted == Spec => []EntriesCounted
<1>1. Inv => EntriesCounted
  BY DEF Inv, Tidy, Counted, Entries, EntriesCounted
<1> QED BY <1>1, Invariance, PTL

\* No message that comes back makes a host keep a route to itself (the checks of
\* the own address in rreq_process and rrep_process are enough).
THEOREM NoRouteToSelf == Spec => []NoSelfRoute
<1>1. Inv => NoSelfRoute
  BY InAssumption DEF Inv, NodeSound, EntrySound, Tidy, Present, NoSelfRoute
<1> QED BY <1>1, Invariance, PTL

\* Two sequence numbers that compare as s32_t and are less than half the range
\* apart compare as in the circular order.
LEMMA SignedNewer ==
  ASSUME NEW a \in Seqno, NEW b \in Seqno, Signed(a) > Signed(b)
  PROVE  Newer(a, b) \/ Signed(a) - Signed(b) >= U32 \div 2
<1> DEFINE D == Signed(a) - Signed(b)
<1>1. U32 \in Nat /\ U32 > 0 /\ a \in Int /\ b \in Int
  BY U32Assumption DEF Seqno
<1>2. D \in Int /\ D > 0
  BY SignedType
<1>3. a - b \in {D, D + U32, D - U32}
  BY <1>1 DEF Signed
<1>4. \E q \in {-1, 0, 1} : a - b = q * U32 + D
  BY <1>1, <1>2, <1>3
<1>5. CASE D < U32 \div 2
  <2>1. D \in 1 .. (U32 \div 2 - 1) /\ D \in 0 .. (U32 - 1)
    BY <1>1, <1>2, <1>5
  <2>2. (a - b) % U32 = D
    BY <1>1, <1>4, <2>1, ModIs
  <2> QED BY <2>1, <2>2 DEF Newer
<1> QED BY <1>1, <1>2, <1>5

\* No step replaces a VALID route by older news in the circular order of the
\* sequence numbers, but for the cases that RouteImproves names: those are all
\* that the comparisons of rreq_process and rrep_process as s32_t let through.
THEOREM RoutesImprove == Spec => RouteImproves
<1> DEFINE A == \A d \in Addr :
                  LET e == n.rt[d]
                      f == n'.rt[d]
                  IN  e.state = "VALID" /\ f.state = "VALID" /\ e.seqno # 0 /\ ~e.unidir
                        => \/ Newer(f.seqno, e.seqno)
                           \/ f.seqno = e.seqno /\ f.hopcnt <= e.hopcnt
                           \/ d \in Peer /\ RecvHELLO(d)
                           \/ Signed(f.seqno) - Signed(e.seqno) >= U32 \div 2
<1>1. Inv /\ [Next]_vars => [A]_vars
  <2> SUFFICES ASSUME Inv, Next PROVE A
    OBVIOUS
  <2>1. CASE Restart
    BY <2>1, HostInitTidy DEF Restart
  <2>2. CASE Step({}) \/ \E p \in Peer : RecvHELLO(p) /\ Step({p})
    <3>1. n \in Node /\ n' \in Node
      BY NextStep DEF Inv, TypeOK, Good
    <3>2. \A d \in Addr : n.rt[d].seqno \in Seqno /\ n'.rt[d].seqno \in Seqno
      BY <3>1 DEF Node, Entry
    <3>3. \A d \in Addr : (d \in Peer /\ RecvHELLO(d)) \/ Improves(n.rt[d], n'.rt[d])
      BY <2>2 DEF Step, Progress
    <3> QED BY <3>2, <3>3, SignedNewer DEF Improves, NoOlder
  <2> QED BY <2>1, <2>2, NextStep
<1> QED BY <1>1, Invariance, PTL DEF Spec, RouteImproves

\* Every handler keeps each precursor of a route that is VALID or under repair, or
\* passes a RERR about the route to the socket for it, but for the two handlers
\* that PrecursorsTold names: neighbor_link_break, wherever it is called from,
\* local_repair_timeout, nl_send_rerr and rerr_process forget nobody in silence.
THEOREM PrecursorsAreTold == Spec => PrecursorsTold
<1> DEFINE A == ~Restart => \A d \in Addr : \A p \in n.rt[d].prec : Awaits(n, d) =>
                  \/ Awaits(n', d) /\ p \in n'.rt[d].prec
                  \/ Warned(n'.out \cup n'.dropped, d, p)
                  \/ RtTimer(d) /\ Valid(n, d) /\ n.rt[d].hopcnt # 1
                  \/ ~Present(n', p) /\ \E x \in Peer : RecvRERR(x)
<1>1. Inv /\ [Next]_vars => [A]_vars
  <2> SUFFICES ASSUME Inv, Next, ~Restart PROVE A
    OBVIOUS
  <2>1. CASE Spared({})
    BY <2>1 DEF Spared
  <2>2. CASE \E d \in Addr : RtTimer(d) /\ Valid(n, d) /\ n.rt[d].hopcnt # 1
                             /\ Spared({d} \X Addr)
    <3>1. PICK d \in Addr : /\ RtTimer(d) /\ Valid(n, d) /\ n.rt[d].hopcnt # 1
                            /\ Spared({d} \X Addr)
      BY <2>2
    <3>2. \A u, p : <<u, p>> \in {d} \X Addr => u = d
      OBVIOUS
    <3> QED BY <3>1, <3>2 DEF Spared
  <2>3. CASE \E p \in Peer : RecvRERR(p) /\ Spared(Strangers(n'))
    <3>1. \A u, p : <<u, p>> \in Strangers(n') => ~Present(n', p)
      BY DEF Strangers
    <3> QED BY <2>3, <3>1 DEF Spared
  <2> QED BY <2>1, <2>2, <2>3, NextStep
<1> QED BY <1>1, Invariance, PTL DEF Spec, PrecursorsTold
====
