-------------------------- MODULE AodvHost_proofs ---------------------------
(***************************************************************************)
(* The daemon and the kernel module of one host agree, for any number of   *)
(* hosts and any packets and messages.  HostInv is inductive because every *)
(* handler of the daemon Tells the kernel module what becomes of its       *)
(* routes and of its discoveries (AodvSteps_proofs), and because the       *)
(* kernel module acts on nothing else.                                     *)
(***************************************************************************)
EXTENDS AodvHost, AodvDaemon_proofs

\* A message of the kernel module has a source unless it asks for a route.
HostMsg == {m \in KernelMsg : m.type # "ROUTE_REQ" => m.src \in Addr}

HostInv ==
  /\ Inv
  /\ inbox \in Seq(HostMsg)
  /\ queue \subseteq Addr
  /\ CacheSound
  /\ QueueAwaited

-----------------------------------------------------------------------------
(***************************************************************************)
(* Messages in the socket.                                                 *)
(***************************************************************************)
Has(s, x) == \E i \in DOMAIN s : s[i] = x

LEMMA MsgType ==
  ASSUME NEW s \in Addr, NEW d \in Addr
  PROVE  RouteReq(d) \in HostMsg /\ RouteUpdate(s, d) \in HostMsg /\ SendRERR(s, d) \in HostMsg
BY DEF HostMsg, KernelMsg, RouteReq, RouteUpdate, SendRERR

\* What is in the socket stays there when more comes in.
LEMMA HasAppend ==
  ASSUME NEW S, NEW s \in Seq(S), NEW e \in S
  PROVE  /\ Append(s, e) \in Seq(S) /\ Has(Append(s, e), e)
         /\ \A x : Has(s, x) => Has(Append(s, e), x)
BY DEF Has

LEMMA HasConcat ==
  ASSUME NEW S, NEW s \in Seq(S), NEW t \in Seq(S)
  PROVE  s \o t \in Seq(S) /\ \A x : Has(s, x) => Has(s \o t, x)
BY DEF Has

\* Reading a message takes only the first one.
LEMMA HasTail ==
  ASSUME NEW S, NEW s \in Seq(S), s # <<>>
  PROVE  /\ Head(s) \in S /\ Tail(s) \in Seq(S)
         /\ \A x : Has(s, x) => x = Head(s) \/ Has(Tail(s), x)
<1>1. Head(s) \in S /\ Tail(s) \in Seq(S)
  OBVIOUS
<1>2. ASSUME NEW x, Has(s, x) PROVE x = Head(s) \/ Has(Tail(s), x)
  <2>1. PICK i \in 1 .. Len(s) : s[i] = x
    BY <1>2 DEF Has
  <2>2. CASE i = 1
    BY <2>1, <2>2
  <2>3. CASE i # 1
    <3>1. i - 1 \in 1 .. Len(Tail(s)) /\ Tail(s)[i - 1] = s[i]
      BY <2>1, <2>3
    <3>2. DOMAIN Tail(s) = 1 .. Len(Tail(s))
      BY <1>1
    <3>3. Has(Tail(s), x)
      BY <2>1, <3>1, <3>2 DEF Has
    <3> QED BY <3>3
  <2> QED BY <2>2, <2>3
<1> QED BY <1>1, <1>2

\* The order of the messages about the packets that are sent at once is arbitrary,
\* but there is one.
LEMMA SetToSeqType ==
  ASSUME NEW S, IsFiniteSet(S)
  PROVE  Seqs!SetToSeq(S) \in Seq(S)
<1> DEFINE c == Cardinality(S)
<1>1. c \in Nat
  BY FS_CardinalityType
<1>2. \E f : f \in Bijection(1 .. c, S)
  BY FS_CardinalityType, FS_NatBijection, FS_CountingElements DEF ExistsBijection
<1>3. \E f \in [1 .. c -> S] : Seqs!IsInjective(f)
  BY <1>2 DEF Bijection, Injection, Surjection, IsInjective, Seqs!IsInjective
<1>4. Seqs!SetToSeq(S) \in [1 .. c -> S]
  <2>1. Seqs!Cardinality(S) = c
    BY DEF Seqs!Cardinality, Cardinality
  <2> QED BY <1>3, <2>1 DEF Seqs!SetToSeq
<1> QED BY <1>1, <1>4

LEMMA ReleasedType ==
  ASSUME NEW M, queue \subseteq Addr
  PROVE  Released(M) \in Seq(HostMsg)
<1> DEFINE D == queue \cap About(M, "ADDROUTE")
           S == {RouteUpdate(Self, d) : d \in D}
<1>1. IsFiniteSet(D)
  BY AddrAssumption, FS_Subset
<1>2. IsFiniteSet(S)
  <2> DEFINE f == [d \in D |-> RouteUpdate(Self, d)]
  <2>1. f \in Surjection(D, S)
    BY DEF Surjection
  <2> QED BY <1>1, <2>1, FS_Surjection
<1>3. S \subseteq HostMsg
  BY InAssumption, MsgType
<1>4. Seqs!SetToSeq(S) \in Seq(S)
  BY <1>2, SetToSeqType
<1> HIDE DEF S
<1>5. Seqs!SetToSeq(S) \in Seq(HostMsg)
  BY <1>3, <1>4
<1> QED BY <1>5 DEF Released, S

-----------------------------------------------------------------------------
(***************************************************************************)
(* A handler of the daemon and what the kernel module does meanwhile.      *)
(***************************************************************************)
\* A step of the daemon keeps its own invariant.
LEMMA StepInv ==
  ASSUME Inv, Input \/ Timer, Good(n', {}), NEW X, Step(X)
  PROVE  Inv'
<1>1. inputs' \in 0 .. InputBound
  BY NextInputs DEF Inv, TypeOK
<1>2. n'.ip = Self /\ Tidy(n')
  BY DEF Step, Progress, Inv
<1>3. (Good(n, {}) /\ inputs \in 0 .. InputBound /\ n.ip = Self /\ Tidy(n))' => Inv'
  BY DEF Inv, TypeOK, Good, NodeSound
<1>4. ((Good(n, {}))' <=> Good(n', {})) /\ ((Tidy(n))' <=> Tidy(n'))
  BY DEF Good, Tidy, Counted, Entries, Present
<1> QED BY <1>1, <1>2, <1>3, <1>4

\* What the daemon remembers of the node before the handler.
LEMMA IdleSame ==
  ASSUME Inv
  PROVE  /\ Idle(n).expl = n.expl /\ Idle(n).seek = n.seek
         /\ \A u \in Addr : Way(Idle(n), u) = Way(n, u)
<1>1. Idle(n).rt = n.rt /\ Idle(n).expl = n.expl /\ Idle(n).seek = n.seek
  BY DEF Inv, TypeOK, Idle, Node
<1> QED BY <1>1 DEF Way, Valid

\* The cache that the messages leave behind is the daemon's picture of it.
LEMMA CachedIsExpl ==
  ASSUME Inv, cache = n.expl, n' \in Node, Tells(Idle(n), n')
  PROVE  Cached(n'.nl) = n'.expl
<1> DEFINE M == n'.nl
<1>1. ASSUME NEW d \in Addr PROVE Cached(M)[d] = n'.expl[d]
  <2>1. Obeyed(Idle(n), n', d)
    BY DEF Tells
  <2>2. \A op : d \in About(M, op) <=> Told(n', d, op)
    BY DEF About, Told
  <2>3. Cached(M)[d] = IF Told(n', d, "DELROUTE") THEN NoAddr
                       ELSE IF Told(n', d, "ADDROUTE")
                         THEN (CHOOSE m \in M : m.dest = d /\ m.op = "ADDROUTE").hop
                       ELSE cache[d]
    BY <2>2 DEF Cached
  <2>4. CASE Told(n', d, "DELROUTE")
    BY <2>1, <2>3, <2>4 DEF Obeyed
  <2>5. CASE ~Told(n', d, "DELROUTE") /\ Told(n', d, "ADDROUTE")
    <3> DEFINE x == CHOOSE m \in M : m.dest = d /\ m.op = "ADDROUTE"
    <3>1. x \in M /\ x.dest = d /\ x.op = "ADDROUTE"
      BY <2>5 DEF Told
    <3>2. Cached(M)[d] = x.hop
      BY <2>3, <2>5
    <3> HIDE DEF x
    <3> QED BY <2>1, <2>5, <3>1, <3>2 DEF Obeyed
  <2>6. CASE ~Told(n', d, "DELROUTE") /\ ~Told(n', d, "ADDROUTE")
    BY <2>1, <2>3, <2>6, IdleSame DEF Obeyed
  <2> QED BY <2>4, <2>5, <2>6
<1>2. n'.expl \in [Addr -> Addr \cup {NoAddr}]
  BY DEF Node
<1>3. Cached(M) = [d \in Addr |-> Cached(M)[d]]
  BY DEF Cached
<1> QED BY <1>1, <1>2, <1>3

\* The kernel's routes are those of VALID entries of a Good node.
LEMMA ExplSound ==
  ASSUME NEW k, Good(k, {}), NEW d \in Addr, k.expl[d] # NoAddr
  PROVE  Valid(k, d) /\ k.expl[d] = k.rt[d].next
BY DEF Good, EntrySound, Valid

\* A handler that leaves rest in the socket, and reads a request for a route only
\* to start a discovery, keeps the invariant of the host.
LEMMA HandlerInv ==
  ASSUME HostInv, Input \/ Timer, Good(n', {}), NEW X, Step(X),
         NEW rest \in Seq(HostMsg), KernelActs(rest),
         \A d \in Addr : Has(inbox, RouteReq(d)) =>
                           Has(rest, RouteReq(d)) \/ n'.seek[d] # NoSeek
  PROVE  HostInv'
<1>1. Inv /\ Inv' /\ Tells(Idle(n), n') /\ n' \in Node
  BY StepInv DEF HostInv, Step, Good
<1>2. queue' = queue \ {m.dest : m \in n'.nl} /\ queue \subseteq Addr
  BY DEF KernelActs, Waiting, HostInv
<1>3. cache' = n'.expl /\ cache = n.expl
  BY <1>1, CachedIsExpl DEF KernelActs, HostInv, CacheSound
<1>4. Released(n'.nl) \in Seq(HostMsg)
  BY <1>2, ReleasedType
<1>5. inbox' \in Seq(HostMsg) /\ \A x : Has(rest, x) => Has(inbox', x)
  BY <1>4, HasConcat DEF KernelActs
<1>6. CacheSound'
  <2>1. \A d \in Addr : n'.expl[d] # NoAddr => Valid(n', d) /\ n'.expl[d] = n'.rt[d].next
    BY ExplSound
  <2> QED BY <1>3, <2>1 DEF CacheSound, Valid
<1>7. QueueAwaited'
  <2> SUFFICES ASSUME NEW d \in queue'
               PROVE  cache'[d] = NoAddr /\ (Has(inbox', RouteReq(d)) \/ n'.seek[d] # NoSeek
                                               \/ Valid(n', d))
    BY DEF QueueAwaited, Has, RouteReq, Valid
  <2>1. d \in Addr /\ d \in queue /\ ~\E x \in n'.nl : x.dest = d
    BY <1>2
  <2>2. ~Told(n', d, "DELROUTE") /\ ~Told(n', d, "ADDROUTE")
    BY <2>1 DEF Told
  <2>3. Obeyed(Idle(n), n', d) /\ Reported(Idle(n), n', d)
    BY <1>1, <2>1 DEF Tells
  <2>4. /\ cache[d] = NoAddr
        /\ Has(inbox, RouteReq(d)) \/ n.seek[d] # NoSeek \/ Valid(n, d)
    BY <2>1 DEF HostInv, QueueAwaited, Has
  <2>5. cache'[d] = NoAddr
    BY <1>1, <1>3, <2>2, <2>3, <2>4, IdleSame DEF Obeyed
  <2>6. Way(n', d) # NoAddr => Valid(n', d)
    BY DEF Way
  <2>7. CASE Has(inbox, RouteReq(d))
    BY <1>5, <2>1, <2>5, <2>7
  <2>8. CASE n.seek[d] # NoSeek
    BY <1>1, <2>1, <2>3, <2>5, <2>6, <2>8, IdleSame DEF Reported
  <2>9. CASE Valid(n, d)
    <3>1. Way(n, d) # NoAddr
      BY <1>1, <2>1, <2>9, NextType, InvIsGood, AddrAssumption DEF Way, Present, Valid
    <3>2. Way(n', d) # NoAddr
      BY <1>1, <2>1, <2>2, <2>3, <3>1, IdleSame DEF Reported
    <3> QED BY <2>5, <2>6, <3>2
  <2> QED BY <2>4, <2>7, <2>8, <2>9
<1> QED BY <1>1, <1>2, <1>5, <1>6, <1>7 DEF HostInv

\* Told to the kernel as KernelTold says.
LEMMA StepTold ==
  ASSUME Inv, NEW X, Step(X), NEW d \in Addr
  PROVE  LET told(op) == {m.hop : m \in {m \in n'.nl : m.op = op /\ m.dest = d}}
         IN  /\ Way(n', d) \notin {Way(n, d), NoAddr} => Way(n', d) \in told("ADDROUTE")
             /\ Way(n', d) # Way(n, d) /\ Way(n', d) = NoAddr => told("DELROUTE") # {}
             /\ Way(n', d) # NoAddr /\ told("DELROUTE") # {} => Way(n, d) = d /\ Way(n', d) # d
             /\ n.seek[d] # NoSeek /\ n'.seek[d] = NoSeek =>
                  Way(n', d) # NoAddr \/ \E m \in n'.nl : m.dest = d
<1>1. Reported(Idle(n), n', d)
  BY DEF Step, Tells
<1>2. Idle(n).seek = n.seek /\ Way(Idle(n), d) = Way(n, d)
  BY IdleSame
<1> QED BY <1>1, <1>2 DEF Reported, Told

-----------------------------------------------------------------------------
(***************************************************************************)
(* The actions of the host.                                                *)
(***************************************************************************)
LEMMA HostInitInv == HostInit => HostInv
<1> SUFFICES ASSUME HostInit PROVE HostInv
  OBVIOUS
<1>1. Inv /\ n = host_init(Self) /\ queue = {} /\ inbox = <<>>
      /\ cache = [d \in Addr |-> NoAddr]
  BY InitInv DEF HostInit, Init
<1>2. cache = n.expl /\ \A d \in Addr : cache[d] = NoAddr
  BY <1>1 DEF host_init
<1> QED BY <1>1, <1>2 DEF HostInv, CacheSound, QueueAwaited

\* A packet adds a message to the socket, and one that is queued has asked for a
\* route first, or another one for the same destination has.
LEMMA LocalOutInv == ASSUME HostInv, NEW d \in Peer, LocalOut(d) PROVE HostInv'
<1>1. d \in Addr /\ Self \in Addr
  BY InAssumption DEF Peer
<1>2. UNCHANGED <<n, cache>> /\ Input
  BY DEF LocalOut
<1>3. Inv'
  <2>1. inputs' \in 0 .. InputBound
    BY <1>2, NextInputs DEF HostInv, Inv, TypeOK
  <2> QED BY <1>2, <2>1
       DEF HostInv, Inv, TypeOK, NodeSound, Tidy, Counted, Entries, Present
<1>4. /\ RouteUpdate(Self, d) \in HostMsg /\ RouteReq(d) \in HostMsg
      /\ inbox \in Seq(HostMsg) /\ queue \subseteq Addr
  BY <1>1, MsgType DEF HostInv
<1>5. CacheSound'
  BY <1>2 DEF HostInv, CacheSound, Valid
<1>6. /\ inbox' \in {inbox, Append(inbox, RouteUpdate(Self, d)), Append(inbox, RouteReq(d))}
      /\ queue' = queue \/ (queue' = queue \cup {d} /\ cache[d] = NoAddr)
      /\ d \in queue' \ queue => inbox' = Append(inbox, RouteReq(d))
  BY DEF LocalOut
<1>7. /\ inbox' \in Seq(HostMsg) /\ \A x : Has(inbox, x) => Has(inbox', x)
      /\ d \in queue' \ queue => Has(inbox', RouteReq(d))
  <2>1. ASSUME NEW e \in HostMsg
        PROVE  /\ Append(inbox, e) \in Seq(HostMsg) /\ Has(Append(inbox, e), e)
               /\ \A x : Has(inbox, x) => Has(Append(inbox, e), x)
    BY <1>4, HasAppend
  <2> QED BY <1>4, <1>6, <2>1
<1>8. QueueAwaited'
  <2>1. \A u \in queue : /\ cache[u] = NoAddr
                         /\ Has(inbox, RouteReq(u)) \/ n.seek[u] # NoSeek \/ Valid(n, u)
    BY DEF HostInv, QueueAwaited, Has
  <2>2. \A u \in queue' : /\ cache[u] = NoAddr
                          /\ Has(inbox', RouteReq(u)) \/ n.seek[u] # NoSeek \/ Valid(n, u)
    BY <1>6, <1>7, <2>1
  <2> QED BY <1>2, <2>2 DEF QueueAwaited, Has, RouteReq, Valid
<1> QED BY <1>1, <1>3, <1>4, <1>5, <1>6, <1>7, <1>8 DEF HostInv

LEMMA PreRoutingInv ==
  ASSUME HostInv, NEW s \in Peer, NEW d \in Addr, PreRouting(s, d)
  PROVE  HostInv'
<1> DEFINE a == Append(inbox, RouteUpdate(s, d))
           t == IF d = Self THEN <<>>
                ELSE IF cache[d] = NoAddr THEN <<SendRERR(s, d)>> ELSE <<RouteUpdate(s, d)>>
<1>1. UNCHANGED <<n, cache, queue>> /\ Input /\ inbox' = a \o t
  BY DEF PreRouting
<1>2. Inv'
  <2>1. inputs' \in 0 .. InputBound
    BY <1>1, NextInputs DEF HostInv, Inv, TypeOK
  <2> QED BY <1>1, <2>1
       DEF HostInv, Inv, TypeOK, NodeSound, Tidy, Counted, Entries, Present
<1>3. /\ RouteUpdate(s, d) \in HostMsg /\ SendRERR(s, d) \in HostMsg
      /\ inbox \in Seq(HostMsg) /\ queue \subseteq Addr
  BY MsgType DEF HostInv, Peer
<1>4. t \in Seq(HostMsg)
  BY <1>3
<1> HIDE DEF t
<1>5. a \in Seq(HostMsg) /\ \A x : Has(inbox, x) => Has(a, x)
  BY <1>3, HasAppend
<1> HIDE DEF a
<1>6. inbox' \in Seq(HostMsg) /\ \A x : Has(inbox, x) => Has(inbox', x)
  BY <1>1, <1>4, <1>5, HasConcat
<1>7. CacheSound'
  BY <1>1 DEF HostInv, CacheSound, Valid
<1>8. QueueAwaited'
  <2>1. \A u \in queue : /\ cache[u] = NoAddr
                         /\ Has(inbox, RouteReq(u)) \/ n.seek[u] # NoSeek \/ Valid(n, u)
    BY DEF HostInv, QueueAwaited, Has
  <2> QED BY <1>1, <1>6, <2>1 DEF QueueAwaited, Has, RouteReq, Valid
<1> QED BY <1>1, <1>2, <1>3, <1>6, <1>7, <1>8 DEF HostInv

\* A message of the kernel module is handled.
LEMMA CallbackStep ==
  ASSUME HostInv, nl_kaodv_callback
  PROVE  /\ Good(n', {}) /\ Step({})
         /\ \A d \in Addr : Head(inbox) = RouteReq(d) => n'.seek[d] # NoSeek
<1> DEFINE m == Head(inbox)
           i == Idle(n)
<1>1. m \in HostMsg /\ inbox # <<>>
  BY HasTail DEF HostInv, nl_kaodv_callback
<1>2. m.dest \in Addr /\ (m.type # "ROUTE_REQ" => m.src \in Addr)
      /\ m.type \in {"ROUTE_REQ", "ROUTE_UPDATE", "SEND_RERR"}
  BY <1>1 DEF HostMsg, KernelMsg
<1>3. \/ m.type = "ROUTE_REQ" /\ Handled(rreq_route_discovery(Idle(n), m.dest))
      \/ m.type # "ROUTE_REQ" /\ Handled(rt_table_update_route_timeouts(Idle(n), m.dest, m.src))
      \/ m.type # "ROUTE_REQ" /\ Handled(nl_send_rerr(Idle(n), m.src, m.dest))
  <2> HIDE DEF m
  <2> QED BY <1>2 DEF nl_kaodv_callback, m
<1> HIDE DEF m
<1>4. Inv
  BY DEF HostInv
<1>5. Good(n', {}) /\ Step({})
  BY <1>2, <1>3, <1>4, OtherHandlersInv, InAssumption
<1>6. ASSUME NEW d \in Addr, m = RouteReq(d) PROVE n'.seek[d] # NoSeek
  <2> DEFINE k == rreq_route_discovery(i, d)
  <2>1. m.type = "ROUTE_REQ" /\ m.dest = d
    BY <1>6 DEF RouteReq
  <2>2. n' \in Returned(k)
    BY <1>3, <2>1 DEF Handled
  <2>3. Good(i, {}) /\ i.nl = {}
    BY <1>4, InvIsGood, IdleGood, IdleSilent
  <2> HIDE DEF i
  <2>4. k.seek[d] # NoSeek /\ Good(k, {})
    BY <2>3, DiscoveryTells, DiscoveryGood
  <2> HIDE DEF k
  <2> QED BY <2>2, <2>4, ReturnedTame DEF Tame
<1> QED BY <1>5, <1>6 DEF m

LEMMA CallbackInv == ASSUME HostInv, nl_kaodv_callback PROVE HostInv'
<1>1. inbox \in Seq(HostMsg) /\ inbox # <<>> /\ KernelActs(Tail(inbox)) /\ Timer
  BY DEF HostInv, nl_kaodv_callback, Timer
<1>2. /\ Tail(inbox) \in Seq(HostMsg)
      /\ \A x : Has(inbox, x) => x = Head(inbox) \/ Has(Tail(inbox), x)
  BY <1>1, HasTail
<1> QED BY <1>1, <1>2, CallbackStep, HandlerInv

\* The handlers of AODV messages and timers, which read no message of the kernel.
DaemonStep ==
  \/ \E d \in Peer : Broadcast(d) \/ Unicast(d) \/ Timeout(d)
  \/ ListTimeout

LEMMA DaemonStepGood ==
  ASSUME Inv, DaemonStep
  PROVE  /\ Input \/ Timer
         /\ Good(n', {}) /\ \E X : Step(X)
<1>1. PICK d \in Addr :
        \/ d \in Peer /\ (RecvRREQ(d) \/ RecvRERR(d) \/ RecvHELLO(d) \/ RecvRREP(d)
                            \/ RecvRREP_ACK(d))
        \/ RtTimer(d) \/ HelloTimer(d) \/ AckTimer(d) \/ SeekTimer(d)
        \/ RecordTimer \/ BlacklistTimer
  BY InAssumption DEF DaemonStep, Broadcast, Unicast, Timeout, ListTimeout, Peer
<1>2. Input \/ Timer
  BY <1>1 DEF RecvRREQ, RecvRREP, RecvRERR, RecvHELLO, RecvRREP_ACK, RtTimer, HelloTimer,
              AckTimer, SeekTimer, RecordTimer, BlacklistTimer
<1>3. Good(n', {}) /\ \E X : Step(X)
  BY <1>1, RecvRREQInv, RecvRREPInv, RecvRERRInv, RecvHELLOInv, RecvAckInv, RtTimerInv,
     HelloTimerInv, OtherHandlersInv
<1> QED BY <1>2, <1>3

LEMMA DaemonStepInv == ASSUME HostInv, DaemonStep PROVE HostInv'
<1>1. Inv /\ inbox \in Seq(HostMsg)
  BY DEF HostInv
<1>2. PICK X : (Input \/ Timer) /\ Good(n', {}) /\ Step(X)
  BY <1>1, DaemonStepGood
<1>3. \/ KernelActs(inbox)
      \/ \E p \in Peer : KernelActs(Append(inbox, RouteUpdate(p, Self)))
  BY DEF DaemonStep, Broadcast, Unicast, Timeout, ListTimeout
<1>4. PICK rest \in Seq(HostMsg) : KernelActs(rest) /\ \A x : Has(inbox, x) => Has(rest, x)
  <2>1. \A p \in Peer : RouteUpdate(p, Self) \in HostMsg
    BY MsgType, InAssumption DEF Peer
  <2>2. ASSUME NEW e \in HostMsg
        PROVE  /\ Append(inbox, e) \in Seq(HostMsg)
               /\ \A x : Has(inbox, x) => Has(Append(inbox, e), x)
    BY <1>1, HasAppend
  <2> QED BY <1>1, <1>3, <2>1, <2>2
<1> QED BY <1>2, <1>4, HandlerInv

LEMMA RestartInv == ASSUME HostInv, HostRestart PROVE HostInv'
<1>1. /\ Restart /\ n' = host_init(Self) /\ queue' = {} /\ inbox' = <<>>
      /\ cache' = [d \in Addr |-> NoAddr]
  BY DEF HostRestart, Restart
<1>2. Inv'
  BY <1>1, NextInv DEF HostInv, Next
<1>3. cache' = n'.expl /\ \A d \in Addr : cache'[d] = NoAddr
  BY <1>1 DEF host_init
<1>4. CacheSound' /\ QueueAwaited'
  BY <1>1, <1>3 DEF CacheSound, QueueAwaited
<1> QED BY <1>1, <1>2, <1>4 DEF HostInv

LEMMA HostNextCases ==
  ASSUME HostNext
  PROVE  \/ \E d \in Peer : LocalOut(d)
         \/ \E s \in Peer, d \in Addr : PreRouting(s, d)
         \/ nl_kaodv_callback \/ DaemonStep \/ HostRestart
BY DEF HostNext, SelectLoop, DaemonStep

LEMMA HostNextInv == HostInv /\ [HostNext]_hostVars => HostInv'
<1> SUFFICES ASSUME HostInv, [HostNext]_hostVars PROVE HostInv'
  OBVIOUS
<1>1. CASE UNCHANGED hostVars
  BY <1>1 DEF HostInv, Inv, TypeOK, NodeSound, Tidy, Counted, Entries, Present, CacheSound,
              QueueAwaited, Valid, hostVars
<1>2. CASE HostNext
  BY <1>2, HostNextCases, LocalOutInv, PreRoutingInv, CallbackInv, DaemonStepInv, RestartInv
<1> QED BY <1>1, <1>2

-----------------------------------------------------------------------------
\* The inductive invariant: at every step of a host, the daemon's table, the
\* kernel's cache and queue and the messages between them fit together.
THEOREM HostInvariance == HostSpec => []HostInv
<1>1. HostInit => HostInv
  BY HostInitInv
<1>2. HostInv /\ [HostNext]_hostVars => HostInv'
  BY HostNextInv
<1> QED BY <1>1, <1>2, PTL DEF HostSpec

\* The kernel module, which sees only the messages of each handler, forwards through
\* next hops of VALID routes of the daemon and no others.
THEOREM CacheIsSound == HostSpec => []CacheSound
<1>1. HostInv => CacheSound
  BY DEF HostInv
<1> QED BY <1>1, HostInvariance, PTL

\* No packet is forgotten in the kernel's queue: an unread request, a discovery or a
\* route of the daemon will decide about it.
THEOREM QueueIsAwaited == HostSpec => []QueueAwaited
<1>1. HostInv => QueueAwaited
  BY DEF HostInv
<1> QED BY <1>1, HostInvariance, PTL

\* Every handler of the daemon tells the kernel of the routes it sets up, replaces
\* and loses and of the discoveries it ends, which is what Kaodv assumes of it.
THEOREM KernelIsTold == HostSpec => KernelTold
<1> DEFINE told(d, op) == {m.hop : m \in {m \in n'.nl : m.op = op /\ m.dest = d}}
           old(d) == IF Valid(n, d) THEN n.rt[d].next ELSE NoAddr
           new(d) == IF Valid(n', d) THEN n'.rt[d].next ELSE NoAddr
           fine(d) ==
             /\ new(d) \notin {old(d), NoAddr} => new(d) \in told(d, "ADDROUTE")
             /\ new(d) # old(d) /\ new(d) = NoAddr => told(d, "DELROUTE") # {}
             /\ new(d) # NoAddr /\ told(d, "DELROUTE") # {} => old(d) = d /\ new(d) # d
             /\ n.seek[d] # NoSeek /\ n'.seek[d] = NoSeek =>
                  new(d) # NoAddr \/ \E m \in n'.nl : m.dest = d
           A == n' # n /\ ~HostRestart => \A d \in Addr : fine(d)
<1>1. HostInv /\ [HostNext]_hostVars => [A]_hostVars
  <2> SUFFICES ASSUME HostInv, HostNext, n' # n, ~HostRestart, NEW d \in Addr
               PROVE  fine(d)
    OBVIOUS
  <2>1. Inv
    BY DEF HostInv
  <2>2. \E X : Step(X)
    BY <2>1, HostNextCases, CallbackStep, DaemonStepGood DEF LocalOut, PreRouting
  <2>3. old(d) = Way(n, d) /\ new(d) = Way(n', d)
    BY DEF Way
  <2> HIDE DEF old, new
  <2> QED BY <2>1, <2>2, <2>3, StepTold
<1>2. [][A]_hostVars => KernelTold
  BY PTL DEF KernelTold
<1> QED BY <1>1, <1>2, HostInvariance, PTL DEF HostSpec
=============================================================================
