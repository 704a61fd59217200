------------------------------ MODULE MainLoop ------------------------------
(***************************************************************************)
(* The select loop of main.c over the timer queue (timer_queue.c), and the *)
(* rate limiter of aodv_socket_send.                                       *)
(*                                                                         *)
(* Time is explicit here and passes in every step of the loop.  What the   *)
(* handlers do is left open, as to timers and messages: any of them sets   *)
(* or removes any timer and sends any message.                             *)
(*                                                                         *)
(* timeval_diff rounds to milliseconds, so the queue is sorted and timers  *)
(* are due only up to one millisecond.                                     *)
(***************************************************************************)
EXTENDS Integers, SequencesExt

CONSTANTS
  Timer,       \* the timers of the daemon that have a handler
  NULL,        \* no timer, no timeout
  Kind,        \* the messages that are limited: AODV_RREQ and AODV_RERR
  MSEC,        \* units of time in a millisecond, 1000 in the program
  Msecs,       \* the delays that the handlers pass to timer_set_timeout
  RATELIMIT,   \* RREQ_RATELIMIT and RERR_RATELIMIT, 10 in the program
  SECOND,      \* milliseconds in a second
  TimeBound,   \* the time at which the handlers stop taking any
  OpBound      \* number of callbacks, timers set or removed, and messages sent

ASSUME LoopAssumption ==
  /\ NULL \notin Timer \cup Int
  /\ MSEC \in Nat \ {0} /\ RATELIMIT \in Nat \ {0} /\ SECOND \in Nat
  /\ Msecs \subseteq Int
  /\ TimeBound \in Nat /\ OpBound \in Nat

VARIABLES
  now,         \* gettimeofday
  tq,          \* the timers that are set, the first to run out first
  exptq,       \* those that timer_timeout has taken out to run their handlers
  timeout,     \* of each timer
  used,        \* of each timer
  pc,          \* where the loop is
  running,     \* the timer whose handler runs, or NULL
  aged,        \* the time at which timer_age_queue began
  entered,     \* the time at which select was called
  remaining,   \* its timeout; NULL if it has none
  ratelimit,   \* rreq_ratelimit and rerr_ratelimit; num_* are their lengths
  sent,        \* history: the times at which messages of a kind were sent
  ops          \* how many callbacks ran, timers were set or removed, messages sent

queue == <<tq, exptq, timeout, used>>
call  == <<aged, entered, remaining>>
limit == <<ratelimit, sent>>
vars  == <<now, queue, pc, running, call, limit, ops>>

Init ==
  /\ now = 0
  /\ tq = <<>> /\ exptq = <<>>
  /\ timeout = [t \in Timer |-> 0] /\ used = [t \in Timer |-> FALSE]
  /\ pc = "age" /\ running = NULL
  /\ aged = 0 /\ entered = 0 /\ remaining = NULL
  /\ ratelimit = [k \in Kind |-> <<>>] /\ sent = [k \in Kind |-> <<>>]
  /\ ops = 0

-----------------------------------------------------------------------------
(***************************************************************************)
(* timer_queue.h and timer_queue.c.                                        *)
(***************************************************************************)
\* C rounds a quotient towards 0
timeval_diff(t1, t2) ==
  IF t1 >= t2 THEN (t1 - t2) \div MSEC ELSE -((t2 - t1) \div MSEC)

\* Slip: at the end, whatever comes before.
Slip_timer_add(s, t, at) == Append(s, t)

\* before the first timer of s that runs out later, with the times at
timer_add(s, t, at) ==
  LET i == SelectInSeq(s, LAMBDA curr : timeval_diff(at[t], at[curr]) < 0)
  IN  InsertAt(s, IF i = 0 THEN Len(s) + 1 ELSE i, t)

\* Slip: a timer that waits for its handler is left there.
Slip_timer_remove(t) ==
  /\ tq' = RemoveFirst(tq, t)
  /\ used' = [used EXCEPT ![t] = FALSE]
  /\ UNCHANGED <<exptq, timeout>>

\* the timer is in one of the two lists, or in none
timer_remove(t) ==
  /\ tq' = RemoveFirst(tq, t) /\ exptq' = RemoveFirst(exptq, t)
  /\ used' = [used EXCEPT ![t] = FALSE]
  /\ UNCHANGED timeout

\* Slip: a negative delay is not refused.
Slip_timer_set_timeout(t, msec) ==
  /\ timeout' = [timeout EXCEPT ![t] = now + msec * MSEC]
  /\ tq' = timer_add(RemoveFirst(tq, t), t, timeout')
  /\ exptq' = RemoveFirst(exptq, t)
  /\ used' = [used EXCEPT ![t] = TRUE]

timer_set_timeout(t, msec) ==
  /\ timeout' = [timeout EXCEPT ![t] = IF msec < 0 THEN now ELSE now + msec * MSEC]
  /\ LET rest == RemoveFirst(tq, t)
     IN  tq' = IF msec < 0 THEN rest ELSE timer_add(rest, t, timeout')
  /\ exptq' = RemoveFirst(exptq, t)
  /\ used' = [used EXCEPT ![t] = msec >= 0]

-----------------------------------------------------------------------------
(***************************************************************************)
(* timer_age_queue and the timer_timeout in it.                            *)
(***************************************************************************)
\* the timers up to the first that is not due are taken out
AgeQueue ==
  /\ pc = "age"
  /\ LET i == SelectInSeq(tq, LAMBDA t : timeval_diff(timeout[t], now) > 0)
         n == IF i = 0 THEN Len(tq) ELSE i - 1
     IN  exptq' = SubSeq(tq, 1, n) /\ tq' = SubSeq(tq, n + 1, Len(tq))
  /\ aged' = now
  /\ pc' = "expire"
  /\ UNCHANGED <<now, timeout, used, running, entered, remaining, limit, ops>>

\* Slip: the used flag is left set.
Slip_CallHandler ==
  /\ pc = "expire" /\ exptq # <<>>
  /\ running' = Head(exptq)
  /\ exptq' = Tail(exptq)
  /\ pc' = "handler"
  /\ UNCHANGED <<now, tq, timeout, used, call, limit, ops>>

CallHandler ==
  /\ pc = "expire" /\ exptq # <<>>
  /\ running' = Head(exptq)
  /\ exptq' = Tail(exptq)
  /\ used' = [used EXCEPT ![Head(exptq)] = FALSE]
  /\ pc' = "handler"
  /\ UNCHANGED <<now, tq, timeout, call, limit, ops>>

\* Slip: the time of the last timer.
Slip_time_left == IF tq = <<>> THEN NULL ELSE timeout[Last(tq)] - aged

\* what timer_age_queue returns, counted from when it began
time_left == IF tq = <<>> THEN NULL ELSE timeout[Head(tq)] - aged

CallSelect ==
  /\ pc = "expire" /\ exptq = <<>>
  /\ remaining' = time_left
  /\ entered' = now
  /\ pc' = "select"
  /\ UNCHANGED <<now, queue, running, aged, limit, ops>>

(***************************************************************************)
(* main: select ends when its timeout is over, or when a socket is         *)
(* readable; then the callbacks of the readable sockets run.               *)
(***************************************************************************)
SelectReturns ==
  /\ pc = "select"
  /\ aged' = 0 /\ entered' = 0 /\ remaining' = NULL
  /\ UNCHANGED <<now, queue, running, limit>>

SelectTimeout ==
  /\ remaining # NULL /\ now >= entered + remaining
  /\ SelectReturns
  /\ pc' = "age" /\ UNCHANGED ops

SelectReadable ==
  /\ ops < OpBound
  /\ SelectReturns
  /\ pc' = "callback" /\ ops' = ops + 1

-----------------------------------------------------------------------------
(***************************************************************************)
(* What handlers and callbacks do.                                         *)
(***************************************************************************)
Operation ==
  /\ pc \in {"handler", "callback"}
  /\ ops < OpBound
  /\ ops' = ops + 1
  /\ UNCHANGED <<now, pc, running, call>>

SetTimeout(t, msec) == Operation /\ timer_set_timeout(t, msec) /\ UNCHANGED limit

RemoveTimer(t) == Operation /\ timer_remove(t) /\ UNCHANGED limit

\* Slip: the times are not moved down.
Slip_stamp(s) ==
  IF Len(s) < RATELIMIT THEN Append(s, now) ELSE [s EXCEPT ![RATELIMIT] = now]

\* the times of the last RATELIMIT messages
stamp(s) == Append(IF Len(s) < RATELIMIT THEN s ELSE Tail(s), now)

\* aodv_socket_send, as far as ratelimit goes
Send(k) ==
  /\ Operation
  /\ IF Len(ratelimit[k]) = RATELIMIT /\ timeval_diff(now, ratelimit[k][1]) < SECOND
       THEN UNCHANGED limit
       ELSE /\ ratelimit' = [ratelimit EXCEPT ![k] = stamp(@)]
            /\ sent' = [sent EXCEPT ![k] = Append(@, now)]
  /\ UNCHANGED queue

Return ==
  /\ pc \in {"handler", "callback"}
  /\ pc' = IF pc = "handler" THEN "expire" ELSE "age"
  /\ running' = NULL
  /\ UNCHANGED <<now, queue, call, limit, ops>>

(***************************************************************************)
(* Time passes; select does not outlast its timeout.  From TimeBound on,   *)
(* only select takes time.                                                 *)
(***************************************************************************)
Tick ==
  /\ IF pc = "select" /\ remaining # NULL THEN now < entered + remaining
                                          ELSE now < TimeBound
  /\ now' = now + 1
  /\ UNCHANGED <<queue, pc, running, call, limit, ops>>

Loop == AgeQueue \/ CallHandler \/ CallSelect \/ SelectTimeout \/ Return

Next ==
  \/ Loop \/ Tick \/ SelectReadable
  \/ \E t \in Timer : RemoveTimer(t) \/ \E msec \in Msecs : SetTimeout(t, msec)
  \/ \E k \in Kind : Send(k)

Spec == Init /\ [][Next]_vars

\* The loop never blocks but in select, every handler returns, and time passes.
Fairness == WF_vars(Loop) /\ WF_vars(Tick)

FairSpec == Spec /\ Fairness

-----------------------------------------------------------------------------
(***************************************************************************)
(* Properties                                                              *)
(***************************************************************************)
\* Every variable keeps its type; no time is negative.
TypeOK ==
  /\ now \in Nat
  /\ tq \in Seq(Timer) /\ exptq \in Seq(Timer)
  /\ timeout \in [Timer -> Nat] /\ used \in [Timer -> BOOLEAN]
  /\ pc \in {"age", "expire", "handler", "select", "callback"}
  /\ running \in Timer \cup {NULL}
  /\ aged \in Nat /\ entered \in Nat /\ remaining \in Nat \cup {NULL}
  /\ ratelimit \in [Kind -> Seq(Nat)] /\ sent \in [Kind -> Seq(Nat)]
  /\ ops \in 0 .. OpBound

\* "the list have to sort" (timer_queue.c:103): no timer of the queue is before one
\* that runs out a millisecond earlier, however often timers are set again while
\* the comparison of timer_add rounds.
NearlySorted ==
  \A i, j \in 1 .. Len(tq) : i < j => timeout[tq[i]] < timeout[tq[j]] + MSEC

\* A timer has its used flag set exactly while it is in one of the two lists, and
\* in one place of it: a handler may remove or set again a timer that waits with it
\* in the private list of timer_timeout without breaking either list.
Linked ==
  LET all == tq \o exptq
  IN  /\ \A t \in Timer : used[t] <=> Contains(all, t)
      /\ \A i, j \in 1 .. Len(all) : all[i] = all[j] => i = j

\* select is never asked to sleep past the time of a timer, but for less than a
\* millisecond and for the time that the handlers of the last pass took; and its
\* timeout is not negative.
Punctual ==
  pc = "select" => \A t \in Timer : used[t] =>
    remaining # NULL /\ remaining >= 0 /\ aged + remaining < timeout[t] + MSEC

\* "limit the package num send every second" (aodv_socket.c:31): no RATELIMIT + 1
\* messages of a kind are sent within a second.
RateLimited ==
  \A k \in Kind : \A i \in 1 .. Len(sent[k]) - RATELIMIT :
    sent[k][i + RATELIMIT] - sent[k][i] >= SECOND * MSEC

\* The loop and its two lists implement timers that run out one by one: a handler
\* is called once for a timer that is set, when it is due, also when others of the
\* same pass have been called before it; and it is called in the end.
Abstract == INSTANCE Timers WITH
  due <- [t \in Timer |-> IF used[t] THEN timeout[t] ELSE NULL],
  Delay <- {msec * MSEC : msec \in Msecs \cap Nat}

ImplementsTimers == Abstract!FairSpec
=============================================================================
