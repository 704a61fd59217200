------------------------------- MODULE Timers -------------------------------
(***************************************************************************)
(* What the daemon's handlers rely on of timer_queue.c, without the queue: *)
(* a timer that is set runs its handler once, not before its time (less    *)
(* one millisecond, the resolution of timeval_diff), unless it is set      *)
(* again or removed first; and it does run it.  AodvDaemon's timers, which *)
(* are flags that a step clears, are an abstraction of these.              *)
(***************************************************************************)
EXTENDS Integers

CONSTANTS
  Timer,   \* the timers of the daemon
  NULL,    \* no timer, no time
  MSEC,    \* units of time in a millisecond
  Delay    \* the delays that timers are set to

VARIABLES
  now,      \* the time of day
  due,      \* when each timer runs out; NULL for one that is not set
  running   \* the timer whose handler is running, or NULL

vars == <<now, due, running>>

Init == now = 0 /\ due = [t \in Timer |-> NULL] /\ running = NULL

Tick == now' = now + 1 /\ UNCHANGED <<due, running>>

Set(t, delay) == due' = [due EXCEPT ![t] = now + delay] /\ UNCHANGED <<now, running>>

Cancel(t) == due' = [due EXCEPT ![t] = NULL] /\ UNCHANGED <<now, running>>

Fire(t) ==
  /\ running = NULL
  /\ due[t] # NULL /\ due[t] < now + MSEC
  /\ running' = t
  /\ due' = [due EXCEPT ![t] = NULL]
  /\ UNCHANGED now

Return == running' = NULL /\ UNCHANGED <<now, due>>

Next ==
  \/ Tick \/ Return
  \/ \E t \in Timer : Cancel(t) \/ Fire(t) \/ \E delay \in Delay : Set(t, delay)

Spec == Init /\ [][Next]_vars

Fairness == \A t \in Timer : WF_vars(Fire(t))

FairSpec == Spec /\ Fairness
=============================================================================
