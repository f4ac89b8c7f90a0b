---------------------------- MODULE ConnCounter ----------------------------
(***************************************************************************)
(* The connection counter of the gotty server (server/handler_atomic.go):  *)
(* a count and a sync.WaitGroup kept in step under one mutex, and an idle  *)
(* timer that is stopped while the count is positive.  Every method body   *)
(* runs under the mutex, so it is one operation here, except Wait, which   *)
(* takes no lock and parks its caller.                                     *)
(*                                                                         *)
(* Two libraries are modelled with it, as this code uses them.  A          *)
(* time.Timer is `armed' and, once it fires, leaves one value in its       *)
(* channel (`tick'), which Stop and Reset do not take back.  A parked      *)
(* Wait is first `released' by the Done that reaches zero and reads the    *)
(* counter again when it is scheduled: finding it positive it panics       *)
(* ("WaitGroup is reused before previous Wait has returned").              *)
(***************************************************************************)
EXTENDS Integers

VARIABLES
  duration,     \* counter.duration, in units where only the sign matters
  connections,  \* counter.connections
  wg,           \* the count inside counter.wg
  armed,        \* zeroTimer is running
  tick,         \* zeroTimer.C holds a value
  waiter        \* the one caller of counter.wait

counterVars == <<duration, connections, wg, armed, tick, waiter>>

WaiterStates == {"idle", "parked", "released", "returned", "panicked"}

CounterTypeOK ==
  /\ duration \in Int
  /\ connections \in Nat
  /\ wg \in Nat
  /\ armed \in BOOLEAN
  /\ tick \in BOOLEAN
  /\ waiter \in WaiterStates

\* A zero duration fires at once and newCounter takes the value away; a
\* negative one fires at once as well and stays in the channel.
NewCounter(d) ==
  /\ duration = d
  /\ connections = 0
  /\ wg = 0
  /\ armed = (d # 0)
  /\ tick = FALSE
  /\ waiter = "idle"

\* counter.add(1)
Add ==
  /\ armed' = (armed /\ duration <= 0)
  /\ wg' = wg + 1
  /\ connections' = connections + 1
  /\ UNCHANGED <<duration, tick, waiter>>

\* Variants of done that a mistake could have produced: one restarts the
\* timer whoever leaves, one never does.
DoneAlwaysResets ==
  /\ connections' = connections - 1
  /\ wg' = wg - 1
  /\ armed' = (armed \/ duration > 0)
  /\ waiter' = IF waiter = "parked" /\ wg' = 0 THEN "released" ELSE waiter
  /\ UNCHANGED <<duration, tick>>

DoneNeverResets ==
  /\ connections' = connections - 1
  /\ wg' = wg - 1
  /\ waiter' = IF waiter = "parked" /\ wg' = 0 THEN "released" ELSE waiter
  /\ UNCHANGED <<duration, armed, tick>>

\* counter.done()
Done ==
  /\ connections' = connections - 1
  /\ wg' = wg - 1
  /\ armed' = (armed \/ (connections' = 0 /\ duration > 0))
  /\ waiter' = IF waiter = "parked" /\ wg' = 0 THEN "released" ELSE waiter
  /\ UNCHANGED <<duration, tick>>

\* counter.wait(), as far as it goes without blocking
Wait ==
  /\ waiter = "idle"
  /\ waiter' = IF wg = 0 THEN "returned" ELSE "parked"
  /\ UNCHANGED <<duration, connections, wg, armed, tick>>

\* the parked caller is scheduled again
Wake ==
  /\ waiter = "released"
  /\ waiter' = IF wg = 0 THEN "returned" ELSE "panicked"
  /\ UNCHANGED <<duration, connections, wg, armed, tick>>

\* the runtime delivers the expiry of zeroTimer
TimerFires ==
  /\ armed
  /\ armed' = FALSE
  /\ tick' = TRUE
  /\ UNCHANGED <<duration, connections, wg, waiter>>

\* a receive from counter.timer().C
TakeTick ==
  /\ tick
  /\ tick' = FALSE
  /\ UNCHANGED <<duration, connections, wg, armed, waiter>>
=============================================================================
