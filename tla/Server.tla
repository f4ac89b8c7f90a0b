------------------------------- MODULE Server -------------------------------
(***************************************************************************)
(* The life of one gotty server process: main.go's signal loop, Server.Run *)
(* with its helper goroutines (server/server.go), the websocket handler    *)
(* (server/handlers.go) and the connection counter they share.             *)
(*                                                                         *)
(* An element of Clients is one TCP connection that may carry one          *)
(* websocket request.  handler[c] is how far the goroutine that serves it  *)
(* has come:                                                               *)
(*   none          not connected                                           *)
(*   accepted      taken by the listener; its request may come any time    *)
(*   refused       closed, or answered 503, before it was counted          *)
(*   claimed       won the compare-and-swap of --once, not counted yet     *)
(*   upgrading     counted and within the connection limit                 *)
(*   awaitInit     upgraded; processWSConn blocks in conn.ReadMessage      *)
(*   running       has a slave; inside webtty.Run                          *)
(*   closingSlave  webtty.Run is over; the deferred slave.Close blocks     *)
(*   leaving       about to call the deferred counter.done                 *)
(*   cancelling    counted out; --once makes it cancel the server          *)
(*   gone          finished                                                *)
(*                                                                         *)
(* The process ends when main returns or exits, or when a goroutine        *)
(* panics: every action needs a live process.                              *)
(***************************************************************************)
EXTENDS ConnCounter, FiniteSets

CONSTANTS
  Clients,  \* the connections of a behaviour
  Configs   \* the settings considered for --once, --max-connection, --timeout

ASSUME ClientsAssumption == IsFiniteSet(Clients)

ASSUME ConfigsAssumption ==
  Configs \subseteq [once : BOOLEAN, max : Int, timeout : Int]

VARIABLES
  options,       \* the settings this process was started with
  once,          \* the flag swapped by the handler under --once
  handler,       \* the handler goroutine of each connection
  slave,         \* the command process of each connection
  cancelled,     \* cctx is done
  gracefulDone,  \* gracefulCtx is done
  gwatch,        \* the goroutine of Run that waits for gracefulCtx
  http,          \* the http.Server
  serving,       \* the goroutine that calls srv.Serve has not returned
  srvErr,        \* the channel srvErr
  err,           \* the variable err of Run, shared with that goroutine
  runPc,         \* where Server.Run is
  errs,          \* the channel errs of main
  mainPc,        \* where waitSignals is
  sigChan        \* the channel sigChan of waitSignals

runVars == <<gwatch, http, serving, srvErr, err, runPc>>
mainVars == <<errs, mainPc, sigChan>>
vars == <<counterVars, options, once, handler, slave, cancelled,
          gracefulDone, runVars, mainVars>>

HandlerStates ==
  {"none", "accepted", "refused", "claimed", "upgrading", "awaitInit",
   "running", "closingSlave", "leaving", "cancelling", "gone"}

Errors == {"none", "ErrServerClosed", "Canceled", "error"}

TypeOK ==
  /\ CounterTypeOK
  /\ options \in Configs
  /\ once \in BOOLEAN
  /\ handler \in [Clients -> HandlerStates]
  /\ slave \in [Clients -> {"none", "alive", "dead"}]
  /\ cancelled \in BOOLEAN
  /\ gracefulDone \in BOOLEAN
  /\ gwatch \in {"watching", "done"}
  /\ http \in {"serving", "failed", "shutdown", "closed"}
  /\ serving \in BOOLEAN
  /\ srvErr \in {"none", "ErrServerClosed", "error"}
  /\ err \in Errors
  /\ runPc \in {"select", "closing", "wait", "returned"}
  /\ errs \in Errors \cup {"empty"}
  /\ mainPc \in {"running", "graceful", "cancelling", "exited", "failed"}
  /\ sigChan \in {"none", "SIGINT", "SIGTERM"}

\* The handlers between counter.add and counter.done.
Counted ==
  {c \in Clients : handler[c] \in
     {"upgrading", "awaitInit", "running", "closingSlave", "leaving"}}

\* The handlers that passed the limit and have a client to serve.
Admitted ==
  {c \in Clients : handler[c] \in
     {"upgrading", "awaitInit", "running", "closingSlave"}}

\* The handlers that own a websocket: they may have, or get, a slave.
InSession ==
  {c \in Clients : handler[c] \in {"awaitInit", "running", "closingSlave"}}

Alive == mainPc \notin {"exited", "failed"} /\ waiter # "panicked"

Init ==
  /\ options \in Configs
  /\ NewCounter(options.timeout)
  /\ once = FALSE
  /\ handler = [c \in Clients |-> "none"]
  /\ slave = [c \in Clients |-> "none"]
  /\ cancelled = FALSE
  /\ gracefulDone = FALSE
  /\ gwatch = "watching"
  /\ http = "serving"
  /\ serving = TRUE
  /\ srvErr = "none"
  /\ err = "none"
  /\ runPc = "select"
  /\ errs = "empty"
  /\ mainPc = "running"
  /\ sigChan = "none"

-----------------------------------------------------------------------------
(* The websocket handler, one goroutine for each connection.               *)

Goto(c, from, to) ==
  /\ handler[c] = from
  /\ handler' = [handler EXCEPT ![c] = to]

\* The listener takes a connection.
Accept(c) ==
  /\ http = "serving"
  /\ Goto(c, "none", "accepted")
  /\ UNCHANGED <<counterVars, options, once, slave, cancelled, gracefulDone,
                 runVars, mainVars>>

\* The client leaves, or Shutdown or Close drops the idle connection.
Drop(c) ==
  /\ Goto(c, "accepted", "refused")
  /\ UNCHANGED <<counterVars, options, once, slave, cancelled, gracefulDone,
                 runVars, mainVars>>

\* A mistake in its place: a refusal that counts out a connection that was never
\* counted in.
ClaimOnceCountsOut(c) ==
  /\ options.once
  /\ Goto(c, "accepted", IF once THEN "refused" ELSE "claimed")
  /\ once' = TRUE
  /\ IF once THEN Done ELSE UNCHANGED counterVars
  /\ UNCHANGED <<options, slave, cancelled, gracefulDone, runVars, mainVars>>

\* if server.options.Once: CompareAndSwapInt64(once, 0, 1)
ClaimOnce(c) ==
  /\ options.once
  /\ Goto(c, "accepted", IF once THEN "refused" ELSE "claimed")
  /\ once' = TRUE
  /\ UNCHANGED <<counterVars, options, slave, cancelled, gracefulDone,
                 runVars, mainVars>>

\* A mistake in its place: the limit compared with the number before the add.
OverLimitLate(num) == options.max # 0 /\ num - 1 > options.max

\* num > server.options.MaxConnection, num being what counter.add returned
OverLimit(num) == options.max # 0 /\ num > options.max

\* A mistake in its place: the refusals return before done is deferred.
CountInForgets(c) ==
  /\ Add
  /\ \/ /\ ~OverLimit(connections')
        /\ Goto(c, IF options.once THEN "claimed" ELSE "accepted", "upgrading")
     \/ Goto(c, IF options.once THEN "claimed" ELSE "accepted", "gone")
  /\ UNCHANGED <<options, once, slave, cancelled, gracefulDone,
                 runVars, mainVars>>

\* num := counter.add(1), then the checks of the limit and of the method:
\* the answer to either is the deferred counter.done.
CountIn(c) ==
  /\ Add
  /\ \/ /\ ~OverLimit(connections')
        /\ Goto(c, IF options.once THEN "claimed" ELSE "accepted", "upgrading")
     \/ Goto(c, IF options.once THEN "claimed" ELSE "accepted", "leaving")
  /\ UNCHANGED <<options, once, slave, cancelled, gracefulDone,
                 runVars, mainVars>>

\* A mistake in its place: the upgrade of a connection that was closed.
UpgradeLate(c) ==
  /\ Goto(c, "upgrading", "awaitInit")
  /\ UNCHANGED <<counterVars, options, once, slave, cancelled, gracefulDone,
                 runVars, mainVars>>

\* upgrader.Upgrade takes the connection from the http.Server, which fails
\* on a connection that srv.Close has closed.
UpgradeOk(c) ==
  /\ http # "closed"
  /\ Goto(c, "upgrading", "awaitInit")
  /\ UNCHANGED <<counterVars, options, once, slave, cancelled, gracefulDone,
                 runVars, mainVars>>

UpgradeFails(c) ==
  /\ Goto(c, "upgrading", "leaving")
  /\ UNCHANGED <<counterVars, options, once, slave, cancelled, gracefulDone,
                 runVars, mainVars>>

\* The first message authenticates the client: factory.New starts a slave.
InitAccepted(c) ==
  /\ Goto(c, "awaitInit", "running")
  /\ slave' = [slave EXCEPT ![c] = "alive"]
  /\ UNCHANGED <<counterVars, options, once, cancelled, gracefulDone,
                 runVars, mainVars>>

\* The client closes, its message is not a valid one, or the slave does not
\* start.  ReadMessage has no deadline and does not look at ctx.
InitRejected(c) ==
  /\ Goto(c, "awaitInit", "leaving")
  /\ UNCHANGED <<counterVars, options, once, slave, cancelled, gracefulDone,
                 runVars, mainVars>>

\* webtty.Run returns: the client or the slave is gone, or pings stopped.
TtyEnds(c) ==
  /\ Goto(c, "running", "closingSlave")
  /\ UNCHANGED <<counterVars, options, once, slave, cancelled, gracefulDone,
                 runVars, mainVars>>

\* A mistake in its place: ctx is looked at only when the slave has ended.
TtyCancelledLate(c) ==
  /\ cancelled
  /\ slave[c] = "dead"
  /\ TtyEnds(c)

\* webtty.Run returns ctx.Err().
TtyCancelled(c) ==
  /\ cancelled
  /\ TtyEnds(c)

\* The command exits, by itself or by the signals of slave.Close.
SlaveExits(c) ==
  /\ slave[c] = "alive"
  /\ slave' = [slave EXCEPT ![c] = "dead"]
  /\ UNCHANGED <<counterVars, options, once, handler, cancelled,
                 gracefulDone, runVars, mainVars>>

\* A mistake in its place: a close that signals the command and does not wait.
CloseAtOnce(c) ==
  /\ Goto(c, "closingSlave", "leaving")
  /\ UNCHANGED <<counterVars, options, once, slave, cancelled, gracefulDone,
                 runVars, mainVars>>

\* slave.Close returns once the command has been waited for.
CloseReturns(c) ==
  /\ slave[c] = "dead"
  /\ Goto(c, "closingSlave", "leaving")
  /\ UNCHANGED <<counterVars, options, once, slave, cancelled, gracefulDone,
                 runVars, mainVars>>

\* the deferred counter.done()
CountOut(c) ==
  /\ Goto(c, "leaving", IF options.once THEN "cancelling" ELSE "gone")
  /\ Done
  /\ UNCHANGED <<options, once, slave, cancelled, gracefulDone,
                 runVars, mainVars>>

\* A mistake in its place: the deferred function does not cancel.
CancelOnceForgets(c) ==
  /\ Goto(c, "cancelling", "gone")
  /\ UNCHANGED <<counterVars, options, once, slave, cancelled, gracefulDone,
                 runVars, mainVars>>

\* if server.options.Once: cancel()
CancelOnce(c) ==
  /\ Goto(c, "cancelling", "gone")
  /\ cancelled' = TRUE
  /\ UNCHANGED <<counterVars, options, once, slave, gracefulDone,
                 runVars, mainVars>>

Handler(c) ==
  \/ Accept(c) \/ Drop(c) \/ ClaimOnce(c) \/ CountIn(c)
  \/ UpgradeOk(c) \/ UpgradeFails(c) \/ InitAccepted(c) \/ InitRejected(c)
  \/ TtyEnds(c) \/ TtyCancelled(c) \/ SlaveExits(c) \/ CloseReturns(c)
  \/ CountOut(c) \/ CancelOnce(c)

-----------------------------------------------------------------------------
(* The idle timer.                                                         *)

Timer ==
  /\ TimerFires
  /\ UNCHANGED <<options, once, handler, slave, cancelled, gracefulDone,
                 runVars, mainVars>>

\* The goroutine of generateHandleWS: timer.C cancels, ctx.Done ends it.
TimerWatcher ==
  /\ ~cancelled
  /\ TakeTick
  /\ cancelled' = TRUE
  /\ UNCHANGED <<options, once, handler, slave, gracefulDone,
                 runVars, mainVars>>

-----------------------------------------------------------------------------
(* Server.Run.                                                             *)

\* srv.Serve returns after Shutdown or Close; err is written here and read
\* and written by Run with nothing to order the two.
ServeReturns ==
  /\ serving
  /\ http \in {"shutdown", "closed"}
  /\ serving' = FALSE
  /\ err' = "ErrServerClosed"
  /\ srvErr' = "ErrServerClosed"
  /\ UNCHANGED <<counterVars, options, once, handler, slave, cancelled,
                 gracefulDone, gwatch, http, runPc, mainVars>>

\* srv.Serve or ServeTLS fails: the listener is closed, connections stay.
ServeFails ==
  /\ serving
  /\ http = "serving"
  /\ http' = "failed"
  /\ serving' = FALSE
  /\ err' = "error"
  /\ srvErr' = "error"
  /\ UNCHANGED <<counterVars, options, once, handler, slave, cancelled,
                 gracefulDone, gwatch, runPc, mainVars>>

\* A mistake in its place: the watcher ends without the shutdown.
GracefulShutdownForgets ==
  /\ gwatch = "watching"
  /\ gracefulDone
  /\ gwatch' = "done"
  /\ UNCHANGED <<counterVars, options, once, handler, slave, cancelled,
                 gracefulDone, http, serving, srvErr, err, runPc, mainVars>>

\* case <-opts.gracefulCtx.Done(): srv.Shutdown
GracefulShutdown ==
  /\ gwatch = "watching"
  /\ gracefulDone
  /\ gwatch' = "done"
  /\ http' = IF http = "closed" THEN "closed" ELSE "shutdown"
  /\ UNCHANGED <<counterVars, options, once, handler, slave, cancelled,
                 gracefulDone, serving, srvErr, err, runPc, mainVars>>

\* case <-cctx.Done() of the same goroutine
GracefulWatchEnds ==
  /\ gwatch = "watching"
  /\ cancelled
  /\ gwatch' = "done"
  /\ UNCHANGED <<counterVars, options, once, handler, slave, cancelled,
                 gracefulDone, http, serving, srvErr, err, runPc, mainVars>>

\* case err = <-srvErr
RunServeErr ==
  /\ runPc = "select"
  /\ srvErr # "none"
  /\ srvErr' = "none"
  /\ IF srvErr = "ErrServerClosed"
     THEN err' = "none" /\ UNCHANGED cancelled
     ELSE err' = srvErr /\ cancelled' = TRUE
  /\ runPc' = "wait"
  /\ UNCHANGED <<counterVars, options, once, handler, slave, gracefulDone,
                 gwatch, http, serving, mainVars>>

\* case <-cctx.Done(): srv.Close()
RunClose ==
  /\ runPc = "select"
  /\ cancelled
  /\ http' = "closed"
  /\ runPc' = "closing"
  /\ UNCHANGED <<counterVars, options, once, handler, slave, cancelled,
                 gracefulDone, gwatch, serving, srvErr, err, mainVars>>

\* err = cctx.Err()
RunCtxErr ==
  /\ runPc = "closing"
  /\ err' = "Canceled"
  /\ runPc' = "wait"
  /\ UNCHANGED <<counterVars, options, once, handler, slave, cancelled,
                 gracefulDone, gwatch, http, serving, srvErr, mainVars>>

\* counter.wait()
RunWait ==
  /\ runPc = "wait"
  /\ Wait
  /\ UNCHANGED <<options, once, handler, slave, cancelled, gracefulDone,
                 runVars, mainVars>>

RunWake ==
  /\ runPc = "wait"
  /\ Wake
  /\ UNCHANGED <<options, once, handler, slave, cancelled, gracefulDone,
                 runVars, mainVars>>

\* errs <- srv.Run(...): err is read after the wait
RunReturns ==
  /\ runPc = "wait"
  /\ waiter = "returned"
  /\ runPc' = "returned"
  /\ errs' = err
  /\ UNCHANGED <<counterVars, options, once, handler, slave, cancelled,
                 gracefulDone, gwatch, http, serving, srvErr, err, mainPc,
                 sigChan>>

Run ==
  \/ ServeReturns \/ ServeFails \/ GracefulShutdown \/ GracefulWatchEnds
  \/ RunServeErr \/ RunClose \/ RunCtxErr \/ RunWait \/ RunWake \/ RunReturns

-----------------------------------------------------------------------------
(* main and waitSignals.                                                   *)

\* signal.Notify drops a signal when the channel is full.
Signal ==
  /\ sigChan = "none"
  /\ sigChan' \in {"SIGINT", "SIGTERM"}
  /\ UNCHANGED <<counterVars, options, once, handler, slave, cancelled,
                 gracefulDone, runVars, errs, mainPc>>

\* The first SIGINT cancels gracefulCtx; SIGTERM, or any second signal,
\* cancels ctx, after which no signal is read any more.
MainSignal ==
  /\ sigChan # "none"
  /\ \/ /\ mainPc = "running"
        /\ sigChan = "SIGINT"
        /\ mainPc' = "graceful"
        /\ gracefulDone' = TRUE
        /\ UNCHANGED cancelled
     \/ /\ mainPc = "graceful" \/ (mainPc = "running" /\ sigChan = "SIGTERM")
        /\ mainPc' = "cancelling"
        /\ cancelled' = TRUE
        /\ UNCHANGED gracefulDone
  /\ sigChan' = "none"
  /\ UNCHANGED <<counterVars, options, once, handler, slave, runVars, errs>>

\* err := <-errs: exit code 8 unless it is nil or context.Canceled
MainErr ==
  /\ mainPc \in {"running", "graceful", "cancelling"}
  /\ errs # "empty"
  /\ mainPc' = IF errs \in {"none", "Canceled"} THEN "exited" ELSE "failed"
  /\ errs' = "empty"
  /\ UNCHANGED <<counterVars, options, once, handler, slave, cancelled,
                 gracefulDone, runVars, sigChan>>

Main == Signal \/ MainSignal \/ MainErr

-----------------------------------------------------------------------------
Next ==
  /\ Alive
  /\ \/ \E c \in Clients : Handler(c)
     \/ Timer
     \/ TimerWatcher
     \/ Run
     \/ Main

Spec == Init /\ [][Next]_vars

-----------------------------------------------------------------------------
(* Fairness: what the Go scheduler, the timers and the kernel guarantee.    *)
(* Clients, signals and a failing listener owe nothing, and neither does a  *)
(* request on an accepted connection.                                       *)

\* The steps of a handler goroutine that wait for nobody's good will.  A
\* slave that is being closed dies: slave.Close repeats SIGKILL.
HandlerRuns(c) ==
  \/ handler[c] = "claimed" /\ CountIn(c)
  \/ UpgradeOk(c) \/ UpgradeFails(c)
  \/ TtyCancelled(c)
  \/ CloseReturns(c)
  \/ CountOut(c)
  \/ CancelOnce(c)

SlaveKilled(c) == handler[c] = "closingSlave" /\ SlaveExits(c)

RunGoroutine ==
  RunServeErr \/ RunClose \/ RunCtxErr \/ RunWait \/ RunWake \/ RunReturns

Fairness ==
  /\ \A c \in Clients : /\ WF_vars(Alive /\ HandlerRuns(c))
                        /\ WF_vars(Alive /\ SlaveKilled(c))
  /\ WF_vars(Alive /\ Timer)
  /\ WF_vars(Alive /\ TimerWatcher)
  /\ WF_vars(Alive /\ ServeReturns)
  /\ WF_vars(Alive /\ (GracefulShutdown \/ GracefulWatchEnds))
  /\ WF_vars(Alive /\ RunGoroutine)
  /\ WF_vars(Alive /\ (MainSignal \/ MainErr))

FairSpec == Spec /\ Fairness

-----------------------------------------------------------------------------
(* Safety.                                                                  *)

\* The count that the limit, the idle timer and the shutdown rely on is, at
\* every moment, the number of handlers between add and done, and so is the
\* count inside the WaitGroup (handler_atomic.go:31-55): no path through
\* generateHandleWS, refusals and failures included, loses or doubles a done.
CounterExact ==
  /\ connections = Cardinality(Counted)
  /\ wg = Cardinality(Counted)

\* --max-connection bounds the clients served at any moment, however their
\* handlers interleave between counter.add and the check of the number it
\* returned (handlers.go:45-65).  0 is no limit.
MaxRespected ==
  options.max # 0 =>
    Cardinality(Admitted) <= IF options.max > 0 THEN options.max ELSE 0

\* --once lets at most one connection past the compare-and-swap in the whole
\* life of the process, whether it is being served or gone (handlers.go:37-43).
OnceAdmitsOne ==
  options.once =>
    Cardinality({c \in Clients :
                   handler[c] \notin {"none", "accepted", "refused"}}) <= 1

\* The idle timer does not run while a client is counted, so that it cannot
\* start to expire under a session (handler_atomic.go:31-55).  A negative
\* --timeout is excluded: add does not stop that timer.
TimerStoppedWhileConnected ==
  duration >= 0 /\ armed => connections = 0

\* After a forced stop (srv.Close, server.go:195-204) the wait of Run covers
\* every command: when it returns none is left running, not even that of a
\* request which was being upgraded when the server closed.
ForcedStopLeavesNoSlave ==
  http = "closed" /\ waiter = "returned" => \A c \in Clients : slave[c] # "alive"

\* After a graceful stop, and nothing else, the wait of Run covers every command:
\* run_option.go:15-16 promises that it takes care of the existing connections. A
\* handler that counts itself in after the wait (server.go:204 against
\* handlers.go:45) still has one.
DrainLeavesNoSession ==
  gracefulDone /\ ~cancelled /\ waiter = "returned" =>
    \A c \in Clients : slave[c] # "alive"

\* ErrServerClosed is the outcome of the graceful context and of nothing else
\* (server.go:190), and there it becomes nil: the process never fails with it.
ServerClosedIsNoFailure ==
  mainPc = "failed" => err # "ErrServerClosed"

\* What is right about the two stops all the same.  At the moment the wait of Run
\* is over no command is running: one that runs later belongs to a handler that
\* counted itself in after that moment (server.go:204, handlers.go:45).
WaitEndsEmpty ==
  [][waiter # "returned" /\ waiter' = "returned" =>
       \A c \in Clients : slave[c] # "alive" /\ slave'[c] # "alive"]_vars

\* And a process that was only asked to stop gracefully does not fail, in spite of
\* the variable err that two goroutines write: before it does, the listener has
\* failed or a stop was forced, and either cancels (server.go:170-204).
FailsOnlyCancelled == mainPc = "failed" => cancelled

-----------------------------------------------------------------------------
(* What the server promises, seen from outside.                             *)

\* A connection that was refused before it could win the swap has not asked.
ClientState ==
  [c \in Clients |->
     CASE handler[c] \in {"none", "accepted", "refused"} -> "out"
       [] handler[c] \in {"claimed", "upgrading"} -> "waiting"
       [] c \in InSession -> "in"
       [] OTHER -> "left"]

Door == INSTANCE Admission
          WITH max <- options.max, single <- options.once,
               client <- ClientState, closed <- http = "closed",
               over <- http = "closed" /\ waiter = "returned"

\* However handlers, signals, the idle timer and the goroutines of Run
\* interleave, the server keeps the promise of Admission: nobody gets a session
\* beyond the limit, a second one with --once, or one after srv.Close, and a
\* closed server is not over while somebody has one (handlers.go:36-83,
\* server.go:188-204).
KeepsDoor == Door!Spec

-----------------------------------------------------------------------------
(* Liveness.                                                                *)

Stopped == ~Alive

\* A client that was upgraded is yet to send its first message.
SomeoneSilent == \E c \in Clients : handler[c] = "awaitInit"

SomeoneConnected == \E c \in Clients : handler[c] \in {"awaitInit", "running"}

\* With --timeout, a server that nobody uses stops (handlers.go:28-34).
IdleServerStops ==
  (options.timeout > 0 /\ connections = 0) ~> (connections > 0 \/ Stopped)

\* A cancelled server aborts its sessions and the process ends, unless some
\* client keeps silent after the upgrade for ever (server.go:109-110,
\* handlers.go:101).
CancelledServerStops ==
  [](cancelled => <>(Stopped \/ []SomeoneSilent))

\* A graceful stop ends the process when the clients have left, whatever
\* signals, timers and failures come in between (server.go:180-204).
GracefulServerStops ==
  [](gracefulDone => <>(Stopped \/ []SomeoneConnected))

\* --once: the process ends after its only client has disconnected
\* (handlers.go:55-57).
OnceServerStops ==
  \A c \in Clients : handler[c] = "cancelling" ~> Stopped
=============================================================================
