------------------------------- MODULE WebTTY -------------------------------
(***************************************************************************)
(* One session: webtty.Run with its three goroutines (webtty/webtty.go)    *)
(* between a websocket (server/ws_wrapper.go) and a command, and the       *)
(* deferred calls of the handler that close the command and then the       *)
(* websocket (server/handlers.go:81, 151).                                 *)
(*                                                                         *)
(* The websocket: `toClient' holds what the browser has not read, each     *)
(* message as the number of its chunk of output, or 0 for a pong or one of *)
(* the initial messages; `toServer' holds what the server has not read.    *)
(* Input is numbered by units, and a message of input carries those from   *)
(* lo to hi.  Both queues are bounded, and neither side has a deadline.    *)
(***************************************************************************)
EXTENDS LocalCommand, Sequences

CONSTANTS
  Configs,      \* the settings considered
  Control,      \* the kinds of messages clients send besides input
  NetCap,       \* messages in flight to the client
  ClientCap,    \* messages in flight to the server
  MaxIn,        \* bound on the units of input typed
  Sizes,        \* units of input in one message
  CheckPeriod,  \* the sleep of the ping goroutine, 30 seconds
  LostPing      \* lostPingTimeout, 180 seconds

\* A title, and perhaps the time to reconnect and preferences: the initial
\* messages fit into an empty connection.
ASSUME WebAssumption ==
  /\ Configs \subseteq [permitWrite : BOOLEAN, fixed : BOOLEAN, messages : 1 .. 3]
  /\ Control \subseteq {"ping", "resize", "binary", "empty", "malformed"}
  /\ NetCap \in Nat /\ \A o \in Configs : o.messages <= NetCap
  /\ ClientCap \in Nat \ {0}
  /\ MaxIn \in Nat
  /\ Sizes \subseteq Nat \ {0}
  /\ CheckPeriod \in Nat \ {0}
  /\ LostPing \in Nat

VARIABLES
  options,    \* permitWrite, fixed columns and rows, how many initial messages
  cancelled,  \* ctx is done
  run,        \* Run, then the deferred calls of the handler
  runErr,     \* what Run returns
  initSent,   \* initial messages sent
  errs,       \* the channel errs
  mutex,      \* writeMutex
  sr,         \* the goroutine that reads the slave
  mr,         \* the goroutine that reads the master
  todo,       \* the units it still has to write to the slave
  pg,         \* the goroutine that watches for pings
  sleep,      \* the rest of its sleep
  sincePing,  \* time since lastPingTime
  conn,       \* the websocket
  writeErr,   \* the sticky write error of the websocket
  toClient,
  toServer,
  typed,      \* units of input the client has sent
  fed,        \* the last unit given to the slave
  shown       \* the last chunk of output the client has read

clientVars == <<toServer, typed, shown>>
wireVars == <<conn, writeErr, toClient>>
pingVars == <<pg, sleep, sincePing>>
runVars == <<options, run, runErr, initSent>>
readerVars == <<mr, todo, fed>>
vars == <<cmdVars, runVars, cancelled, errs, mutex, sr, readerVars, pingVars,
          wireVars, clientVars>>

Results == {"Canceled", "SlaveClosed", "MasterClosed", "LostPing", "error"}

Messages ==
  [kind : {"input"}, lo : 1 .. MaxIn, hi : 1 .. MaxIn] \cup [kind : Control]

\* No input is being written to the slave.
Nothing == [next |-> 1, last |-> 0]

TypeOK ==
  /\ CmdTypeOK
  /\ options \in Configs
  /\ cancelled \in BOOLEAN
  /\ run \in {"init", "select", "returned", "ended"}
  /\ runErr \in Results \cup {"none"}
  /\ initSent \in 0 .. 3
  /\ errs \in Seq(Results)
  /\ mutex \in {"free", "sr", "mr"}
  /\ sr \in {"none", "read", "lock", "write", "done"}
  /\ mr \in {"none", "read", "feed", "lock", "pong", "done"}
  /\ todo \in [next : 1 .. MaxIn + 1, last : 0 .. MaxIn]
  /\ pg \in {"none", "sleep", "done"}
  /\ sleep \in 0 .. CheckPeriod
  /\ sincePing \in Nat
  /\ conn \in {"open", "peerGone", "closed"}
  /\ writeErr \in BOOLEAN
  /\ toClient \in Seq(0 .. MaxOut) /\ Len(toClient) <= NetCap
  /\ toServer \in Seq(Messages) /\ Len(toServer) <= ClientCap
  /\ typed \in 0 .. MaxIn
  /\ fed \in 0 .. typed
  /\ shown \in 0 .. produced

Init ==
  /\ CmdInit
  /\ options \in Configs
  /\ cancelled = FALSE
  /\ run = "init"
  /\ runErr = "none"
  /\ initSent = 0
  /\ errs = <<>>
  /\ mutex = "free"
  /\ sr = "none" /\ mr = "none" /\ pg = "none"
  /\ todo = Nothing
  /\ sleep = CheckPeriod
  /\ sincePing = 0
  /\ conn = "open"
  /\ writeErr = FALSE
  /\ toClient = <<>>
  /\ toServer = <<>>
  /\ typed = 0 /\ fed = 0 /\ shown = 0

-----------------------------------------------------------------------------
(* wsWrapper.  Write ignores the error of the Close that flushes a message: *)
(* a write that fails is reported by the next one.                          *)

WsWrite(m, ok) ==
  \/ /\ ok
     /\ ~writeErr
     /\ conn = "open"
     /\ Len(toClient) < NetCap
     /\ toClient' = Append(toClient, m)
     /\ UNCHANGED <<conn, writeErr>>
  \/ /\ ok
     /\ ~writeErr
     /\ conn # "open"
     /\ writeErr' \in IF conn = "closed" THEN {TRUE} ELSE BOOLEAN
     /\ UNCHANGED <<conn, toClient>>
  \/ ~ok /\ writeErr /\ UNCHANGED wireVars

\* The next message; of a closed peer some may still be there.
WsRead(m) ==
  /\ conn # "closed"
  /\ toServer # <<>>
  /\ m = Head(toServer)
  /\ toServer' = Tail(toServer)
  /\ UNCHANGED <<wireVars, typed, shown>>

WsReadFails == conn # "open"

-----------------------------------------------------------------------------
(* Run.                                                                     *)

\* sendInitializeMessage: nothing else writes yet, and ctx is not looked at.
SendInitializeMessage ==
  /\ run = "init"
  /\ initSent < options.messages
  /\ \/ /\ WsWrite(0, TRUE)
        /\ initSent' = initSent + 1
        /\ UNCHANGED <<run, runErr>>
     \/ /\ WsWrite(0, FALSE)
        /\ run' = "returned"
        /\ runErr' = "error"
        /\ UNCHANGED initSent
  /\ UNCHANGED <<cmdVars, options, cancelled, errs, mutex, sr, readerVars,
                 pingVars, clientVars>>

StartGoroutines ==
  /\ run = "init"
  /\ initSent = options.messages
  /\ run' = "select"
  /\ sr' = "read" /\ mr' = "read" /\ pg' = "sleep"
  /\ UNCHANGED <<cmdVars, options, runErr, initSent, cancelled, errs, mutex,
                 todo, fed, sleep, sincePing, wireVars, clientVars>>

\* The select, the deferred reset of the buffers and the return.
RunReturns ==
  /\ run = "select"
  /\ \/ /\ cancelled
        /\ runErr' = "Canceled"
        /\ errs' = [i \in 1 .. Len(errs) |-> "error"]
     \/ /\ errs # <<>>
        /\ runErr' = Head(errs)
        /\ errs' = [i \in 1 .. Len(errs) - 1 |-> "error"]
  /\ run' = "returned"
  /\ UNCHANGED <<cmdVars, options, initSent, cancelled, mutex, sr, readerVars,
                 pingVars, wireVars, clientVars>>

\* A mistake in its place: room for the one result that Run receives.
ErrsCapOne == 1

\* The channel has room for every goroutine.
ErrsCap == 3

\* errs <- e.  Once Run has returned nobody receives, and what is sent does
\* not matter any more.
Report(e) ==
  /\ Len(errs) < ErrsCap
  /\ errs' = Append(errs, IF run = "select" THEN e ELSE "error")

-----------------------------------------------------------------------------
(* The goroutine that reads the slave.                                      *)

\* A mistake in its place: the next read overwrites a chunk not written yet.
SrReadAhead ==
  /\ sr \in {"read", "lock"}
  /\ PtyRead
  /\ sr' = "lock"
  /\ UNCHANGED <<runVars, cancelled, errs, mutex, readerVars, pingVars,
                 wireVars, clientVars>>

SrRead ==
  /\ sr = "read"
  /\ PtyRead
  /\ sr' = "lock"
  /\ UNCHANGED <<runVars, cancelled, errs, mutex, readerVars, pingVars,
                 wireVars, clientVars>>

SrReadFails ==
  /\ sr = "read"
  /\ PtyReadFails
  /\ Report("SlaveClosed")
  /\ sr' = "done"
  /\ UNCHANGED <<cmdVars, runVars, cancelled, mutex, readerVars, pingVars,
                 wireVars, clientVars>>

\* A mistake in its place: the buffers are reset before the select.
SrStopsEarly ==
  /\ run # "init"
  /\ sr = "read"
  /\ PtyRead \/ UNCHANGED cmdVars
  /\ Report("SlaveClosed")
  /\ sr' = "done"
  /\ UNCHANGED <<runVars, cancelled, mutex, readerVars, pingVars, wireVars,
                 clientVars>>

\* After Run has returned the buffer is nil, which the goroutine sees, if at
\* all, before the read or in the slice expression after it: the latter
\* panics, which is recovered and drops what was read.
SrStops ==
  /\ run \in {"returned", "ended"}
  /\ sr = "read"
  /\ PtyRead \/ UNCHANGED cmdVars
  /\ Report("SlaveClosed")
  /\ sr' = "done"
  /\ UNCHANGED <<runVars, cancelled, mutex, readerVars, pingVars, wireVars,
                 clientVars>>

\* A mistake in its place: TryLock, and no message if the lock is taken.
SrLockTries ==
  /\ sr = "lock"
  /\ IF mutex = "free"
     THEN mutex' = "sr" /\ sr' = "write"
     ELSE UNCHANGED mutex /\ sr' = "read"
  /\ UNCHANGED <<cmdVars, runVars, cancelled, errs, readerVars, pingVars,
                 wireVars, clientVars>>

\* masterWrite
SrLock ==
  /\ sr = "lock"
  /\ mutex = "free"
  /\ mutex' = "sr"
  /\ sr' = "write"
  /\ UNCHANGED <<cmdVars, runVars, cancelled, errs, readerVars, pingVars,
                 wireVars, clientVars>>

SrWrite ==
  /\ sr = "write"
  /\ mutex' = "free"
  /\ \/ WsWrite(taken, TRUE) /\ sr' = "read" /\ UNCHANGED errs
     \/ WsWrite(taken, FALSE) /\ Report("error") /\ sr' = "done"
  /\ UNCHANGED <<cmdVars, runVars, cancelled, readerVars, pingVars,
                 clientVars>>

-----------------------------------------------------------------------------
(* The goroutine that reads the master.                                     *)

\* handleMasterReadEvent for input: one Read of the message returns a prefix
\* of it, as far as it has arrived and fits; the rest is dropped.
MrInput ==
  \E m \in Messages :
    /\ mr = "read"
    /\ WsRead(m)
    /\ m.kind = "input"
    /\ IF options.permitWrite
       THEN \/ UNCHANGED <<mr, todo>>
            \/ \E last \in m.lo .. m.hi :
                 /\ todo' = [next |-> m.lo, last |-> last]
                 /\ mr' = "feed"
       ELSE UNCHANGED <<mr, todo>>
    /\ UNCHANGED <<cmdVars, runVars, cancelled, errs, mutex, sr, fed, pingVars>>

\* A mistake in its place: one unit more than was read.
MrFeedTooFar ==
  /\ mr = "feed"
  /\ PtyWrite
  /\ fed' = todo.next
  /\ IF todo.next > todo.last
     THEN mr' = "read" /\ todo' = Nothing
     ELSE mr' = "feed" /\ todo' = [todo EXCEPT !.next = @ + 1]
  /\ UNCHANGED <<runVars, cancelled, errs, mutex, sr, pingVars, wireVars,
                 clientVars>>

\* slave.Write: unit by unit, as far as the pty takes it.
MrFeed ==
  /\ mr = "feed"
  /\ PtyWrite
  /\ fed' = todo.next
  /\ IF todo.next = todo.last
     THEN mr' = "read" /\ todo' = Nothing
     ELSE mr' = "feed" /\ todo' = [todo EXCEPT !.next = @ + 1]
  /\ UNCHANGED <<runVars, cancelled, errs, mutex, sr, pingVars, wireVars,
                 clientVars>>

MrFeedFails ==
  /\ mr = "feed"
  /\ PtyWriteFails
  /\ Report("error")
  /\ mr' = "done"
  /\ todo' = Nothing
  /\ UNCHANGED <<cmdVars, runVars, cancelled, mutex, sr, fed, pingVars,
                 wireVars, clientVars>>

MrPing ==
  /\ mr = "read"
  /\ WsRead([kind |-> "ping"])
  /\ mr' = "lock"
  /\ UNCHANGED <<cmdVars, runVars, cancelled, errs, mutex, sr, todo, fed,
                 pingVars>>

\* A mistake in its place: a pong that goes out without the lock.
MrLockForgets ==
  /\ mr = "lock"
  /\ mr' = "pong"
  /\ UNCHANGED <<cmdVars, runVars, cancelled, errs, mutex, sr, todo, fed,
                 pingVars, wireVars, clientVars>>

MrLock ==
  /\ mr = "lock"
  /\ mutex = "free"
  /\ mutex' = "mr"
  /\ mr' = "pong"
  /\ UNCHANGED <<cmdVars, runVars, cancelled, errs, sr, todo, fed, pingVars,
                 wireVars, clientVars>>

\* masterWrite, then lastPingTime = time.Now() whether it failed or not
MrPong ==
  /\ mr = "pong"
  /\ mutex' = "free"
  /\ sincePing' = 0
  /\ \/ WsWrite(0, TRUE) /\ mr' = "read" /\ UNCHANGED errs
     \/ WsWrite(0, FALSE) /\ Report("error") /\ mr' = "done"
  /\ UNCHANGED <<cmdVars, runVars, cancelled, sr, todo, fed, pg, sleep,
                 clientVars>>

\* Resizing is skipped when the size is fixed; otherwise it fails on a closed
\* pty.  wsWrapper.Read skips a message that is not text.
MrIgnores ==
  /\ mr = "read"
  /\ \/ WsRead([kind |-> "binary"])
     \/ WsRead([kind |-> "resize"]) /\ (options.fixed \/ waiter = "waiting")
  /\ UNCHANGED <<cmdVars, runVars, cancelled, errs, mutex, sr, readerVars,
                 pingVars>>

\* An empty message is read as io.EOF, which is taken for the end.
MrFails ==
  /\ mr = "read"
  /\ \/ WsReadFails /\ Report("MasterClosed") /\ UNCHANGED <<wireVars, clientVars>>
     \/ WsRead([kind |-> "empty"]) /\ Report("MasterClosed")
     \/ WsRead([kind |-> "malformed"]) /\ Report("error")
     \/ /\ WsRead([kind |-> "resize"])
        /\ ~options.fixed /\ waiter # "waiting"
        /\ Report("error")
  /\ mr' = "done"
  /\ UNCHANGED <<cmdVars, runVars, cancelled, mutex, sr, todo, fed, pingVars>>

\* As SrStops; a panic loses the message.
MrStops ==
  /\ run \in {"returned", "ended"}
  /\ mr = "read"
  /\ \/ \E m \in Messages : WsRead(m)
     \/ UNCHANGED <<wireVars, clientVars>>
  /\ Report("MasterClosed")
  /\ mr' = "done"
  /\ UNCHANGED <<cmdVars, runVars, cancelled, mutex, sr, todo, fed, pingVars>>

-----------------------------------------------------------------------------
(* The goroutine that watches for pings, and time.                          *)

\* A mistake in its place: the time is read before the sleep.
PgReadsTimeFirst ==
  /\ pg = "sleep" /\ sleep = 0
  /\ sincePing - CheckPeriod <= LostPing
  /\ sleep' = CheckPeriod
  /\ UNCHANGED <<cmdVars, runVars, cancelled, errs, mutex, sr, readerVars, pg,
                 sincePing, wireVars, clientVars>>

\* time.Sleep over, pings not lost: the loop goes on.
PgSleepsAgain ==
  /\ pg = "sleep" /\ sleep = 0
  /\ sincePing <= LostPing
  /\ sleep' = CheckPeriod
  /\ UNCHANGED <<cmdVars, runVars, cancelled, errs, mutex, sr, readerVars, pg,
                 sincePing, wireVars, clientVars>>

\* time.Now().After(lastPingTime.Add(lostPingTimeout)), or it sees the err
\* that Run has assigned.
PgReports ==
  /\ pg = "sleep" /\ sleep = 0
  /\ \/ sincePing > LostPing /\ Report("LostPing")
     \/ run \in {"returned", "ended"} /\ Report(runErr)
  /\ pg' = "done"
  /\ UNCHANGED <<cmdVars, runVars, cancelled, mutex, sr, readerVars, sleep,
                 sincePing, wireVars, clientVars>>

\* Time passes while the goroutine sleeps: it wakes when its sleep is over.
Tick ==
  /\ pg = "sleep" /\ sleep > 0
  /\ sleep' = sleep - 1
  /\ sincePing' = sincePing + 1
  /\ UNCHANGED <<cmdVars, runVars, cancelled, errs, mutex, sr, readerVars, pg,
                 wireVars, clientVars>>

-----------------------------------------------------------------------------
(* The handler after Run: slave.Close(), then conn.Close().                 *)

HandlerCloses ==
  /\ run = "returned"
  /\ CloseSignals \/ CloseKills \/ CloseReturns
  /\ UNCHANGED <<runVars, cancelled, errs, mutex, sr, readerVars, pingVars,
                 wireVars, clientVars>>

ConnClose ==
  /\ run = "returned"
  /\ closing = "returned"
  /\ run' = "ended"
  /\ conn' = "closed"
  /\ toServer' = <<>>
  /\ UNCHANGED <<cmdVars, options, runErr, initSent, cancelled, errs, mutex,
                 sr, readerVars, pingVars, writeErr, toClient, typed, shown>>

-----------------------------------------------------------------------------
(* The command, the context and the client.                                 *)

Command ==
  /\ CmdWrites \/ CmdReads \/ CmdDies \/ WaiterClosesPty \/ WaiterDone
  /\ UNCHANGED <<runVars, cancelled, errs, mutex, sr, readerVars, pingVars,
                 wireVars, clientVars>>

Cancel ==
  /\ ~cancelled
  /\ cancelled' = TRUE
  /\ UNCHANGED <<cmdVars, runVars, errs, mutex, sr, readerVars, pingVars,
                 wireVars, clientVars>>

ClientReads ==
  /\ conn # "peerGone"
  /\ toClient # <<>>
  /\ toClient' = Tail(toClient)
  /\ shown' = IF Head(toClient) = 0 THEN shown ELSE Head(toClient)
  /\ UNCHANGED <<cmdVars, runVars, cancelled, errs, mutex, sr, readerVars,
                 pingVars, conn, writeErr, toServer, typed>>

ClientSends ==
  /\ conn = "open"
  /\ Len(toServer) < ClientCap
  /\ \/ /\ \E m \in [kind : Control] : toServer' = Append(toServer, m)
        /\ UNCHANGED typed
     \/ \E size \in Sizes :
          /\ typed + size <= MaxIn
          /\ typed' = typed + size
          /\ toServer' = Append(toServer, [kind |-> "input", lo |-> typed + 1,
                                           hi |-> typed + size])
  /\ UNCHANGED <<cmdVars, runVars, cancelled, errs, mutex, sr, readerVars,
                 pingVars, wireVars, shown>>

\* The client closes, or the network does after a timeout of its own.
ClientGone ==
  /\ conn = "open"
  /\ conn' = "peerGone"
  /\ toClient' = <<>>
  /\ UNCHANGED <<cmdVars, runVars, cancelled, errs, mutex, sr, readerVars,
                 pingVars, writeErr, clientVars>>

-----------------------------------------------------------------------------
SlaveReader == SrRead \/ SrReadFails \/ SrStops \/ SrWrite
MasterReader ==
  MrInput \/ MrFeed \/ MrFeedFails \/ MrPing \/ MrPong \/ MrIgnores \/ MrFails
    \/ MrStops
PingWatcher == PgSleepsAgain \/ PgReports
Run == SendInitializeMessage \/ StartGoroutines \/ RunReturns
Handler == HandlerCloses \/ ConnClose
Client == ClientReads \/ ClientSends \/ ClientGone

Next ==
  \/ Run \/ SlaveReader \/ SrLock \/ MasterReader \/ MrLock \/ PingWatcher
  \/ Tick \/ Handler \/ Command \/ Cancel \/ Client

Spec == Init /\ [][Next]_vars

-----------------------------------------------------------------------------
(* Fairness: runnable goroutines run, sleeps and timeouts end, the kernel   *)
(* reaps the dead.  A goroutine that waits for the mutex gets it in the end *)
(* although others take it in between (the starvation mode of sync.Mutex).  *)
(* Nothing is assumed of the client, the command before SIGKILL, or ctx.    *)

Fairness ==
  /\ WF_vars(SlaveReader) /\ SF_vars(SrLock)
  /\ WF_vars(MasterReader) /\ SF_vars(MrLock)
  /\ WF_vars(PingWatcher) /\ WF_vars(Tick)
  /\ WF_vars(Run) /\ WF_vars(Handler)
  /\ WF_vars(Command /\ (waiter' # waiter \/ cmd = "killed"))

FairSpec == Spec /\ Fairness

-----------------------------------------------------------------------------
(* Safety.                                                                  *)

\* writeMutex: the websocket has one writer at a time, as gorilla demands,
\* which panics on a second one (webtty.go:189-199); and it is free when
\* neither goroutine is inside masterWrite.
OneWriter ==
  /\ ~(sr = "write" /\ mr = "pong")
  /\ mutex = "free" <=> sr # "write" /\ mr # "pong"

\* The reason Run returns is the true one, although goroutines that outlive
\* it report others: the slave is not said to be closed while the command
\* lives, nor is ctx to be cancelled (webtty.go:79-97, 141-152).
EndIsReal ==
  /\ runErr = "SlaveClosed" => cmd = "dead"
  /\ runErr = "Canceled" => cancelled

\* A session without pings does not outlast the timeout and one sleep of the
\* goroutine that looks, whatever blocks the others (webtty.go:129-137).
SilenceBounded == run = "select" => sincePing <= LostPing + CheckPeriod

Promise == INSTANCE Bridge WITH writable <- options.permitWrite

\* Run keeps the promise of Bridge: the browser shows the output in order and
\* without gaps, also when the websocket fails and Write does not say so
\* (ws_wrapper.go:11-18); the command gets input in order, and none without
\* --permit-write (webtty.go:201-257).
KeepsOrder == Promise!Spec

\* What the client sends is what the slave reads, whole
\* (webtty_test.go:112-118): no unit of input is left out.
InputUnbroken == [][fed' # fed => fed' = fed + 1]_fed

-----------------------------------------------------------------------------
(* What the server relies on.                                               *)

Life == INSTANCE Session
          WITH session <- CASE run \in {"init", "select"} -> "running"
                            [] run = "returned" -> "closing"
                            [] run = "ended" -> "over",
               command <- IF cmd = "dead" /\ waiter = "done" THEN "dead"
                          ELSE "alive"

\* Run and the deferred calls of the handler keep the promise of Session: a
\* cancelled session ends whatever blocks it, its command dies however it takes
\* the signals and is waited for, and only then is the handler done with it
\* (local_command.go:79-91, handlers.go:81, 151, webtty.go:141-152).
KeepsSession == Life!FairSpec

-----------------------------------------------------------------------------
(* Liveness.                                                                *)

Over ==
  /\ run = "ended"
  /\ {sr, mr, pg} \subseteq {"none", "done"}
  /\ waiter = "done"

\* However a session ends - ctx cancelled, the command dead, the client gone -
\* Run returns, the command is closed and every goroutine of the session
\* ends, with nobody left to receive from errs (webtty.go:75, 141-152).
SessionCleansUp == (cancelled \/ cmd = "dead" \/ conn # "open") ~> Over

\* Output reaches the browser while the session lasts and the browser reads,
\* whatever the other direction does (webtty.go:79-97, 189-199).
OutputArrives ==
  \A n \in 1 .. MaxOut :
    [](produced >= n => <>(shown >= n \/ run # "select" \/ conn # "open"
                             \/ [](toClient # <<>>)))
=============================================================================
