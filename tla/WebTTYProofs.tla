---------------------------- MODULE WebTTYProofs ----------------------------
(***************************************************************************)
(* The safety of WebTTY for every size of the buffers and queues, every    *)
(* timeout and every set of settings, and that it implements Bridge.       *)
(*                                                                         *)
(* The inductive invariant has a part for each of the things that the      *)
(* session keeps in step: the command, the goroutines and the mutex, time, *)
(* the stream of input and the stream of output.                           *)
(***************************************************************************)
EXTENDS WebTTY, SequenceTheorems, TLAPS

\* The command is closed only after it is dead and waited for.
CmdInv ==
  /\ CmdTypeOK
  /\ run \in {"init", "select", "returned", "ended"}
  /\ waiter # "waiting" => cmd = "dead"
  /\ closing = "returned" => waiter = "done"
  /\ run = "ended" => closing = "returned"

\* The ping goroutine looks again before the timeout and one sleep are over.
TimeInv ==
  /\ sleep \in 0 .. CheckPeriod
  /\ sincePing \in Nat
  /\ sincePing + sleep <= LostPing + CheckPeriod

\* Who is where, and who has the mutex.
CtlInv ==
  /\ mutex \in {"free", "sr", "mr"}
  /\ sr \in {"none", "read", "lock", "write", "done"}
  /\ mr \in {"none", "read", "feed", "lock", "pong", "done"}
  /\ pg \in {"none", "sleep", "done"}
  /\ mutex = "sr" <=> sr = "write"
  /\ mutex = "mr" <=> mr = "pong"
  /\ run = "init" => sr = "none" /\ mr = "none"

\* What waits in errs is as true as what Run returns.
EndInv ==
  /\ errs \in Seq(Results)
  /\ runErr \in Results \cup {"none"}
  /\ cancelled \in BOOLEAN
  /\ \A i \in 1 .. Len(errs) :
       /\ errs[i] # "Canceled"
       /\ errs[i] = "SlaveClosed" => cmd = "dead"
  /\ EndIsReal

\* Input is waiting in the order it was typed, and after what was fed.
InputInv ==
  /\ options \in Configs
  /\ typed \in 0 .. MaxIn
  /\ fed \in 0 .. typed
  /\ todo \in [next : 1 .. MaxIn + 1, last : 0 .. MaxIn]
  /\ mr = "feed" =>
       /\ options.permitWrite
       /\ fed < todo.next
       /\ todo.next <= todo.last
       /\ todo.last <= typed
  /\ toServer \in Seq(Messages)
  /\ Len(toServer) <= ClientCap
  /\ \A i \in 1 .. Len(toServer) : toServer[i].kind = "input" =>
       /\ fed < toServer[i].lo
       /\ mr = "feed" => todo.last < toServer[i].lo
       /\ toServer[i].lo <= toServer[i].hi
       /\ toServer[i].hi <= typed
  /\ \A i, j \in 1 .. Len(toServer) :
       i < j /\ toServer[i].kind = "input" /\ toServer[j].kind = "input"
         => toServer[i].hi < toServer[j].lo

\* The last chunk that is not with the goroutine that reads the slave.
Sent == IF sr \in {"lock", "write"} THEN taken - 1 ELSE taken

\* Output is on its way in order, each chunk after all those before it; and
\* while the websocket is open none is missing up to the last one sent.
OutputInv ==
  /\ conn \in {"open", "peerGone", "closed"}
  /\ writeErr \in BOOLEAN
  /\ conn = "open" => ~writeErr
  /\ toClient \in Seq(Nat)
  /\ Len(toClient) <= NetCap
  /\ shown \in Nat
  /\ shown <= Sent
  /\ \A i \in 1 .. Len(toClient) :
       toClient[i] # 0 => shown < toClient[i] /\ toClient[i] <= Sent
  /\ \A i, j \in 1 .. Len(toClient) :
       i < j /\ toClient[i] # 0 /\ toClient[j] # 0 => toClient[i] < toClient[j]
  /\ \A i \in 1 .. Len(toClient) : toClient[i] # 0 =>
       \A k \in shown + 1 .. toClient[i] : \E j \in 1 .. i : toClient[j] = k
  /\ conn = "open" /\ sr # "done" =>
       \A k \in shown + 1 .. Sent : \E j \in 1 .. Len(toClient) : toClient[j] = k

-----------------------------------------------------------------------------
(* The command.                                                             *)

\* What a step may do to the command.
LEMMA CmdFrame ==
  ASSUME Next
  PROVE  \/ UNCHANGED <<cmdVars>>
         \/ (PtyRead \/ PtyWrite) /\ UNCHANGED run
         \/ Command
         \/ HandlerCloses
<1>1. CASE Run
  BY <1>1 DEF Run, SendInitializeMessage, StartGoroutines, RunReturns
<1>2. CASE SlaveReader \/ SrLock
  BY <1>2 DEF SlaveReader, SrRead, SrReadFails, SrStops, SrWrite, SrLock,
              runVars
<1>3. CASE MasterReader \/ MrLock
  BY <1>3 DEF MasterReader, MrInput, MrFeed, MrFeedFails, MrPing, MrPong,
              MrIgnores, MrFails, MrStops, MrLock, runVars
<1>4. CASE PingWatcher \/ Tick
  BY <1>4 DEF PingWatcher, PgSleepsAgain, PgReports, Tick
<1>5. CASE Handler
  BY <1>5 DEF Handler, ConnClose
<1>6. CASE Command \/ Cancel
  BY <1>6 DEF Cancel
<1>7. CASE Client
  BY <1>7 DEF Client, ClientReads, ClientSends, ClientGone
<1> QED BY <1>1, <1>2, <1>3, <1>4, <1>5, <1>6, <1>7 DEF Next

\* Run goes on by its own steps and ends when the command is closed.
LEMMA RunFrame ==
  ASSUME Next
  PROVE  \/ UNCHANGED run
         \/ Run
         \/ ConnClose
<1>2. CASE SlaveReader \/ SrLock
  BY <1>2 DEF SlaveReader, SrRead, SrReadFails, SrStops, SrWrite, SrLock,
              runVars
<1>3. CASE MasterReader \/ MrLock
  BY <1>3 DEF MasterReader, MrInput, MrFeed, MrFeedFails, MrPing, MrPong,
              MrIgnores, MrFails, MrStops, MrLock, runVars
<1>4. CASE PingWatcher \/ Tick
  BY <1>4 DEF PingWatcher, PgSleepsAgain, PgReports, Tick, runVars
<1>5. CASE Handler
  BY <1>5 DEF Handler, HandlerCloses, runVars
<1>6. CASE Command \/ Cancel
  BY <1>6 DEF Cancel, Command, runVars
<1>7. CASE Client
  BY <1>7 DEF Client, ClientReads, ClientSends, ClientGone, runVars
<1> QED BY <1>2, <1>3, <1>4, <1>5, <1>6, <1>7 DEF Next

LEMMA CmdStep ==
  ASSUME CmdInv, [Next]_vars
  PROVE  CmdInv'
<1>1. run' \in {"init", "select", "returned", "ended"}
  <2>1. CASE UNCHANGED vars
    BY <2>1 DEF CmdInv, vars, runVars
  <2>2. CASE Next
    BY <2>2, RunFrame DEF CmdInv, Run, SendInitializeMessage, StartGoroutines,
       RunReturns, ConnClose
  <2> QED BY <2>1, <2>2
<1>2. run' = "ended" => run = "ended" \/ closing = "returned"
  <2>1. CASE UNCHANGED vars
    BY <2>1 DEF vars, runVars
  <2>2. CASE Next
    BY <2>2, RunFrame DEF Run, SendInitializeMessage, StartGoroutines,
       RunReturns, ConnClose
  <2> QED BY <2>1, <2>2
<1>3. CmdTypeOK' /\ (waiter' # "waiting" => cmd' = "dead")
        /\ (closing' = "returned" => waiter' = "done")
        /\ (closing = "returned" => closing' = "returned")
  <2> USE PtyAssumption DEF CmdInv, CmdTypeOK
  <2>1. CASE UNCHANGED cmdVars
    BY <2>1 DEF cmdVars
  <2>2. CASE PtyRead
    BY <2>2 DEF PtyRead
  <2>3. CASE PtyWrite
    BY <2>3 DEF PtyWrite
  <2>4. CASE Command
    <3>1. CASE CmdWrites
      BY <3>1 DEF CmdWrites
    <3>2. CASE CmdReads
      BY <3>2 DEF CmdReads
    <3>3. CASE CmdDies
      BY <3>3 DEF CmdDies
    <3>4. CASE WaiterClosesPty \/ WaiterDone
      BY <3>4 DEF WaiterClosesPty, WaiterDone
    <3> QED BY <2>4, <3>1, <3>2, <3>3, <3>4 DEF Command
  <2>5. CASE HandlerCloses
    BY <2>5 DEF HandlerCloses, CloseSignals, CloseKills, CloseReturns
  <2> QED BY <2>1, <2>2, <2>3, <2>4, <2>5, CmdFrame DEF vars
<1> QED BY <1>1, <1>2, <1>3 DEF CmdInv

LEMMA CmdInvariant == Spec => []CmdInv
<1>1. Init => CmdInv
  BY PtyAssumption DEF Init, CmdInit, CmdInv, CmdTypeOK
<1> QED BY <1>1, CmdStep, PTL DEF Spec

\* Only Cancel cancels, and it does nothing else.
LEMMA CancelFrame ==
  ASSUME Next
  PROVE  \/ UNCHANGED cancelled
         \/ cancelled' = TRUE /\ ~cancelled /\ UNCHANGED <<run, waiter>>
<1>1. CASE Run
  BY <1>1 DEF Run, SendInitializeMessage, StartGoroutines, RunReturns
<1>2. CASE SlaveReader \/ SrLock
  BY <1>2 DEF SlaveReader, SrRead, SrReadFails, SrStops, SrWrite, SrLock
<1>3. CASE MasterReader \/ MrLock
  BY <1>3 DEF MasterReader, MrInput, MrFeed, MrFeedFails, MrPing, MrPong,
     MrIgnores, MrFails, MrStops, MrLock
<1>4. CASE PingWatcher \/ Tick
  BY <1>4 DEF PingWatcher, PgSleepsAgain, PgReports, Tick
<1>5. CASE Handler \/ Command
  BY <1>5 DEF Handler, HandlerCloses, ConnClose, Command
<1>6. CASE Cancel
  BY <1>6 DEF Cancel, cmdVars, runVars
<1>7. CASE Client
  BY <1>7 DEF Client, ClientReads, ClientSends, ClientGone
<1> QED BY <1>1, <1>2, <1>3, <1>4, <1>5, <1>6, <1>7 DEF Next

\* Each step is one of the session, or none that a server could notice.
LEMMA LifeStep ==
  ASSUME CmdInv, [Next]_vars
  PROVE  [Life!Next]_Life!vars
<1> USE DEF Life!Next, Life!vars
<1>0. /\ waiter = "done" => cmd = "dead"
      /\ waiter' = "done" => cmd' = "dead"
  BY CmdStep DEF CmdInv
<1>1. CASE UNCHANGED <<run, waiter, cancelled>>
  BY <1>0, <1>1
<1>2. CASE cancelled' = TRUE /\ ~cancelled /\ UNCHANGED <<run, waiter>>
  BY <1>0, <1>2 DEF Life!Cancel
<1>3. CASE UNCHANGED cancelled /\ Command
  <2>1. UNCHANGED run /\ (waiter = "done" => UNCHANGED waiter)
    BY <1>3 DEF Command, runVars, CmdWrites, CmdReads, CmdDies,
       WaiterClosesPty, WaiterDone
  <2> QED BY <1>0, <1>3, <2>1 DEF Life!Die
<1>4. CASE UNCHANGED <<cancelled, waiter>> /\ Run
  BY <1>0, <1>4 DEF Run, SendInitializeMessage, StartGoroutines, RunReturns, Life!End
<1>5. CASE UNCHANGED <<cancelled, waiter>> /\ ConnClose
  BY <1>0, <1>5 DEF ConnClose, CmdInv, Life!Close
<1>6. CASE Next
  <2>1. CASE UNCHANGED waiter
    BY <1>1, <1>2, <1>4, <1>5, <1>6, <2>1, CancelFrame, RunFrame
  <2>2. CASE Command
    BY <1>1, <1>2, <1>3, <1>6, <2>2, CancelFrame
  <2> QED BY <1>6, <2>1, <2>2, CmdFrame
          DEF cmdVars, PtyRead, PtyWrite, HandlerCloses, CloseSignals,
              CloseKills, CloseReturns
<1>7. CASE UNCHANGED vars
  BY <1>1, <1>7 DEF vars, runVars, cmdVars
<1> QED BY <1>6, <1>7

\* The session ends as Server takes it to, once, and is over only when its command
\* is dead and waited for, whatever its goroutines are doing
\* (local_command.go:79-91, handlers.go:81, 151).
THEOREM SessionKeepsPromise == Spec => Life!Spec
<1>1. Init => Life!Init
  BY DEF Init, CmdInit, Life!Init
<1> QED BY <1>1, LifeStep, CmdInvariant, PTL DEF Spec, Life!Spec

-----------------------------------------------------------------------------
(* Time.                                                                    *)

\* What a step may do to the clock.
LEMMA TimeFrame ==
  ASSUME Next
  PROVE  \/ UNCHANGED <<sleep, sincePing>>
         \/ MrPong \/ PgSleepsAgain \/ Tick
<1>1. CASE Run
  BY <1>1 DEF Run, SendInitializeMessage, StartGoroutines, RunReturns, pingVars
<1>2. CASE SlaveReader \/ SrLock
  BY <1>2 DEF SlaveReader, SrRead, SrReadFails, SrStops, SrWrite, SrLock,
              pingVars
<1>3. CASE MasterReader \/ MrLock
  BY <1>3 DEF MasterReader, MrInput, MrFeed, MrFeedFails, MrPing,
              MrIgnores, MrFails, MrStops, MrLock, pingVars
<1>4. CASE PingWatcher \/ Tick
  BY <1>4 DEF PingWatcher, PgReports
<1>5. CASE Handler
  BY <1>5 DEF Handler, HandlerCloses, ConnClose, pingVars
<1>6. CASE Command \/ Cancel
  BY <1>6 DEF Cancel, Command, pingVars
<1>7. CASE Client
  BY <1>7 DEF Client, ClientReads, ClientSends, ClientGone, pingVars
<1> QED BY <1>1, <1>2, <1>3, <1>4, <1>5, <1>6, <1>7 DEF Next

LEMMA TimeStep ==
  ASSUME TimeInv, [Next]_vars
  PROVE  TimeInv'
<1> USE WebAssumption DEF TimeInv
<1>1. CASE UNCHANGED <<sleep, sincePing>>
  BY <1>1
<1>2. CASE MrPong
  BY <1>2 DEF MrPong
<1>3. CASE PgSleepsAgain
  BY <1>3 DEF PgSleepsAgain
<1>4. CASE Tick
  BY <1>4 DEF Tick
<1> QED BY <1>1, <1>2, <1>3, <1>4, TimeFrame DEF vars, pingVars

LEMMA TimeInvariant == Spec => []TimeInv
<1>1. Init => TimeInv
  BY WebAssumption DEF Init, TimeInv
<1> QED BY <1>1, TimeStep, PTL DEF Spec

\* A session without pings does not outlast the timeout and one sleep of the
\* ping goroutine, whatever blocks the others (webtty.go:129-137).
THEOREM SilenceEnds == Spec => []SilenceBounded
<1>1. TimeInv => SilenceBounded
  BY WebAssumption DEF TimeInv, SilenceBounded
<1> QED BY <1>1, TimeInvariant, PTL

-----------------------------------------------------------------------------
(* The goroutines and the mutex.                                            *)

LEMMA CtlStep ==
  ASSUME CtlInv, [Next]_vars
  PROVE  CtlInv'
<1> USE DEF CtlInv
<1>0. CASE UNCHANGED vars
  BY <1>0 DEF vars, runVars, readerVars, pingVars
<1>1. CASE Run
  BY <1>1 DEF Run, SendInitializeMessage, StartGoroutines, RunReturns,
              readerVars, pingVars
<1>2. CASE SlaveReader \/ SrLock
  BY <1>2 DEF SlaveReader, SrRead, SrReadFails, SrStops, SrWrite, SrLock,
              runVars, readerVars, pingVars
<1>3. CASE MasterReader \/ MrLock
  BY <1>3 DEF MasterReader, MrInput, MrFeed, MrFeedFails, MrPing, MrPong,
              MrIgnores, MrFails, MrStops, MrLock, runVars, readerVars, pingVars
<1>4. CASE PingWatcher \/ Tick
  BY <1>4 DEF PingWatcher, PgSleepsAgain, PgReports, Tick, runVars, readerVars
<1>5. CASE Handler
  BY <1>5 DEF Handler, HandlerCloses, ConnClose, runVars, readerVars, pingVars
<1>6. CASE Command \/ Cancel
  BY <1>6 DEF Cancel, Command, runVars, readerVars, pingVars
<1>7. CASE Client
  BY <1>7 DEF Client, ClientReads, ClientSends, ClientGone, runVars,
              readerVars, pingVars
<1> QED BY <1>0, <1>1, <1>2, <1>3, <1>4, <1>5, <1>6, <1>7 DEF Next

LEMMA CtlInvariant == Spec => []CtlInv
<1>1. Init => CtlInv
  BY DEF Init, CtlInv
<1> QED BY <1>1, CtlStep, PTL DEF Spec

\* The websocket has one writer at a time, and the mutex is free when neither
\* goroutine is inside masterWrite (webtty.go:189-199).
THEOREM MutualExclusion == Spec => []OneWriter
<1>1. CtlInv => OneWriter
  BY DEF CtlInv, OneWriter
<1> QED BY <1>1, CtlInvariant, PTL

-----------------------------------------------------------------------------
(* Results.                                                                 *)

\* What a step may do to the results.
LEMMA EndFrame ==
  ASSUME Next
  PROVE  \/ SendInitializeMessage
         \/ RunReturns
         \/ \E e \in Results \ {"Canceled"} :
              /\ errs' = Append(errs, e)
              /\ e = "SlaveClosed" => PtyReadFails
              /\ UNCHANGED <<runErr, cancelled>>
         \/ Cancel
         \/ UNCHANGED <<errs, runErr, cancelled>>
<1> USE DEF Results
<1>1. CASE Run
  BY <1>1 DEF Run, StartGoroutines
<1>2. CASE SlaveReader \/ SrLock
  BY <1>2 DEF SlaveReader, SrRead, SrReadFails, SrStops, SrWrite, SrLock,
              Report, runVars
<1>3. CASE MasterReader \/ MrLock
  BY <1>3 DEF MasterReader, MrInput, MrFeed, MrFeedFails, MrPing, MrPong,
              MrIgnores, MrFails, MrStops, MrLock,
              Report, runVars
<1>4. CASE PingWatcher \/ Tick
  BY <1>4 DEF PingWatcher, PgSleepsAgain, PgReports, Tick, Report, runVars
<1>5. CASE Handler
  BY <1>5 DEF Handler, HandlerCloses, ConnClose, runVars
<1>6. CASE Command \/ Cancel
  BY <1>6 DEF Command, runVars
<1>7. CASE Client
  BY <1>7 DEF Client, ClientReads, ClientSends, ClientGone, runVars
<1> QED BY <1>1, <1>2, <1>3, <1>4, <1>5, <1>6, <1>7 DEF Next

LEMMA DeadStaysDead ==
  ASSUME [Next]_vars, cmd = "dead"
  PROVE  cmd' = "dead"
<1>1. CASE UNCHANGED cmdVars
  BY <1>1 DEF cmdVars
<1>2. CASE PtyRead \/ PtyWrite
  BY <1>2 DEF PtyRead, PtyWrite
<1>3. CASE Command
  BY <1>3 DEF Command, CmdWrites, CmdReads, CmdDies, WaiterClosesPty, WaiterDone
<1>4. CASE HandlerCloses
  BY <1>4 DEF HandlerCloses, CloseSignals, CloseKills, CloseReturns
<1> QED BY <1>1, <1>2, <1>3, <1>4, CmdFrame DEF vars

LEMMA EndStep ==
  ASSUME CmdInv, EndInv, [Next]_vars
  PROVE  EndInv'
<1> USE DEF EndInv, EndIsReal
<1> DEFINE True(e) == e # "Canceled" /\ (e = "SlaveClosed" => cmd' = "dead")
<1>1. \A i \in 1 .. Len(errs) : errs[i] \in Results /\ True(errs[i])
  BY DeadStaysDead
<1>2. "error" \in Results /\ True("error")
  BY DEF Results
<1>3. CASE SendInitializeMessage
  BY <1>1, <1>2, <1>3, DeadStaysDead DEF SendInitializeMessage
<1>4. CASE RunReturns
  <2>1. cancelled' = cancelled
    BY <1>4 DEF RunReturns
  <2>2. errs' \in Seq(Results) /\ \A i \in 1 .. Len(errs') : errs'[i] = "error"
    <3>1. PICK n \in Nat : errs' = [i \in 1 .. n |-> "error"]
      <4>1. Len(errs) \in Nat /\ (errs # <<>> => Len(errs) - 1 \in Nat)
        BY EmptySeq, LenProperties
      <4> QED BY <4>1, <1>4 DEF RunReturns
    <3> QED BY <3>1, <1>2, LenProperties
  <2>3. runErr' \in Results
        /\ (runErr' = "SlaveClosed" => cmd' = "dead")
        /\ (runErr' = "Canceled" => cancelled')
    <3>1. CASE cancelled /\ runErr' = "Canceled"
      BY <3>1, <2>1 DEF Results
    <3>2. CASE errs # <<>> /\ runErr' = Head(errs)
      BY <3>2, <1>1
    <3> QED BY <3>1, <3>2, <1>4 DEF RunReturns
  <2> QED BY <2>1, <2>2, <2>3
<1>5. ASSUME NEW e \in Results \ {"Canceled"},
             errs' = Append(errs, e),
             e = "SlaveClosed" => PtyReadFails,
             UNCHANGED <<runErr, cancelled>>
      PROVE  EndInv'
  <2>1. e = "SlaveClosed" => cmd' = "dead"
    BY <1>5, DeadStaysDead DEF PtyReadFails, CmdInv
  <2>2. errs' \in Seq(Results) /\ \A i \in 1 .. Len(errs') : True(errs'[i])
    BY <1>1, <1>5, <2>1
  <2> QED BY <2>2, <1>5, DeadStaysDead
<1>6. CASE Cancel
  BY <1>1, <1>6, DeadStaysDead DEF Cancel, runVars
<1>7. CASE UNCHANGED <<errs, runErr, cancelled>>
  BY <1>1, <1>7, DeadStaysDead
<1> QED BY <1>3, <1>4, <1>5, <1>6, <1>7, EndFrame DEF vars, runVars

LEMMA EndInvariant == Spec => []EndInv
<1>1. ASSUME Init  PROVE EndInv
  <2>1. errs = <<>> /\ runErr = "none" /\ cancelled = FALSE
    BY <1>1 DEF Init
  <2>2. errs \in Seq(Results) /\ Len(errs) = 0
    BY <2>1
  <2>3. EndIsReal
    BY <2>1 DEF EndIsReal
  <2>4. \A i \in 1 .. Len(errs) : FALSE
    BY <2>2
  <2> QED BY <2>1, <2>2, <2>3, <2>4 DEF EndInv
<1> QED BY <1>1, EndStep, CmdInvariant, PTL DEF Spec

\* The reason Run returns is the true one, although goroutines that outlive
\* it report others (webtty.go:79-97, 141-152).
THEOREM ReasonIsReal == Spec => []EndIsReal
<1>1. EndInv => EndIsReal
  BY DEF EndInv
<1> QED BY <1>1, EndInvariant, PTL

-----------------------------------------------------------------------------
(* Input.                                                                   *)

\* What a step may do to the stream of input.
LEMMA InputFrame ==
  ASSUME Next
  PROVE  \/ /\ UNCHANGED <<options, typed, fed, todo>>
            /\ mr' = "feed" => mr = "feed"
            /\ \/ UNCHANGED toServer
               \/ toServer' = <<>>
               \/ toServer # <<>> /\ toServer' = Tail(toServer)
         \/ MrInput
         \/ MrFeed
         \/ MrFeedFails
         \/ ClientSends
<1> USE DEF readerVars, clientVars
<1>1. CASE Run
  BY <1>1 DEF Run, SendInitializeMessage, StartGoroutines, RunReturns
<1>2. CASE SlaveReader \/ SrLock
  BY <1>2 DEF SlaveReader, SrRead, SrReadFails, SrStops, SrWrite, SrLock,
              runVars
<1>3. CASE MasterReader \/ MrLock
  BY <1>3 DEF MasterReader, MrPing, MrPong, MrIgnores, MrFails, MrStops,
              MrLock, WsRead, runVars
<1>4. CASE PingWatcher \/ Tick
  BY <1>4 DEF PingWatcher, PgSleepsAgain, PgReports, Tick, runVars
<1>5. CASE Handler
  BY <1>5 DEF Handler, HandlerCloses, ConnClose, runVars
<1>6. CASE Command \/ Cancel
  BY <1>6 DEF Cancel, Command, runVars
<1>7. CASE Client
  BY <1>7 DEF Client, ClientReads, ClientGone, runVars
<1> QED BY <1>1, <1>2, <1>3, <1>4, <1>5, <1>6, <1>7 DEF Next

\* A message of input has a first and a last unit.
LEMMA InputTyped ==
  ASSUME NEW m \in Messages, m.kind = "input"
  PROVE  m.lo \in 1 .. MaxIn /\ m.hi \in 1 .. MaxIn
BY WebAssumption DEF Messages

LEMMA InputRead ==
  ASSUME InputInv, toServer # <<>>, toServer' = Tail(toServer)
  PROVE  /\ Head(toServer) = toServer[1]
         /\ toServer[1] \in Messages
         /\ toServer' \in Seq(Messages)
         /\ Len(toServer') = Len(toServer) - 1
         /\ \A i \in 1 .. Len(toServer') :
              i + 1 \in 1 .. Len(toServer) /\ toServer'[i] = toServer[i + 1]
<1>1. toServer \in Seq(Messages) /\ Len(toServer) \in Nat \ {0}
  BY EmptySeq, LenProperties DEF InputInv
<1>2. Head(toServer) = toServer[1] /\ toServer[1] \in Messages
  BY <1>1
<1>3. toServer' \in Seq(Messages) /\ Len(toServer') = Len(toServer) - 1
  BY <1>1, HeadTailProperties
<1>4. ASSUME NEW i \in 1 .. Len(toServer')
      PROVE  i + 1 \in 1 .. Len(toServer) /\ toServer'[i] = toServer[i + 1]
  BY <1>1, <1>3, HeadTailProperties
<1> QED BY <1>2, <1>3, <1>4

\* What is left after a read keeps its order.
LEMMA InputRest ==
  ASSUME InputInv, toServer # <<>>, toServer' = Tail(toServer)
  PROVE  /\ toServer' \in Seq(Messages)
         /\ Len(toServer') <= ClientCap
         /\ \A i \in 1 .. Len(toServer') : toServer'[i].kind = "input" =>
              /\ fed < toServer'[i].lo
              /\ mr = "feed" => todo.last < toServer'[i].lo
              /\ toServer'[i].lo <= toServer'[i].hi
              /\ toServer'[i].hi <= typed
              /\ toServer[1].kind = "input" => toServer[1].hi < toServer'[i].lo
         /\ \A i, j \in 1 .. Len(toServer') :
              i < j /\ toServer'[i].kind = "input" /\ toServer'[j].kind = "input"
                => toServer'[i].hi < toServer'[j].lo
<1>1. Len(toServer) \in Nat /\ Len(toServer') = Len(toServer) - 1
  BY InputRead DEF InputInv
<1>2. Len(toServer') <= ClientCap
  BY <1>1, WebAssumption DEF InputInv
<1>3. ASSUME NEW i \in 1 .. Len(toServer'), toServer'[i].kind = "input"
      PROVE  /\ fed < toServer'[i].lo
             /\ mr = "feed" => todo.last < toServer'[i].lo
             /\ toServer'[i].lo <= toServer'[i].hi
             /\ toServer'[i].hi <= typed
             /\ toServer[1].kind = "input" => toServer[1].hi < toServer'[i].lo
  <2>1. i + 1 \in 1 .. Len(toServer) /\ toServer'[i] = toServer[i + 1]
    BY InputRead
  <2>2. 1 \in 1 .. Len(toServer) /\ 1 < i + 1
    BY <1>1
  <2> QED BY <1>3, <2>1, <2>2 DEF InputInv
<1>4. ASSUME NEW i \in 1 .. Len(toServer'), NEW j \in 1 .. Len(toServer'),
             i < j, toServer'[i].kind = "input", toServer'[j].kind = "input"
      PROVE  toServer'[i].hi < toServer'[j].lo
  <2>1. i + 1 \in 1 .. Len(toServer) /\ toServer'[i] = toServer[i + 1]
    BY InputRead
  <2>2. j + 1 \in 1 .. Len(toServer) /\ toServer'[j] = toServer[j + 1]
    BY InputRead
  <2>3. i + 1 < j + 1
    BY <1>4
  <2> QED BY <1>4, <2>1, <2>2, <2>3 DEF InputInv
<1> QED BY <1>2, <1>3, <1>4, InputRead

LEMMA InputStep ==
  ASSUME CtlInv, InputInv, [Next]_vars
  PROVE  InputInv'
<1> DEFINE IsInput(i) == toServer[i].kind = "input"
<1>0. /\ Len(toServer) \in Nat /\ MaxIn \in Nat
      /\ \A i \in 1 .. Len(toServer) : IsInput(i) =>
           toServer[i].lo \in 1 .. MaxIn /\ toServer[i].hi \in 1 .. MaxIn
  BY InputTyped, WebAssumption DEF InputInv
<1>1. CASE UNCHANGED vars
  BY <1>1 DEF vars, runVars, readerVars, clientVars, InputInv
<1>2. CASE /\ UNCHANGED <<options, typed, fed, todo>>
           /\ mr' = "feed" => mr = "feed"
           /\ \/ UNCHANGED toServer
              \/ toServer' = <<>>
              \/ toServer # <<>> /\ toServer' = Tail(toServer)
  <2>1. CASE UNCHANGED toServer
    BY <1>2, <2>1 DEF InputInv
  <2>2. CASE toServer' = <<>>
    BY <1>2, <2>2, WebAssumption DEF InputInv
  <2>3. CASE toServer # <<>> /\ toServer' = Tail(toServer)
    BY <1>2, <2>3, InputRest DEF InputInv
  <2> QED BY <1>2, <2>1, <2>2, <2>3
<1>3. CASE MrInput
  <2>1. PICK m \in Messages :
          /\ WsRead(m)
          /\ m.kind = "input"
          /\ \/ UNCHANGED <<mr, todo>>
             \/ /\ options.permitWrite
                /\ \E last \in m.lo .. m.hi :
                     /\ todo' = [next |-> m.lo, last |-> last]
                     /\ mr' = "feed"
    BY <1>3 DEF MrInput
  <2>2. mr = "read" /\ UNCHANGED <<options, typed, fed>>
    BY <1>3, <2>1 DEF MrInput, WsRead, runVars
  <2>3. /\ m = toServer[1] /\ 1 \in 1 .. Len(toServer)
        /\ toServer # <<>> /\ toServer' = Tail(toServer)
    BY <2>1, InputRead, <1>0 DEF WsRead, InputInv
  <2>4. CASE UNCHANGED <<mr, todo>>
    BY <2>2, <2>3, <2>4, InputRest DEF InputInv
  <2>5. ASSUME NEW last \in m.lo .. m.hi, options.permitWrite,
               todo' = [next |-> m.lo, last |-> last], mr' = "feed"
        PROVE  InputInv'
    <3>1. /\ fed < m.lo /\ m.lo <= last /\ last <= m.hi /\ m.hi <= typed
          /\ m.lo \in 1 .. MaxIn /\ last \in 1 .. MaxIn
      BY <1>0, <2>1, <2>3, <2>5 DEF InputInv
    <3>2. todo' \in [next : 1 .. MaxIn + 1, last : 0 .. MaxIn]
          /\ todo'.next = m.lo /\ todo'.last = last
      BY <3>1, <2>5, <1>0
    <3>3. ASSUME NEW i \in 1 .. Len(toServer'), toServer'[i].kind = "input"
          PROVE  last < toServer'[i].lo
      <4>1. toServer'[i].lo \in 1 .. MaxIn /\ m.hi \in 1 .. MaxIn
        BY <3>3, <2>1, <2>3, InputRest, InputTyped
      <4>2. m.hi < toServer'[i].lo
        BY <3>3, <2>1, <2>3, InputRest
      <4> QED BY <3>1, <4>1, <4>2, <1>0
    <3>4. fed < m.lo /\ m.lo <= last /\ last <= typed
      BY <3>1, <1>0, <2>1, <2>3 DEF InputInv
    <3> QED BY <2>2, <2>3, <2>5, <3>2, <3>3, <3>4, InputRest DEF InputInv
  <2> QED BY <2>1, <2>4, <2>5
<1>4. CASE MrFeed
  <2>1. /\ mr = "feed" /\ fed' = todo.next
        /\ UNCHANGED <<options, typed, toServer>>
    BY <1>4 DEF MrFeed, runVars, clientVars
  <2>2. \/ mr' = "read" /\ todo' = Nothing
        \/ todo.next # todo.last /\ mr' = "feed"
             /\ todo' = [todo EXCEPT !.next = @ + 1]
    BY <1>4 DEF MrFeed
  <2>3. fed < todo.next /\ todo.next <= todo.last /\ todo.last <= typed
        /\ todo.next \in Nat /\ todo.last \in 0 .. MaxIn
    BY <2>1 DEF InputInv
  <2>4. CASE mr' = "read" /\ todo' = Nothing
    BY <1>0, <2>1, <2>3, <2>4 DEF InputInv, Nothing
  <2>5. CASE todo.next # todo.last /\ mr' = "feed"
               /\ todo' = [todo EXCEPT !.next = @ + 1]
    <3>1. /\ todo' \in [next : 1 .. MaxIn + 1, last : 0 .. MaxIn]
          /\ todo'.next = todo.next + 1 /\ todo'.last = todo.last
      BY <1>0, <2>3, <2>5 DEF InputInv
    <3> QED BY <1>0, <2>1, <2>3, <2>5, <3>1 DEF InputInv
  <2> QED BY <2>2, <2>4, <2>5
<1>5. CASE MrFeedFails
  BY <1>0, <1>5 DEF MrFeedFails, Nothing, InputInv, runVars, clientVars
<1>6. CASE ClientSends
  <2>1. UNCHANGED <<options, fed, todo, mr>> /\ Len(toServer) < ClientCap
    BY <1>6 DEF ClientSends, runVars, readerVars
  <2>2. ASSUME NEW m \in [kind : Control], toServer' = Append(toServer, m),
               UNCHANGED typed
        PROVE  InputInv'
    <3>1. m \in Messages /\ m.kind # "input"
      BY WebAssumption DEF Messages
    <3> QED BY <1>0, <2>1, <2>2, <3>1, AppendProperties, WebAssumption DEF InputInv
  <2>3. ASSUME NEW size \in Sizes, typed + size <= MaxIn, typed' = typed + size,
               NEW m, m = [kind |-> "input", lo |-> typed + 1, hi |-> typed + size],
               toServer' = Append(toServer, m)
        PROVE  InputInv'
    <3>1. /\ size \in Nat \ {0} /\ typed' \in 0 .. MaxIn /\ typed < typed'
          /\ typed \in Nat
      BY <2>3, WebAssumption DEF InputInv
    <3>2. m \in Messages /\ m.lo = typed + 1 /\ m.hi = typed'
      BY <2>3, <3>1, <1>0 DEF Messages
    <3>3. toServer' \in Seq(Messages) /\ Len(toServer') = Len(toServer) + 1
            /\ toServer'[Len(toServer) + 1] = m
            /\ \A i \in 1 .. Len(toServer) : toServer'[i] = toServer[i]
      BY <2>3, <3>2, AppendProperties DEF InputInv
    <3>4. ASSUME NEW i \in 1 .. Len(toServer'), toServer'[i].kind = "input"
          PROVE  /\ fed < toServer'[i].lo
                 /\ mr = "feed" => todo.last < toServer'[i].lo
                 /\ toServer'[i].lo <= toServer'[i].hi
                 /\ toServer'[i].hi <= typed'
      <4>1. CASE i \in 1 .. Len(toServer)
        BY <1>0, <3>1, <3>3, <3>4, <4>1 DEF InputInv
      <4>2. CASE i = Len(toServer) + 1
        BY <3>1, <3>2, <3>3, <4>2 DEF InputInv
      <4> QED BY <4>1, <4>2, <3>3, <1>0
    <3>5. ASSUME NEW i \in 1 .. Len(toServer'), NEW j \in 1 .. Len(toServer'),
                 i < j, toServer'[i].kind = "input", toServer'[j].kind = "input"
          PROVE  toServer'[i].hi < toServer'[j].lo
      <4>1. i \in 1 .. Len(toServer) /\ toServer'[i] = toServer[i]
        BY <3>3, <3>5, <1>0
      <4>2. CASE j \in 1 .. Len(toServer)
        BY <3>3, <3>5, <4>1, <4>2 DEF InputInv
      <4>3. CASE j = Len(toServer) + 1
        BY <1>0, <3>1, <3>2, <3>3, <3>5, <4>1, <4>3 DEF InputInv
      <4> QED BY <4>2, <4>3, <3>3, <1>0
    <3> QED BY <1>0, <2>1, <3>1, <3>3, <3>4, <3>5, WebAssumption DEF InputInv
  <2> QED BY <1>6, <2>2, <2>3 DEF ClientSends
<1> QED BY <1>1, <1>2, <1>3, <1>4, <1>5, <1>6, InputFrame

LEMMA InputInvariant == Spec => []InputInv
<1>1. ASSUME Init  PROVE InputInv
  <2>1. options \in Configs /\ typed = 0 /\ fed = 0 /\ todo = Nothing
        /\ toServer = <<>> /\ mr = "none"
    BY <1>1 DEF Init
  <2>2. todo \in [next : 1 .. MaxIn + 1, last : 0 .. MaxIn]
    BY <2>1, WebAssumption DEF Nothing
  <2>3. toServer \in Seq(Messages) /\ Len(toServer) = 0
    BY <2>1
  <2>4. \A i \in 1 .. Len(toServer) : FALSE
    BY <2>3
  <2> QED BY <2>1, <2>2, <2>3, <2>4, WebAssumption DEF InputInv
<1> QED BY <1>1, CtlInvariant, InputStep, PTL DEF Spec

-----------------------------------------------------------------------------
(* Output.                                                                  *)

\* What a step may do to the stream of output.
LEMMA OutputFrame ==
  ASSUME CtlInv, Next
  PROVE  \/ UNCHANGED <<wireVars, shown, taken, sr>>
         \/ /\ UNCHANGED <<wireVars, shown>>
            /\ \/ sr = "none" /\ sr' = "read" /\ taken' = taken
               \/ sr = "read" /\ sr' = "lock" /\ taken' = taken + 1
               \/ sr = "lock" /\ sr' = "write" /\ taken' = taken
               \/ sr = "read" /\ sr' = "done" /\ taken' \in {taken, taken + 1}
         \/ /\ UNCHANGED <<shown, taken, sr>>
            /\ WsWrite(0, TRUE) \/ WsWrite(0, FALSE)
         \/ SrWrite
         \/ ConnClose
         \/ ClientReads
         \/ ClientGone
<1> USE DEF CtlInv, cmdVars, clientVars
<1>1. CASE Run
  BY <1>1 DEF Run, SendInitializeMessage, StartGoroutines, RunReturns
<1>2. CASE SlaveReader \/ SrLock
  BY <1>2 DEF SlaveReader, SrRead, SrReadFails, SrStops, SrLock, PtyRead
<1>3. CASE MasterReader \/ MrLock
  BY <1>3 DEF MasterReader, MrInput, MrFeed, MrFeedFails, MrPing, MrPong,
              MrIgnores, MrFails, MrStops, MrLock, WsRead, PtyWrite
<1>4. CASE PingWatcher \/ Tick
  BY <1>4 DEF PingWatcher, PgSleepsAgain, PgReports, Tick
<1>5. CASE Handler
  BY <1>5 DEF Handler, HandlerCloses, CloseSignals, CloseKills, CloseReturns
<1>6. CASE Command \/ Cancel
  BY <1>6 DEF Cancel, Command, CmdWrites, CmdReads, CmdDies, WaiterClosesPty,
              WaiterDone
<1>7. CASE Client
  BY <1>7 DEF Client, ClientSends
<1> QED BY <1>1, <1>2, <1>3, <1>4, <1>5, <1>6, <1>7 DEF Next

\* The next chunk, or a message without output, joins the others.
LEMMA OutputAppend ==
  ASSUME OutputInv, taken \in Nat, Sent' \in Nat,
         NEW m \in Nat, toClient' = Append(toClient, m), Len(toClient) < NetCap,
         \/ m = 0 /\ Sent' = Sent /\ sr' = sr
         \/ m = Sent + 1 /\ Sent' = m /\ sr # "done",
         conn = "open", UNCHANGED <<conn, writeErr, shown>>
  PROVE  OutputInv'
<1>1. /\ toClient' \in Seq(Nat) /\ Len(toClient') = Len(toClient) + 1
      /\ Len(toClient) \in Nat /\ toClient'[Len(toClient) + 1] = m
      /\ \A i \in 1 .. Len(toClient) : toClient'[i] = toClient[i]
  BY AppendProperties DEF OutputInv
<1>2. Sent \in Int /\ shown \in Nat /\ shown <= Sent /\ Sent <= Sent'
  BY DEF OutputInv, Sent
<1>3. \A i \in 1 .. Len(toClient') :
        i \in 1 .. Len(toClient) \/ i = Len(toClient) + 1
  BY <1>1
<1>4. ASSUME NEW i \in 1 .. Len(toClient'), toClient'[i] # 0
      PROVE  shown < toClient'[i] /\ toClient'[i] <= Sent'
  <2>1. CASE i \in 1 .. Len(toClient)
    BY <1>1, <1>2, <1>4, <2>1 DEF OutputInv
  <2>2. CASE i = Len(toClient) + 1
    BY <1>1, <1>2, <1>4, <2>2
  <2> QED BY <1>3, <2>1, <2>2
<1>5. ASSUME NEW i \in 1 .. Len(toClient'), NEW j \in 1 .. Len(toClient'),
             i < j, toClient'[i] # 0, toClient'[j] # 0
      PROVE  toClient'[i] < toClient'[j]
  <2>1. i \in 1 .. Len(toClient) /\ toClient'[i] = toClient[i]
    BY <1>1, <1>5
  <2>2. CASE j \in 1 .. Len(toClient)
    BY <1>1, <1>5, <2>1, <2>2 DEF OutputInv
  <2>3. CASE j = Len(toClient) + 1
    <3>1. m = Sent + 1 /\ toClient[i] <= Sent /\ toClient[i] \in Nat
      BY <1>1, <1>5, <2>1, <2>3 DEF OutputInv
    <3> QED BY <1>1, <1>2, <2>1, <2>3, <3>1
  <2> QED BY <1>3, <2>2, <2>3
<1>6. sr' # "done" => sr # "done" \/ m = Sent + 1
  OBVIOUS
<1>7. ASSUME sr # "done", NEW k \in shown + 1 .. Sent'
      PROVE  \E j \in 1 .. Len(toClient') : toClient'[j] = k
  <2>1. CASE k <= Sent
    <3>1. k \in shown + 1 .. Sent
      BY <1>2, <2>1
    <3>2. PICK j \in 1 .. Len(toClient) : toClient[j] = k
      BY <1>7, <3>1 DEF OutputInv
    <3>3. j \in 1 .. Len(toClient') /\ toClient'[j] = k
      BY <1>1, <3>2
    <3> QED BY <3>3
  <2>2. CASE k > Sent
    <3>1. k = m /\ Len(toClient) + 1 \in 1 .. Len(toClient')
      BY <1>1, <1>2, <2>2
    <3> QED BY <1>1, <3>1
  <2> QED BY <1>2, <2>1, <2>2
<1>8. ASSUME NEW i \in 1 .. Len(toClient'), toClient'[i] # 0,
             NEW k \in shown + 1 .. toClient'[i]
      PROVE  \E j \in 1 .. i : toClient'[j] = k
  <2>1. CASE i \in 1 .. Len(toClient)
    <3>1. PICK j \in 1 .. i : toClient[j] = k
      BY <1>1, <1>8, <2>1 DEF OutputInv
    <3>2. toClient'[j] = k
      BY <1>1, <2>1, <3>1
    <3> QED BY <3>2
  <2>2. CASE i = Len(toClient) + 1
    <3>1. m = Sent' /\ sr # "done" /\ toClient'[i] = m
      BY <1>1, <1>8, <2>2
    <3> QED BY <1>1, <1>7, <1>8, <2>2, <3>1
  <2> QED BY <1>3, <2>1, <2>2
<1>9. shown' <= Sent' /\ Len(toClient') <= NetCap
  BY <1>1, <1>2, WebAssumption
<1> QED BY <1>1, <1>4, <1>5, <1>6, <1>7, <1>8, <1>9 DEF OutputInv

\* Nothing is sent and nothing is read.
LEMMA OutputSame ==
  ASSUME OutputInv, UNCHANGED <<toClient, shown>>,
         Sent \in Int, Sent' \in Int, Sent <= Sent',
         conn' \in {"open", "peerGone", "closed"}, writeErr' \in BOOLEAN,
         conn' = "open" => ~writeErr' /\ conn = "open",
         conn' = "open" /\ sr' # "done" => sr # "done" /\ Sent' = Sent
  PROVE  OutputInv'
<1>1. \A i \in 1 .. Len(toClient) : toClient[i] \in Nat
  BY DEF OutputInv
<1>2. \A i \in 1 .. Len(toClient) :
        toClient[i] # 0 => shown < toClient[i] /\ toClient[i] <= Sent'
  BY <1>1 DEF OutputInv
<1>3. shown \in Nat /\ shown <= Sent'
  BY DEF OutputInv
<1>4. \A i \in 1 .. Len(toClient) : toClient[i] # 0 =>
       \A k \in shown + 1 .. toClient[i] : \E j \in 1 .. i : toClient[j] = k
  BY DEF OutputInv
<1>5. conn' = "open" /\ sr' # "done" =>
       \A k \in shown + 1 .. Sent' : \E j \in 1 .. Len(toClient) : toClient[j] = k
  BY DEF OutputInv
<1> QED BY <1>2, <1>3, <1>4, <1>5 DEF OutputInv

\* What the browser reads is the next chunk, if it is output at all.
LEMMA NextIsShown ==
  ASSUME OutputInv, toClient # <<>>
  PROVE  /\ Len(toClient) \in Nat \ {0}
         /\ Head(toClient) = toClient[1]
         /\ toClient[1] # 0 => toClient[1] = shown + 1
<1>1. Len(toClient) \in Nat \ {0} /\ Head(toClient) = toClient[1]
  BY EmptySeq, LenProperties DEF OutputInv
<1>2. ASSUME toClient[1] # 0  PROVE toClient[1] = shown + 1
  <2>1. shown \in Nat /\ toClient[1] \in Nat /\ shown < toClient[1]
    BY <1>1, <1>2 DEF OutputInv
  <2>2. shown + 1 \in shown + 1 .. toClient[1]
    BY <2>1
  <2>3. PICK j \in 1 .. 1 : toClient[j] = shown + 1
    BY <1>1, <1>2, <2>2 DEF OutputInv
  <2> QED BY <2>3
<1> QED BY <1>1, <1>2

LEMMA OutputRead ==
  ASSUME OutputInv, toClient # <<>>, toClient' = Tail(toClient),
         shown' = IF Head(toClient) = 0 THEN shown ELSE Head(toClient),
         Sent \in Int, UNCHANGED <<conn, writeErr, taken, sr>>
  PROVE  OutputInv'
<1> DEFINE h == toClient[1]
<1>1. /\ Len(toClient) \in Nat \ {0} /\ toClient' \in Seq(Nat)
      /\ Len(toClient') = Len(toClient) - 1
      /\ \A i \in 1 .. Len(toClient') : toClient'[i] = toClient[i + 1]
  BY NextIsShown, HeadTailProperties DEF OutputInv
<1>2. /\ \A i \in 1 .. Len(toClient') :
           i + 1 \in 1 .. Len(toClient) /\ toClient'[i] \in Nat
      /\ 1 \in 1 .. Len(toClient) /\ h \in Nat
  BY <1>1 DEF OutputInv
<1>3. /\ shown \in Nat /\ shown' \in Nat /\ Sent' = Sent /\ shown' <= Sent
      /\ \/ h = 0 /\ shown' = shown
         \/ h = shown + 1 /\ shown' = h
  BY <1>2, NextIsShown DEF OutputInv, Sent
<1>4. ASSUME NEW i \in 1 .. Len(toClient'), toClient'[i] # 0
      PROVE  shown' < toClient'[i] /\ toClient'[i] <= Sent
  <2>1. shown < toClient[i + 1] /\ toClient[i + 1] <= Sent
    BY <1>1, <1>2, <1>4 DEF OutputInv
  <2>2. h # 0 => h < toClient[i + 1]
    BY <1>1, <1>2, <1>4 DEF OutputInv
  <2> QED BY <1>1, <1>2, <1>3, <2>1, <2>2
<1>5. ASSUME NEW i \in 1 .. Len(toClient'), NEW j \in 1 .. Len(toClient'),
             i < j, toClient'[i] # 0, toClient'[j] # 0
      PROVE  toClient'[i] < toClient'[j]
  <2>1. i + 1 < j + 1
    BY <1>5
  <2> QED BY <1>1, <1>2, <1>5, <2>1 DEF OutputInv
<1>6. ASSUME NEW k \in Int, shown' < k, NEW j \in 1 .. Len(toClient), toClient[j] = k
      PROVE  j - 1 \in 1 .. Len(toClient') /\ toClient'[j - 1] = k
  <2>1. j # 1
    BY <1>2, <1>3, <1>6
  <2>2. j - 1 \in 1 .. Len(toClient')
    BY <1>1, <2>1
  <2> QED BY <1>1, <1>6, <2>2
<1>7. ASSUME NEW i \in 1 .. Len(toClient'), toClient'[i] # 0,
             NEW k \in shown' + 1 .. toClient'[i]
      PROVE  \E j \in 1 .. i : toClient'[j] = k
  <2>1. k \in shown + 1 .. toClient[i + 1] /\ toClient[i + 1] # 0 /\ shown' < k
    BY <1>1, <1>2, <1>3, <1>7
  <2>2. PICK j \in 1 .. i + 1 : toClient[j] = k
    BY <1>2, <2>1 DEF OutputInv
  <2>3. j \in 1 .. Len(toClient) /\ k \in Int
    BY <1>1, <1>2
  <2>4. j - 1 \in 1 .. i /\ toClient'[j - 1] = k
    BY <1>6, <2>1, <2>2, <2>3
  <2> QED BY <2>4
<1>8. ASSUME conn = "open", sr # "done", NEW k \in shown' + 1 .. Sent
      PROVE  \E j \in 1 .. Len(toClient') : toClient'[j] = k
  <2>1. k \in shown + 1 .. Sent /\ shown' < k /\ k \in Int
    BY <1>3
  <2>2. PICK j \in 1 .. Len(toClient) : toClient[j] = k
    BY <1>8, <2>1 DEF OutputInv
  <2> QED BY <1>6, <2>1, <2>2
<1>9. Len(toClient') <= NetCap
  BY <1>1, WebAssumption DEF OutputInv
<1> QED BY <1>1, <1>3, <1>4, <1>5, <1>7, <1>8, <1>9 DEF OutputInv

LEMMA OutputStep ==
  ASSUME CmdInv, CtlInv, OutputInv, [Next]_vars, CmdInv', CtlInv'
  PROVE  OutputInv'
<1>1. /\ taken \in Nat /\ taken' \in Nat
      /\ Sent = IF sr \in {"lock", "write"} THEN taken - 1 ELSE taken
      /\ Sent' = IF sr' \in {"lock", "write"} THEN taken' - 1 ELSE taken'
      /\ Sent \in Int /\ Sent' \in Int
  <2>1. taken \in Nat /\ taken' \in Nat
    BY PtyAssumption DEF CmdInv, CmdTypeOK
  <2>2. /\ Sent = IF sr \in {"lock", "write"} THEN taken - 1 ELSE taken
        /\ Sent' = IF sr' \in {"lock", "write"} THEN taken' - 1 ELSE taken'
    BY DEF Sent
  <2> QED BY <2>1, <2>2
<1>2. /\ conn \in {"open", "peerGone", "closed"} /\ writeErr \in BOOLEAN
      /\ conn = "open" => ~writeErr
  BY DEF OutputInv
<1>3. CASE UNCHANGED <<wireVars, shown, taken, sr>>
  BY <1>1, <1>2, <1>3, OutputSame DEF wireVars
<1>4. CASE /\ UNCHANGED <<wireVars, shown>>
           /\ \/ sr = "none" /\ sr' = "read" /\ taken' = taken
              \/ sr = "read" /\ sr' = "lock" /\ taken' = taken + 1
              \/ sr = "lock" /\ sr' = "write" /\ taken' = taken
              \/ sr = "read" /\ sr' = "done" /\ taken' \in {taken, taken + 1}
  <2>1. Sent <= Sent' /\ (sr' # "done" => sr # "done" /\ Sent' = Sent)
    <3>1. CASE sr = "none" /\ sr' = "read" /\ taken' = taken
      BY <1>1, <3>1
    <3>2. CASE sr = "read" /\ sr' = "lock" /\ taken' = taken + 1
      BY <1>1, <3>2
    <3>3. CASE sr = "lock" /\ sr' = "write" /\ taken' = taken
      BY <1>1, <3>3
    <3>4. CASE sr = "read" /\ sr' = "done" /\ taken' \in {taken, taken + 1}
      BY <1>1, <3>4
    <3> QED BY <1>4, <3>1, <3>2, <3>3, <3>4
  <2> QED BY <1>1, <1>2, <1>4, <2>1, OutputSame DEF wireVars
<1>5. CASE /\ UNCHANGED <<shown, taken, sr>>
           /\ WsWrite(0, TRUE) \/ WsWrite(0, FALSE)
  <2>1. Sent' = Sent
    BY <1>5 DEF Sent
  <2>2. CASE /\ conn = "open" /\ Len(toClient) < NetCap
             /\ toClient' = Append(toClient, 0) /\ UNCHANGED <<conn, writeErr>>
    <3>1. Sent' \in Nat
      <4>1. shown \in Nat /\ shown <= Sent
        BY DEF OutputInv
      <4>2. Sent \in Int
        BY <1>1
      <4>3. Sent \in Nat
        BY <4>1, <4>2
      <4> QED BY <2>1, <4>3
    <3> QED BY <1>1, <1>5, <2>1, <2>2, <3>1, OutputAppend
  <2>3. CASE /\ conn # "open" /\ writeErr' \in BOOLEAN
             /\ UNCHANGED <<conn, toClient>>
    BY <1>1, <1>2, <1>5, <2>1, <2>3, OutputSame
  <2>4. CASE UNCHANGED wireVars
    BY <1>1, <1>2, <1>5, <2>1, <2>4, OutputSame DEF wireVars
  <2> QED BY <1>5, <2>2, <2>3, <2>4 DEF WsWrite
<1>6. CASE SrWrite
  <2>1. sr = "write" /\ UNCHANGED <<shown, taken>>
    BY <1>6 DEF SrWrite, cmdVars, clientVars
  <2>2. CASE /\ conn = "open" /\ Len(toClient) < NetCap /\ sr' = "read"
             /\ toClient' = Append(toClient, taken) /\ UNCHANGED <<conn, writeErr>>
    <3>1. Sent' = taken /\ taken = Sent + 1
      BY <1>1, <2>1, <2>2
    <3> QED BY <1>1, <2>1, <2>2, <3>1, OutputAppend
  <2>3. CASE /\ conn # "open" /\ writeErr' \in BOOLEAN /\ sr' = "read"
             /\ UNCHANGED <<conn, toClient>>
    BY <1>1, <1>2, <2>1, <2>3, OutputSame
  <2>4. CASE writeErr /\ UNCHANGED wireVars /\ sr' = "done"
    BY <1>1, <1>2, <2>1, <2>4, OutputSame DEF wireVars
  <2> QED BY <1>6, <2>2, <2>3, <2>4 DEF SrWrite, WsWrite
<1>7. CASE ConnClose
  <2>1. conn' = "closed" /\ UNCHANGED <<writeErr, toClient, shown, taken, sr>>
    BY <1>7 DEF ConnClose, cmdVars
  <2> QED BY <1>1, <1>2, <2>1, OutputSame
<1>8. CASE ClientReads
  <2>1. /\ toClient # <<>> /\ toClient' = Tail(toClient)
        /\ shown' = IF Head(toClient) = 0 THEN shown ELSE Head(toClient)
        /\ UNCHANGED <<conn, writeErr, taken, sr>>
    BY <1>8 DEF ClientReads, cmdVars
  <2> QED BY <1>1, <2>1, OutputRead
<1>9. CASE ClientGone
  <2>1. /\ conn' = "peerGone" /\ toClient' = <<>> /\ Sent' = Sent
        /\ UNCHANGED <<writeErr, shown>>
    BY <1>9 DEF ClientGone, cmdVars, clientVars, Sent
  <2>2. toClient' \in Seq(Nat) /\ Len(toClient') = 0
    BY <2>1
  <2>3. \A i \in 1 .. Len(toClient') : FALSE
    BY <2>2
  <2>4. Len(toClient') <= NetCap
    BY <2>2, WebAssumption
  <2> QED BY <1>2, <2>1, <2>2, <2>3, <2>4 DEF OutputInv
<1> QED BY <1>3, <1>4, <1>5, <1>6, <1>7, <1>8, <1>9, OutputFrame
        DEF vars, wireVars, clientVars, cmdVars

LEMMA OutputInvariant == Spec => []OutputInv
<1>1. ASSUME Init  PROVE OutputInv
  <2>1. /\ conn = "open" /\ writeErr = FALSE /\ toClient = <<>> /\ shown = 0
        /\ sr = "none" /\ taken = 0
    BY <1>1 DEF Init, CmdInit
  <2>2. Sent = 0 /\ toClient \in Seq(Nat) /\ Len(toClient) = 0
    BY <2>1 DEF Sent
  <2>3. (\A i \in 1 .. Len(toClient) : FALSE) /\ (\A k \in shown + 1 .. Sent : FALSE)
    BY <2>1, <2>2
  <2>4. /\ writeErr \in BOOLEAN /\ (conn = "open" => ~writeErr)
        /\ conn \in {"open", "peerGone", "closed"}
    BY <2>1
  <2>5. shown \in Nat /\ shown <= Sent /\ Len(toClient) <= NetCap
    BY <2>1, <2>2, WebAssumption
  <2> QED BY <2>2, <2>3, <2>4, <2>5 DEF OutputInv
<1> QED BY <1>1, CmdInvariant, CtlInvariant, OutputStep, PTL DEF Spec

-----------------------------------------------------------------------------
(* Types.                                                                   *)

LEMMA InitSentInvariant == Spec => [](options \in Configs /\ initSent \in 0 .. 3)
<1> DEFINE Inv == options \in Configs /\ initSent \in 0 .. options.messages
<1>1. Init => Inv
  BY WebAssumption DEF Init
<1>2. ASSUME Next
      PROVE  \/ UNCHANGED <<options, initSent>>
             \/ /\ initSent < options.messages
                /\ initSent' \in {initSent, initSent + 1} /\ options' = options
  <2> USE DEF runVars
  <2>1. CASE Run
    BY <2>1 DEF Run, SendInitializeMessage, StartGoroutines, RunReturns
  <2>2. CASE SlaveReader \/ SrLock
    BY <2>2 DEF SlaveReader, SrRead, SrReadFails, SrStops, SrWrite, SrLock
  <2>3. CASE MasterReader \/ MrLock
    BY <2>3 DEF MasterReader, MrInput, MrFeed, MrFeedFails, MrPing, MrPong,
                MrIgnores, MrFails, MrStops, MrLock
  <2>4. CASE PingWatcher \/ Tick
    BY <2>4 DEF PingWatcher, PgSleepsAgain, PgReports, Tick
  <2>5. CASE Handler
    BY <2>5 DEF Handler, HandlerCloses, ConnClose
  <2>6. CASE Command \/ Cancel
    BY <2>6 DEF Cancel, Command
  <2>7. CASE Client
    BY <2>7 DEF Client, ClientReads, ClientSends, ClientGone
  <2> QED BY <1>2, <2>1, <2>2, <2>3, <2>4, <2>5, <2>6, <2>7 DEF Next
<1>3. Inv /\ [Next]_vars => Inv'
  BY <1>2, WebAssumption DEF vars, runVars
<1>4. Inv => options \in Configs /\ initSent \in 0 .. 3
  BY WebAssumption
<1> QED BY <1>1, <1>3, <1>4, PTL DEF Spec

\* The variables keep their types and the queues their limits: a chunk on its
\* way was produced, and no more input is fed than was typed.
THEOREM SessionTypes == Spec => []TypeOK
<1>1. ASSUME CmdInv, CtlInv, EndInv, TimeInv, InputInv, OutputInv,
             initSent \in 0 .. 3
      PROVE  TypeOK
  <2>1. /\ CmdTypeOK /\ run \in {"init", "select", "returned", "ended"}
        /\ produced \in 0 .. MaxOut /\ taken \in 0 .. produced /\ MaxOut \in Nat
    BY <1>1, PtyAssumption DEF CmdInv, CmdTypeOK
  <2>2. Sent \in Int /\ Sent <= produced
    BY <2>1 DEF Sent
  <2>3. shown \in 0 .. produced
    BY <1>1, <2>1, <2>2 DEF OutputInv
  <2>4. toClient \in Seq(0 .. MaxOut)
    <3>1. toClient \in Seq(Nat)
      BY <1>1 DEF OutputInv
    <3>2. ASSUME NEW i \in 1 .. Len(toClient)  PROVE toClient[i] \in 0 .. MaxOut
      <4>1. toClient[i] \in Nat
        BY <3>1
      <4>2. toClient[i] = 0 \/ toClient[i] <= Sent
        BY <1>1 DEF OutputInv
      <4> QED BY <2>1, <2>2, <4>1, <4>2
    <3>3. Len(toClient) \in Nat /\ toClient \in [1 .. Len(toClient) -> Nat]
      BY <3>1, LenProperties
    <3>4. toClient \in [1 .. Len(toClient) -> 0 .. MaxOut]
      BY <3>2, <3>3
    <3> QED BY <3>3, <3>4, SeqDef
  <2>5. Len(toClient) <= NetCap /\ conn \in {"open", "peerGone", "closed"}
          /\ writeErr \in BOOLEAN
    BY <1>1 DEF OutputInv
  <2>6. /\ options \in Configs
        /\ todo \in [next : 1 .. MaxIn + 1, last : 0 .. MaxIn]
        /\ toServer \in Seq(Messages) /\ Len(toServer) <= ClientCap
        /\ typed \in 0 .. MaxIn /\ fed \in 0 .. typed
    BY <1>1 DEF InputInv
  <2>7. /\ mutex \in {"free", "sr", "mr"}
        /\ sr \in {"none", "read", "lock", "write", "done"}
        /\ mr \in {"none", "read", "feed", "lock", "pong", "done"}
        /\ pg \in {"none", "sleep", "done"}
    BY <1>1 DEF CtlInv
  <2>8. /\ errs \in Seq(Results) /\ runErr \in Results \cup {"none"}
        /\ cancelled \in BOOLEAN
    BY <1>1 DEF EndInv
  <2>9. sleep \in 0 .. CheckPeriod /\ sincePing \in Nat
    BY <1>1 DEF TimeInv
  <2> QED BY <1>1, <2>1, <2>3, <2>4, <2>5, <2>6, <2>7, <2>8, <2>9 DEF TypeOK
<1> QED BY <1>1, CmdInvariant, CtlInvariant, EndInvariant, TimeInvariant,
           InputInvariant, OutputInvariant, InitSentInvariant, PTL

-----------------------------------------------------------------------------
(* Refinement.                                                              *)

\* What a step may do to what Bridge sees.
LEMMA BridgeFrame ==
  ASSUME Next
  PROVE  \/ UNCHANGED <<options, produced, shown, typed, fed>>
         \/ CmdWrites /\ UNCHANGED <<options, shown, typed, fed>>
         \/ ClientReads
         \/ ClientSends
         \/ MrFeed
<1> USE DEF runVars, cmdVars, clientVars, readerVars
<1>1. CASE Run
  BY <1>1 DEF Run, SendInitializeMessage, StartGoroutines, RunReturns
<1>2. CASE SlaveReader \/ SrLock
  BY <1>2 DEF SlaveReader, SrRead, SrReadFails, SrStops, SrWrite, SrLock, PtyRead
<1>3. CASE MasterReader \/ MrLock
  BY <1>3 DEF MasterReader, MrInput, MrFeedFails, MrPing, MrPong, MrIgnores,
              MrFails, MrStops, MrLock, WsRead
<1>4. CASE PingWatcher \/ Tick
  BY <1>4 DEF PingWatcher, PgSleepsAgain, PgReports, Tick
<1>5. CASE Handler
  BY <1>5 DEF Handler, HandlerCloses, CloseSignals, CloseKills, CloseReturns,
              ConnClose
<1>6. CASE Command \/ Cancel
  BY <1>6 DEF Cancel, Command, CmdReads, CmdDies, WaiterClosesPty, WaiterDone
<1>7. CASE Client
  BY <1>7 DEF Client, ClientGone
<1> QED BY <1>1, <1>2, <1>3, <1>4, <1>5, <1>6, <1>7 DEF Next

LEMMA BridgeStep ==
  ASSUME CmdInv, InputInv, OutputInv, [Next]_vars
  PROVE  [Promise!Next]_Promise!vars
<1> USE DEF Promise!Next, Promise!vars
<1>1. CASE UNCHANGED <<options, produced, shown, typed, fed>>
  BY <1>1
<1>2. CASE CmdWrites /\ UNCHANGED <<options, shown, typed, fed>>
  BY <1>2 DEF CmdWrites, Promise!Produce
<1>3. CASE ClientReads
  <2>1. /\ UNCHANGED <<options, produced, typed, fed>> /\ toClient # <<>>
        /\ shown' = IF Head(toClient) = 0 THEN shown ELSE Head(toClient)
    BY <1>3 DEF ClientReads, runVars, cmdVars, readerVars
  <2>2. CASE Head(toClient) = 0
    BY <2>1, <2>2
  <2>3. CASE Head(toClient) # 0
    <3>1. shown' = shown + 1 /\ shown' <= Sent /\ 1 \in 1 .. Len(toClient)
      BY <2>1, <2>3, NextIsShown DEF OutputInv
    <3>2. taken \in 0 .. produced /\ produced \in Nat /\ shown \in Nat
      BY PtyAssumption DEF CmdInv, CmdTypeOK, OutputInv
    <3>3. Sent <= taken
      BY <3>2 DEF Sent
    <3>4. Sent \in Int
      BY <3>2 DEF Sent
    <3>5. shown < produced
      BY <3>1, <3>2, <3>3, <3>4
    <3> QED BY <2>1, <3>1, <3>5 DEF Promise!Show
  <2> QED BY <2>2, <2>3
<1>4. CASE ClientSends
  <2>1. UNCHANGED <<options, produced, shown, fed>>
    BY <1>4 DEF ClientSends, runVars, cmdVars, readerVars
  <2>2. typed' = typed \/ \E size \in Sizes : typed + size <= MaxIn /\ typed' = typed + size
    BY <1>4 DEF ClientSends
  <2>3. typed' = typed \/ typed' \in typed + 1 .. MaxIn
    BY <2>2, WebAssumption DEF InputInv
  <2> QED BY <2>1, <2>3 DEF Promise!Type
<1>5. CASE MrFeed
  <2>1. /\ UNCHANGED <<options, produced, shown, typed>>
        /\ mr = "feed" /\ fed' = todo.next
    BY <1>5 DEF MrFeed, PtyWrite, runVars, clientVars
  <2>2. options.permitWrite /\ fed < todo.next /\ todo.next <= typed
    BY <2>1, WebAssumption DEF InputInv
  <2>3. fed' \in fed + 1 .. typed
    BY <2>1, <2>2, WebAssumption DEF InputInv
  <2> QED BY <2>1, <2>2, <2>3 DEF Promise!Feed
<1> QED BY <1>1, <1>2, <1>3, <1>4, <1>5, BridgeFrame
        DEF vars, runVars, cmdVars, clientVars, readerVars

\* A session implements Bridge: the browser shows the output in order and
\* without gaps, and the command gets input in order, and none without
\* --permit-write (webtty.go:79-97, 201-257, ws_wrapper.go:11-18).
THEOREM SessionKeepsOrder == Spec => KeepsOrder
<1>1. Init => Promise!Init
  BY WebAssumption DEF Init, CmdInit, Promise!Init
<1> QED BY <1>1, BridgeStep, CmdInvariant, InputInvariant, OutputInvariant, PTL
        DEF Spec, KeepsOrder, Promise!Spec
=============================================================================
