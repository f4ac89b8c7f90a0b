---------------------------- MODULE LocalCommand ----------------------------
(***************************************************************************)
(* A command behind a pty (backend/localcommand/local_command.go): the     *)
(* process, the goroutine of New that waits for it and then closes the     *)
(* pty, the two buffers of the pty, and Close.                             *)
(*                                                                         *)
(* Chunks of output are numbered in the order the command writes them: the *)
(* pty holds chunks taken + 1 .. produced.  Of the input in the pty only   *)
(* the amount matters.  The kernel hangs the pty up when its session       *)
(* leader, the command, is dead: reads return what is left and then fail,  *)
(* writes fail.                                                            *)
(***************************************************************************)
EXTENDS Integers

CONSTANTS
  PtyCap,  \* chunks that fit into each buffer of the pty
  MaxOut   \* bound on the chunks a command writes

ASSUME PtyAssumption == PtyCap \in Nat \ {0} /\ MaxOut \in Nat

VARIABLES
  cmd,       \* the process; "killed" between SIGKILL and its death
  waiter,    \* the goroutine of New; ptyClosed is closed when it is "done"
  closing,   \* the call of Close
  produced,  \* chunks written by the command
  taken,     \* chunks read from the pty
  queued     \* input in the pty that the command has not read

cmdVars == <<cmd, waiter, closing, produced, taken, queued>>

CmdTypeOK ==
  /\ cmd \in {"running", "killed", "dead"}
  /\ waiter \in {"waiting", "ptyClosed", "done"}
  /\ closing \in {"no", "select", "returned"}
  /\ produced \in 0 .. MaxOut
  /\ taken \in 0 .. produced
  /\ produced - taken <= PtyCap
  /\ queued \in 0 .. PtyCap

\* New: pty.Start
CmdInit ==
  /\ cmd = "running"
  /\ waiter = "waiting"
  /\ closing = "no"
  /\ produced = 0
  /\ taken = 0
  /\ queued = 0

-----------------------------------------------------------------------------
(* The process and the kernel.                                              *)

CmdWrites ==
  /\ cmd = "running"
  /\ produced < MaxOut
  /\ produced - taken < PtyCap
  /\ produced' = produced + 1
  /\ UNCHANGED <<cmd, waiter, closing, taken, queued>>

CmdReads ==
  /\ cmd = "running"
  /\ queued > 0
  /\ queued' = queued - 1
  /\ UNCHANGED <<cmd, waiter, closing, produced, taken>>

\* By itself, by the signal of Close, which it may as well ignore, or by
\* SIGKILL.
CmdDies ==
  /\ cmd # "dead"
  /\ cmd' = "dead"
  /\ UNCHANGED <<waiter, closing, produced, taken, queued>>

-----------------------------------------------------------------------------
(* The goroutine of New.                                                    *)

\* lcmd.cmd.Wait(), then lcmd.pty.Close(): what was not read is lost.
WaiterClosesPty ==
  /\ waiter = "waiting"
  /\ cmd = "dead"
  /\ waiter' = "ptyClosed"
  /\ UNCHANGED <<cmd, closing, produced, taken, queued>>

\* close(lcmd.ptyClosed)
WaiterDone ==
  /\ waiter = "ptyClosed"
  /\ waiter' = "done"
  /\ UNCHANGED <<cmd, closing, produced, taken, queued>>

-----------------------------------------------------------------------------
(* Read and Write, for their callers to compose.                            *)

\* A Read that returns the next chunk.
PtyRead ==
  /\ waiter = "waiting"
  /\ taken < produced
  /\ taken' = taken + 1
  /\ UNCHANGED <<cmd, waiter, closing, produced, queued>>

PtyReadFails == waiter # "waiting" \/ (cmd = "dead" /\ taken = produced)

\* One unit of a Write, which blocks while the pty is full.
PtyWrite ==
  /\ waiter = "waiting"
  /\ cmd # "dead"
  /\ queued < PtyCap
  /\ queued' = queued + 1
  /\ UNCHANGED <<cmd, waiter, closing, produced, taken>>

PtyWriteFails == waiter # "waiting" \/ cmd = "dead"

-----------------------------------------------------------------------------
(* Close.                                                                   *)

\* Process.Signal(closeSignal)
CloseSignals ==
  /\ closing = "no"
  /\ closing' = "select"
  /\ UNCHANGED <<cmd, waiter, produced, taken, queued>>

\* A mistake in its place: SIGKILL taken for the end of the process.
CloseKillsAndReturns ==
  /\ closing = "select"
  /\ cmd = "running"
  /\ cmd' = "killed"
  /\ closing' = "returned"
  /\ UNCHANGED <<waiter, produced, taken, queued>>

\* case <-lcmd.closeTimeoutC(): Process.Signal(SIGKILL), and again after the
\* next timeout, which changes nothing.  Factory leaves closeTimeout >= 0.
CloseKills ==
  /\ closing = "select"
  /\ cmd = "running"
  /\ cmd' = "killed"
  /\ UNCHANGED <<waiter, closing, produced, taken, queued>>

\* case <-lcmd.ptyClosed
CloseReturns ==
  /\ closing = "select"
  /\ waiter = "done"
  /\ closing' = "returned"
  /\ UNCHANGED <<cmd, waiter, produced, taken, queued>>
=============================================================================
