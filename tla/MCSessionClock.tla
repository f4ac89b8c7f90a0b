--------------------------- MODULE MCSessionClock ---------------------------
(***************************************************************************)
(* WebTTY with a clock against which goroutines are quick: time passes,    *)
(* and the ping goroutine goes on, only when the two readers of the        *)
(* session cannot and the browser has read all it was sent.  The client    *)
(* lets no LostPing units pass without a ping, as webtty.ts:97-99 does.    *)
(***************************************************************************)
EXTENDS MCWebTTY

VARIABLE heard  \* time since the last ping reached the server

SrWaits == sr = "read" /\ taken = produced

MrWaits ==
  \/ mr = "read" /\ toServer = <<>>
  \/ mr = "feed" /\ queued = PtyCap

PingSent ==
  /\ Len(toServer') > Len(toServer)
  /\ toServer'[Len(toServer')].kind = "ping"

ClockInit == Init /\ heard = 0

ClockNext ==
  /\ Next
  /\ Tick \/ PingWatcher => SrWaits /\ MrWaits /\ toClient = <<>>
  /\ Tick => heard < LostPing
  /\ heard' = IF PingSent THEN 0 ELSE IF Tick THEN heard + 1 ELSE heard

ClockSpec == ClockInit /\ [][ClockNext]_<<vars, heard>>

\* ErrConnectionLostPing "is returned if no ping within a duration"
\* (webtty/errors.go:14): while Run is on, the ping goroutine gives up only
\* when no ping has reached the server in that time.
PingsKeepAlive ==
  [][pg = "sleep" /\ pg' = "done" /\ run = "select" => heard > LostPing]_<<vars, heard>>
=============================================================================
