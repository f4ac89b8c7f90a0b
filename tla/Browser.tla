------------------------------ MODULE Browser ------------------------------
(***************************************************************************)
(* The page in the browser: WebTTY.open (js/src/webtty.ts) with the        *)
(* websocket, its two timers and one of the two terminal widgets.          *)
(*                                                                         *)
(* All callbacks of a page share the variables `connection', `pingTimer'   *)
(* and `reconnectTimeout' of open.  Connections are numbered as they are   *)
(* created, a timer bears the number of the connection in whose callback   *)
(* it was set, and the variables above hold the last one.  An action is    *)
(* one task of the event loop.                                             *)
(***************************************************************************)
EXTENDS Integers, FiniteSets

CONSTANTS
  Widgets,   \* the widgets considered
  Sizes,     \* the sizes of the window
  MaxConns   \* bound on the connections of a page

\* what a widget says of its size before it has been told
Unknown == 0

ASSUME BrowserAssumption ==
  /\ Widgets \subseteq {"xterm", "hterm"}
  /\ Unknown \notin Sizes
  /\ MaxConns \in Nat \ {0}

VARIABLES
  widget,
  page,              \* "loaded" until the unload event
  n,                 \* `connection' is number n
  socket,            \* the websocket under it
  reconnect,         \* this.reconnect > 0
  pingTimer,         \* the variables of open, 0 before they are set
  reconnectTimeout,
  pinging,           \* the intervals running
  waiting,           \* the timeouts pending
  handlers,          \* callbacks of the page for input and for resizes
  size,              \* the size of the window
  noted,             \* columns and rows of Hterm
  told               \* the size last sent on `connection'

\* readyState; CLOSING is taken as open, since its sends come to nothing and
\* the close event is still to come.
ConnStates == {"connecting", "open", "closed"}

timerVars == <<pingTimer, reconnectTimeout, pinging, waiting>>
sizeVars == <<size, noted, told>>
vars == <<widget, page, n, socket, reconnect, timerVars, handlers, sizeVars>>

TypeOK ==
  /\ widget \in Widgets
  /\ page \in {"loaded", "unloaded"}
  /\ n \in 1 .. MaxConns
  /\ socket \in ConnStates
  /\ reconnect \in BOOLEAN
  /\ pingTimer \in 0 .. MaxConns
  /\ reconnectTimeout \in 0 .. MaxConns
  /\ pinging \subseteq 1 .. MaxConns
  /\ waiting \subseteq 1 .. MaxConns
  /\ handlers \in Nat
  /\ size \in Sizes
  /\ noted \in Sizes \cup {Unknown}
  /\ told \in Sizes \cup {Unknown}

Init ==
  /\ widget \in Widgets
  /\ page = "loaded"
  /\ n = 1
  /\ socket = "connecting"
  /\ reconnect = FALSE
  /\ pingTimer = 0 /\ reconnectTimeout = 0
  /\ pinging = {} /\ waiting = {}
  /\ handlers = 0
  /\ size \in Sizes
  /\ noted = Unknown /\ told = Unknown

-----------------------------------------------------------------------------
(* The widgets.  Xterm adds callbacks and takes the last one off, Hterm has *)
(* room for one.                                                            *)

\* onInput and onResize
HandlersAdded == IF widget = "xterm" THEN handlers + 1 ELSE 1

\* A mistake in its place: the number goes down whether there is one or not.
HandlersOffBlind == IF widget = "xterm" THEN handlers - 1 ELSE 0

\* deactivate: off without a callback finds the last, which is one of the
\* library itself if the page has none.
HandlersOff ==
  IF widget = "xterm" /\ handlers > 0 THEN handlers - 1 ELSE 0

\* info(): Xterm asks the library, Hterm says what its last callback noted.
Info == IF widget = "xterm" THEN size ELSE noted

-----------------------------------------------------------------------------
(* The callbacks of the websocket.                                          *)

\* The arguments and the size go out, then the callbacks are set.
OnOpen ==
  /\ socket = "connecting"
  /\ socket' = "open"
  /\ told' = Info
  /\ handlers' = HandlersAdded
  /\ pingTimer' = n
  /\ pinging' = pinging \cup {n}
  /\ UNCHANGED <<widget, page, n, reconnect, reconnectTimeout, waiting, size, noted>>

\* msgSetReconnect, which a server sends with --reconnect; the other messages
\* only change the screen.
OnReceive ==
  /\ socket = "open"
  /\ reconnect' = TRUE
  /\ UNCHANGED <<widget, page, n, socket, timerVars, handlers, sizeVars>>

\* Mistakes in its place: the interval goes on; only a connection that was
\* open is followed by another one.
KeepInterval == UNCHANGED pinging

SetTimeoutOnceOpen ==
  IF reconnect /\ socket = "open"
  THEN waiting' = waiting \cup {n} /\ reconnectTimeout' = n
  ELSE UNCHANGED <<waiting, reconnectTimeout>>

ClearInterval == pinging' = pinging \ {pingTimer}

SetTimeout ==
  IF reconnect
  THEN waiting' = waiting \cup {n} /\ reconnectTimeout' = n
  ELSE UNCHANGED <<waiting, reconnectTimeout>>

\* Of a connection that has ended, or never came about.
OnClose ==
  /\ socket \in {"connecting", "open"}
  /\ socket' = "closed"
  /\ ClearInterval
  /\ handlers' = HandlersOff
  /\ SetTimeout
  /\ UNCHANGED <<widget, page, n, reconnect, pingTimer, sizeVars>>

-----------------------------------------------------------------------------
(* The timers, the window and the end of the page.                          *)

\* A mistake in its place: setInterval instead of setTimeout.
ReconnectAgain ==
  /\ \E k \in waiting : n < MaxConns
  /\ n' = n + 1
  /\ socket' = "connecting"
  /\ told' = Unknown
  /\ UNCHANGED <<widget, page, reconnect, timerVars, handlers, size, noted>>

\* The callback of setTimeout: a new connection, set up as the first one.
Reconnect ==
  /\ \E k \in waiting : n < MaxConns /\ waiting' = waiting \ {k}
  /\ n' = n + 1
  /\ socket' = "connecting"
  /\ told' = Unknown
  /\ UNCHANGED <<widget, page, reconnect, pingTimer, reconnectTimeout, pinging,
                 handlers, size, noted>>

\* The callback of onResize; without one Hterm forgets the size.
Resize ==
  /\ size' \in Sizes \ {size}
  /\ noted' = IF widget = "hterm" /\ handlers > 0 THEN size' ELSE noted
  /\ told' = IF handlers > 0 /\ socket = "open" THEN size' ELSE told
  /\ UNCHANGED <<widget, page, n, socket, reconnect, timerVars, handlers>>

\* The closer that open returns, and then nothing runs any more.
Unload ==
  /\ page' = "unloaded"
  /\ waiting' = waiting \ {reconnectTimeout}
  /\ socket' = "closed"
  /\ UNCHANGED <<widget, n, reconnect, pingTimer, reconnectTimeout, pinging,
                 handlers, sizeVars>>

Next ==
  /\ page = "loaded"
  /\ OnOpen \/ OnReceive \/ OnClose \/ Reconnect \/ Resize \/ Unload

Spec == Init /\ [][Next]_vars

\* A timeout fires; nothing is assumed of the network or the user.
FairSpec == Spec /\ WF_vars(page = "loaded" /\ Reconnect)

-----------------------------------------------------------------------------
(* Properties.                                                              *)

\* Whatever may send is there exactly while `connection' is open, once: input is
\* never sent twice, pings come at their rate, and nobody calls send on a
\* websocket that is still connecting, which throws (webtty.ts:61-102, 126-138).
SendersFollowSocket ==
  page = "loaded" =>
    /\ handlers = IF socket = "open" THEN 1 ELSE 0
    /\ pinging = IF socket = "open" THEN {n} ELSE {}

\* A page waits to reconnect at most once, and only when its connection is
\* closed: it never has two at a time (webtty.ts:126-138).
OneConnection ==
  /\ waiting # {} => socket = "closed" /\ Cardinality(waiting) = 1
  /\ page = "unloaded" => waiting = {}

\* With Xterm the server knows the size of the window at any moment of a
\* session, also after a reconnect; Hterm does not note what happens to the
\* window in between (webtty.ts:73-87, hterm.ts:80-92).
SizeIsKnown == widget = "xterm" /\ socket = "open" => told = size

\* A page that was told to reconnect does so for every connection it loses
\* (webtty.ts:131-137).
ComesBack ==
  \A k \in 1 .. MaxConns - 1 :
    (reconnect /\ socket = "closed" /\ n = k) ~> (n > k \/ page = "unloaded")
=============================================================================
