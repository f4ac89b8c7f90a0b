------------------------------- MODULE System -------------------------------
(***************************************************************************)
(* A terminal from end to end: the page of Browser, opened with a token    *)
(* that the API has handed out, the cache and the websocket handlers of    *)
(* TokenStore, and what the sessions behind them make of the messages.     *)
(*                                                                         *)
(* Connection k of the page is connection k of TokenStore: every one       *)
(* presents the token of the page, since the page keeps its arguments.     *)
(* Messages arrive in the order they were sent or, when the connection is  *)
(* lost, not at all.  Of what the page sends the first message and the     *)
(* sizes are kept, of what a session sends msgSetReconnect.  Sizes and pty *)
(* are those of the connection the page has now: a session that the page   *)
(* has left goes on in TokenStore, and nobody sees its screen.             *)
(***************************************************************************)
EXTENDS Browser, Sequences

CONSTANTS
  Settings, DefaultTtl, MaxAge,  \* as in TokenStore
  Options,                       \* the settings considered for the sessions
  MaxInFlight                    \* bound on the sizes on their way

Tok == "tok"
Conns == 1 .. MaxConns
Sides == {"columns", "rows"}

\* what --width and --height are set to
Fixed == -1

ASSUME SystemAssumption ==
  /\ Fixed \notin Sizes \cup {Unknown}
  /\ Options \subseteq [fixed : SUBSET Sides, reconnect : BOOLEAN]
  /\ MaxInFlight \in Nat \ {0}
  /\ Settings \subseteq [backend : {"mem", "redis"}, ttl : Int]
  /\ DefaultTtl \in Nat \ {0} /\ DefaultTtl <= MaxAge
  /\ MaxAge \in Nat /\ \A s \in Settings : s.ttl <= MaxAge

VARIABLES
  settings, left, issued, age, conn, token, got, faults, kept,  \* of TokenStore
  options,  \* --width, --height and --reconnect
  sent,     \* the connections on which the first message was sent
  up,       \* the sizes on their way to the server
  offered,  \* the connections whose session has sent msgSetReconnect
  pty       \* the size of the pty

Store == INSTANCE TokenStore
           WITH Tokens <- {Tok}, Presents <- [k \in Conns |-> {Tok}]

storeVars == <<settings, left, issued, age, conn, token, got, faults, kept>>
pageVars == vars
sessionVars == <<sent, up, offered, pty>>
sysVars == <<pageVars, storeVars, options, sessionVars>>

\* that of a pty nobody has set
Unset == [s \in Sides |-> Unknown]

SysTypeOK ==
  /\ TypeOK
  /\ Store!TypeOK
  /\ options \in Options
  /\ sent \subseteq Conns
  /\ up \in Seq(Sizes \cup {Unknown})
  /\ offered \subseteq Conns
  /\ pty \in [Sides -> Sizes \cup {Unknown, Fixed}]

SysInit ==
  /\ Init
  /\ Store!Init
  /\ options \in Options
  /\ sent = {}
  /\ up = <<>>
  /\ offered = {}
  /\ pty = Unset

-----------------------------------------------------------------------------
(* The page.  index.js opens it with the token of a successful answer.     *)

\* The handlers set by OnOpen and the callback of onResize send the size.
PageSends ==
  /\ Len(up) < MaxInFlight
  /\ OnOpen \/ (Resize /\ handlers > 0 /\ socket = "open")
  /\ sent' = sent \cup {n}
  /\ up' = IF conn[n] = "closed" THEN up ELSE Append(up, told')
  /\ UNCHANGED pty

PageIsQuiet ==
  /\ \/ n \in offered /\ OnReceive
     \/ OnClose \/ Unload
     \/ Resize /\ ~(handlers > 0 /\ socket = "open")
  /\ UNCHANGED <<sent, up, pty>>

PageReconnects ==
  /\ Reconnect
  /\ up' = <<>>
  /\ pty' = Unset
  /\ UNCHANGED sent

Page ==
  /\ issued[Tok] = "ok"
  /\ page = "loaded"
  /\ PageSends \/ PageIsQuiet \/ PageReconnects
  /\ UNCHANGED <<storeVars, options, offered>>

-----------------------------------------------------------------------------
(* The server.                                                             *)

\* A handler that ends leaves what was sent to it unread, and its pty is gone.
Forget ==
  IF conn'[n] = "closed" THEN up' = <<>> /\ pty' = Unset
  ELSE UNCHANGED <<up, pty>>

\* processWSConn up to the session: its ReadMessage returns the first message.
Handshake(k) ==
  \/ k \in sent /\ Store!Present(k, Tok)
  \/ Store!GetHit(k) \/ Store!GetMiss(k) \/ Store!GetFails(k)
  \/ Store!Delete(k) \/ Store!DeleteFails(k) \/ Store!New(k)

StoreStep ==
  /\ \/ Store!Issue(Tok) \/ Store!IssueFails(Tok)
     \/ \E k \in Conns : Handshake(k) \/ Store!Close(k)
     \/ Store!Tick \/ Store!Restart
  /\ Forget
  /\ UNCHANGED <<pageVars, options, sent, offered>>

\* A mistake in its place: the offer is made before the token is looked up.
GreetAtOnce(k) ==
  /\ conn[k] \notin {"idle", "closed"}
  /\ options.reconnect /\ k \notin offered
  /\ offered' = offered \cup {k}
  /\ UNCHANGED <<pageVars, storeVars, options, sent, up, pty>>

\* sendInitializeMessage, before anything is read from the page: --reconnect
\* with a positive --reconnect-time
Greet(k) ==
  /\ conn[k] = "session"
  /\ options.reconnect /\ k \notin offered
  /\ offered' = offered \cup {k}
  /\ UNCHANGED <<pageVars, storeVars, options, sent, up, pty>>

\* A mistake in its place: nothing is resized with one side fixed.
AppliedEither(asked) ==
  IF options.fixed # {} THEN Unset
  ELSE [s \in Sides |-> asked]

\* What a message of that size makes of the pty: with both sides fixed it is
\* not looked at.
Applied(asked) ==
  IF options.fixed = Sides THEN Unset
  ELSE [s \in Sides |-> IF s \in options.fixed THEN Fixed ELSE asked]

\* case ResizeTerminal of handleMasterReadEvent
ResizeTerminal ==
  /\ conn[n] = "session"
  /\ options.reconnect => n \in offered
  /\ up # <<>>
  /\ up' = Tail(up)
  /\ pty' = Applied(Head(up))
  /\ UNCHANGED <<pageVars, storeVars, options, sent, offered>>

SysNext ==
  \/ Page
  \/ StoreStep
  \/ \E k \in Conns : Greet(k)
  \/ ResizeTerminal

SysSpec == SysInit /\ [][SysNext]_sysVars

\* As in Browser: a timeout fires.
SysFairSpec ==
  SysSpec /\ WF_sysVars(Page /\ Reconnect)

-----------------------------------------------------------------------------
(* Properties.                                                              *)

\* Only the first connection of a page can be given the parameters of its
\* token, as long as redis and the process do not fail: a page reconnects
\* because a session told it to, and by then the token is deleted or has been
\* found missing.  The connection cannot be lost early enough for a second one
\* to win (webtty.ts:113-137, handlers.go:132-143, webtty.go:170-175).
FirstConnectionOnly ==
  ~faults => \A k \in Conns : got[k] => k = 1

\* With Xterm, a session that has read all it was sent runs its command in the
\* size of the window, but for a side that is fixed: whatever was resized while
\* the page was connecting, waiting to reconnect or in its handshake
\* (webtty.ts:73-87, webtty.go:227-252).  With both fixed the pty has no size.
WindowReachesCommand ==
  /\ widget = "xterm" /\ page = "loaded" /\ socket = "open"
  /\ conn[n] = "session" /\ up = <<>>
  /\ options.fixed # Sides
  => \A s \in Sides : pty[s] = IF s \in options.fixed THEN Fixed ELSE size
=============================================================================
