--------------------------- MODULE BrowserProofs ---------------------------
(***************************************************************************)
(* The safety of Browser for every number of connections and every set of  *)
(* sizes.  Each property needs the others: a connection that closes clears *)
(* the interval of this connection only because the variable pingTimer     *)
(* holds its number, and a timeout finds the connection closed only        *)
(* because nothing but a timeout opens another one.                        *)
(***************************************************************************)
EXTENDS Browser, FiniteSetTheorems, TLAPS

Inv ==
  /\ TypeOK
  /\ SendersFollowSocket
  /\ waiting \in {{}, {n}}
  /\ waiting # {} => socket = "closed" /\ reconnectTimeout = n
  /\ page = "unloaded" => waiting = {}
  /\ socket = "open" => pingTimer = n
  /\ SizeIsKnown

LEMMA InvInit == Init => Inv
<1> SUFFICES ASSUME Init  PROVE Inv
  OBVIOUS
<1>1. TypeOK
  <2>1. n \in 1 .. MaxConns /\ pingTimer \in 0 .. MaxConns
        /\ reconnectTimeout \in 0 .. MaxConns /\ handlers \in Nat
    BY BrowserAssumption DEF Init
  <2>2. /\ page \in {"loaded", "unloaded"}
        /\ socket \in ConnStates
    BY DEF Init, ConnStates
  <2>3. pinging \subseteq 1 .. MaxConns /\ waiting \subseteq 1 .. MaxConns
    BY DEF Init
  <2>4. widget \in Widgets /\ size \in Sizes /\ reconnect \in BOOLEAN
    BY DEF Init
  <2>5. noted \in Sizes \cup {Unknown} /\ told \in Sizes \cup {Unknown}
    BY DEF Init
  <2> QED BY <2>1, <2>2, <2>3, <2>4, <2>5 DEF TypeOK
<1>2. waiting = {} /\ page = "loaded" /\ socket = "connecting"
  BY DEF Init
<1>3. SendersFollowSocket
  <2>1. handlers = 0 /\ pinging = {}
    BY DEF Init
  <2> QED BY <1>2, <2>1 DEF SendersFollowSocket
<1>4. SizeIsKnown
  BY <1>2 DEF SizeIsKnown
<1> QED BY <1>1, <1>2, <1>3, <1>4 DEF Inv

LEMMA InvStep ==
  ASSUME Inv, [Next]_vars
  PROVE  Inv'
<1> USE BrowserAssumption DEF Inv, TypeOK, ConnStates, SendersFollowSocket, SizeIsKnown
<1>1. CASE page = "loaded" /\ OnOpen
  <2>1. handlers = 0 /\ pinging = {} /\ waiting = {}
    BY <1>1 DEF OnOpen
  <2>2. handlers' = 1 /\ pinging' = {n} /\ pingTimer' = n /\ socket' = "open"
    BY <1>1, <2>1 DEF OnOpen, HandlersAdded
  <2>3. widget = "xterm" => told' = size'
    BY <1>1 DEF OnOpen, Info
  <2>4. told' \in Sizes \cup {Unknown}
    BY <1>1 DEF OnOpen, Info
  <2>5. UNCHANGED <<widget, page, n, reconnect, reconnectTimeout, waiting, size, noted>>
    BY <1>1 DEF OnOpen
  <2> QED BY <2>1, <2>2, <2>3, <2>4, <2>5
<1>2. CASE page = "loaded" /\ OnReceive
  BY <1>2 DEF OnReceive, timerVars, sizeVars
<1>3. CASE page = "loaded" /\ OnClose
  <2>1. /\ socket \in {"connecting", "open"} /\ socket' = "closed"
        /\ pinging' = pinging \ {pingTimer} /\ waiting = {}
        /\ UNCHANGED <<widget, page, n, reconnect, pingTimer, sizeVars>>
    BY <1>3 DEF OnClose, ClearInterval
  <2>2. pinging' = {}
    <3>1. CASE socket = "open"
      BY <1>3, <2>1, <3>1
    <3>2. CASE socket = "connecting"
      BY <1>3, <2>1, <3>2
    <3> QED BY <2>1, <3>1, <3>2
  <2>3. handlers' = 0
    BY <1>3 DEF OnClose, HandlersOff
  <2>4. \/ waiting' = {n} /\ reconnectTimeout' = n
        \/ waiting' = {} /\ UNCHANGED reconnectTimeout
    BY <1>3, <2>1 DEF OnClose, SetTimeout
  <2>5. page' = "loaded"
    BY <1>3, <2>1
  <2> QED BY <2>1, <2>2, <2>3, <2>4, <2>5 DEF sizeVars
<1>4. CASE page = "loaded" /\ Reconnect
  BY <1>4 DEF Reconnect
<1>5. CASE page = "loaded" /\ Resize
  BY <1>5 DEF Resize, timerVars
<1>6. CASE page = "loaded" /\ Unload
  BY <1>6 DEF Unload, sizeVars
<1>7. CASE UNCHANGED vars
  BY <1>7 DEF vars, timerVars, sizeVars
<1> QED BY <1>1, <1>2, <1>3, <1>4, <1>5, <1>6, <1>7 DEF Next

LEMMA Invariant == Spec => []Inv
BY InvInit, InvStep, PTL DEF Spec

\* The variables of a page keep their types (webtty.ts:55-146).
THEOREM BrowserTypes == Spec => []TypeOK
<1>1. Inv => TypeOK
  BY DEF Inv
<1> QED BY <1>1, Invariant, PTL

\* Input is sent once and pings come at their rate, only on an open websocket
\* (webtty.ts:61-102, 126-138).
THEOREM SendersFollow == Spec => []SendersFollowSocket
<1>1. Inv => SendersFollowSocket
  BY DEF Inv
<1> QED BY <1>1, Invariant, PTL

\* A page never has two connections (webtty.ts:126-138).
THEOREM OneAtATime == Spec => []OneConnection
<1>1. Inv => OneConnection
  BY FS_Singleton DEF Inv, OneConnection
<1> QED BY <1>1, Invariant, PTL

\* With Xterm the server knows the size of the window (webtty.ts:73-87).
THEOREM SizeFollows == Spec => []SizeIsKnown
<1>1. Inv => SizeIsKnown
  BY DEF Inv
<1> QED BY <1>1, Invariant, PTL
=============================================================================
