---------------------------- MODULE SystemProofs ----------------------------
(***************************************************************************)
(* System for every number of connections, sizes, caches and settings.     *)
(* Its steps are steps of Browser or leave the page alone, so that what    *)
(* BrowserProofs shows of a page holds in it; the rest follows the token,  *)
(* the offer to reconnect and the sizes from one side to the other.        *)
(***************************************************************************)
EXTENDS System, BrowserProofs, SequenceTheorems

\* The page of System is a page of Browser.
LEMMA PageStep ==
  ASSUME [SysNext]_sysVars
  PROVE  [Next]_vars
<1>1. CASE Page
  BY <1>1 DEF Page, PageSends, PageIsQuiet, PageReconnects, Next
<1>2. CASE StoreStep \/ ResizeTerminal \/ \E k \in Conns : Greet(k)
  BY <1>2 DEF StoreStep, ResizeTerminal, Greet, pageVars
<1>3. CASE UNCHANGED sysVars
  BY <1>3 DEF sysVars, pageVars
<1> QED BY <1>1, <1>2, <1>3 DEF SysNext

\* Whatever Browser promises of a page alone holds with the server behind it:
\* nothing the server does is a task of the page (webtty.ts:62-137).
THEOREM SystemIsPage == SysSpec => Spec
<1>1. SysInit => Init
  BY DEF SysInit
<1>2. [SysNext]_sysVars => [Next]_vars
  BY PageStep
<1> QED BY <1>1, <1>2, PTL DEF SysSpec, Spec

LEMMA PageInvariant == SysSpec => []Inv
BY SystemIsPage, Invariant, PTL

-----------------------------------------------------------------------------
(* The types of the server's side.                                         *)

ServerTypes ==
  /\ Store!TypeOK
  /\ options \in Options
  /\ sent \subseteq Conns
  /\ up \in Seq(Sizes \cup {Unknown})
  /\ offered \subseteq Conns
  /\ pty \in [Sides -> Sizes \cup {Unknown, Fixed}]

\* A step of the cache or of a handler keeps the types of TokenStore.
LEMMA StoreTypes ==
  ASSUME Store!TypeOK,
         \/ Store!Issue(Tok) \/ Store!IssueFails(Tok)
         \/ \E k \in Conns : Handshake(k) \/ Store!Close(k)
         \/ Store!Tick \/ Store!Restart
  PROVE  Store!TypeOK'
<1> USE DEF Store!TypeOK, Store!ConnStates
<1>1. Store!Lifetime \in Nat \cup {-1}
  BY SystemAssumption DEF Store!Lifetime
<1>2. CASE Store!Issue(Tok) \/ Store!IssueFails(Tok)
  <2>1. left' \in [{Tok} -> Nat \cup {-1}]
    BY <1>1, <1>2 DEF Store!Issue, Store!IssueFails, Store!CacheAdd
  <2>2. age' \in [{Tok} -> 0 .. MaxAge] /\ issued' \in [{Tok} -> {"no", "ok", "error"}]
    BY <1>2, SystemAssumption DEF Store!Issue, Store!IssueFails
  <2>3. UNCHANGED <<settings, conn, token, got, kept>> /\ faults' \in BOOLEAN
    BY <1>2 DEF Store!Issue, Store!IssueFails, Store!RedisFails
  <2> QED BY <2>1, <2>2, <2>3
<1>3. ASSUME NEW k \in Conns, Handshake(k) \/ Store!Close(k)
      PROVE  Store!TypeOK'
  <2>1. UNCHANGED <<settings, issued, age>>
    BY <1>3 DEF Handshake, Store!Present, Store!GetHit, Store!GetMiss,
       Store!GetFails, Store!Delete, Store!DeleteFails, Store!New, Store!Close
  <2>2. left' \in [{Tok} -> Nat \cup {-1}]
    BY <1>3 DEF Handshake, Store!Present, Store!GetHit, Store!GetMiss,
       Store!GetFails, Store!Delete, Store!DeleteFails, Store!New, Store!Close,
       Store!CacheDelete
  <2>3. conn' \in [Conns -> Store!ConnStates]
    BY <1>3 DEF Handshake, Store!Present, Store!GetHit, Store!GetMiss,
       Store!GetFails, Store!Delete, Store!DeleteFails, Store!New, Store!Close,
       Store!Step
  <2>4. /\ token' \in [Conns -> {Tok} \cup {Store!None}]
        /\ got' \in [Conns -> BOOLEAN]
        /\ faults' \in BOOLEAN
    BY <1>3 DEF Handshake, Store!Present, Store!GetHit, Store!GetMiss,
       Store!GetFails, Store!Delete, Store!DeleteFails, Store!New, Store!Close,
       Store!RedisFails
  <2>5. kept' \subseteq Conns
    BY <1>3 DEF Handshake, Store!Present, Store!GetHit, Store!GetMiss,
       Store!GetFails, Store!Delete, Store!DeleteFails, Store!New, Store!Close
  <2> QED BY <2>1, <2>2, <2>3, <2>4, <2>5
<1>4. CASE Store!Tick
  <2>1. left' \in [{Tok} -> Nat \cup {-1}]
    BY <1>4 DEF Store!Tick
  <2>2. age' \in [{Tok} -> 0 .. MaxAge]
    BY <1>4, SystemAssumption DEF Store!Tick
  <2> QED BY <1>4, <2>1, <2>2 DEF Store!Tick
<1>5. CASE Store!Restart
  <2>1. conn' \in [Conns -> Store!ConnStates]
    BY <1>5 DEF Store!Restart
  <2>2. \/ left' = [t \in {Tok} |-> 0] /\ faults' = TRUE
        \/ left' = left /\ faults' = faults
    BY <1>5 DEF Store!Restart
  <2>3. left' \in [{Tok} -> Nat \cup {-1}]
    BY <2>2
  <2>4. faults' \in BOOLEAN
    BY <2>2
  <2>5. kept' \subseteq Conns
    BY <1>5 DEF Store!Restart
  <2> QED BY <1>5, <2>1, <2>3, <2>4, <2>5 DEF Store!Restart
<1> QED BY <1>2, <1>3, <1>4, <1>5

\* What a pty makes of a size is one.
LEMMA AppliedType ==
  ASSUME options \in Options, NEW m \in Sizes \cup {Unknown}
  PROVE  Applied(m) \in [Sides -> Sizes \cup {Unknown, Fixed}]
BY DEF Applied, Unset

LEMMA TypesStep ==
  ASSUME Inv, ServerTypes, [SysNext]_sysVars
  PROVE  ServerTypes'
<1>0. Inv'
  <2>1. [Next]_vars
    BY PageStep
  <2> QED BY <2>1, InvStep
<1> USE DEF ServerTypes
<1>1. CASE Page
  <2>1. n \in Conns
    BY DEF Inv, TypeOK, Conns
  <2>2. UNCHANGED <<storeVars, options, offered>>
    BY <1>1 DEF Page
  <2>3. told' \in Sizes \cup {Unknown}
    BY <1>0 DEF Inv, TypeOK
  <2>4. sent' \subseteq Conns
    BY <1>1, <2>1 DEF Page, PageSends, PageIsQuiet, PageReconnects
  <2>5. up' \in Seq(Sizes \cup {Unknown})
    <3>1. Append(up, told') \in Seq(Sizes \cup {Unknown})
      BY <2>3
    <3>2. <<>> \in Seq(Sizes \cup {Unknown})
      OBVIOUS
    <3>3. up' \in {up, <<>>, Append(up, told')}
      BY <1>1 DEF Page, PageSends, PageIsQuiet, PageReconnects
    <3> QED BY <3>1, <3>2, <3>3
  <2>6. pty' \in [Sides -> Sizes \cup {Unknown, Fixed}]
    BY <1>1 DEF Page, PageSends, PageIsQuiet, PageReconnects, Unset
  <2>7. Store!TypeOK'
    BY <2>2 DEF Store!TypeOK, storeVars
  <2> QED BY <2>2, <2>4, <2>5, <2>6, <2>7
<1>2. CASE StoreStep
  <2>1. Store!TypeOK'
    <3>1. \/ Store!Issue(Tok) \/ Store!IssueFails(Tok)
          \/ \E k \in Conns : Handshake(k) \/ Store!Close(k)
          \/ Store!Tick \/ Store!Restart
      BY <1>2 DEF StoreStep
    <3> HIDE DEF ServerTypes
    <3>2. Store!TypeOK
      BY DEF ServerTypes
    <3> QED BY <3>1, <3>2, StoreTypes
  <2>2. UNCHANGED <<options, sent, offered>>
    BY <1>2 DEF StoreStep
  <2>3. \/ up' = <<>> /\ pty' = Unset
        \/ UNCHANGED <<up, pty>>
    BY <1>2 DEF StoreStep, Forget
  <2>4. <<>> \in Seq(Sizes \cup {Unknown})
        /\ Unset \in [Sides -> Sizes \cup {Unknown, Fixed}]
    BY DEF Unset
  <2>5. up' \in Seq(Sizes \cup {Unknown})
        /\ pty' \in [Sides -> Sizes \cup {Unknown, Fixed}]
    BY <2>3, <2>4
  <2> QED BY <2>1, <2>2, <2>5
<1>3. CASE \E k \in Conns : Greet(k)
  BY <1>3 DEF Greet, storeVars, Store!TypeOK
<1>4. CASE ResizeTerminal
  <2>1. Head(up) \in Sizes \cup {Unknown} /\ Tail(up) \in Seq(Sizes \cup {Unknown})
    BY <1>4 DEF ResizeTerminal
  <2>2. pty' \in [Sides -> Sizes \cup {Unknown, Fixed}]
    BY <1>4, <2>1, AppliedType DEF ResizeTerminal
  <2>3. Store!TypeOK'
    BY <1>4 DEF ResizeTerminal, storeVars, Store!TypeOK
  <2> QED BY <1>4, <2>1, <2>2, <2>3 DEF ResizeTerminal
<1>5. CASE UNCHANGED sysVars
  BY <1>5 DEF sysVars, storeVars, sessionVars, Store!TypeOK
<1> QED BY <1>1, <1>2, <1>3, <1>4, <1>5 DEF SysNext

LEMMA Typed == SysSpec => []ServerTypes
<1>1. SysInit => ServerTypes
  <2> SUFFICES ASSUME SysInit PROVE ServerTypes
    OBVIOUS
  <2>1. Store!TypeOK
    <3>1. 0 \in 0 .. MaxAge
      BY SystemAssumption
    <3>2. /\ left \in [{Tok} -> Nat \cup {-1}]
          /\ age \in [{Tok} -> 0 .. MaxAge]
      BY <3>1 DEF SysInit, Store!Init
    <3>3. got \in [Conns -> BOOLEAN] /\ faults \in BOOLEAN /\ kept \subseteq Conns
      BY DEF SysInit, Store!Init
    <3> QED BY <3>2, <3>3
            DEF SysInit, Store!Init, Store!TypeOK, Store!ConnStates
  <2>2. <<>> \in Seq(Sizes \cup {Unknown})
    OBVIOUS
  <2> QED BY <2>1, <2>2 DEF SysInit, ServerTypes, Unset
<1> QED BY <1>1, TypesStep, PageInvariant, PTL DEF SysSpec

\* The variables of both sides keep their types.
THEOREM SystemTypes == SysSpec => []SysTypeOK
<1>1. Inv /\ ServerTypes => SysTypeOK
  BY DEF Inv, ServerTypes, SysTypeOK
<1> QED BY <1>1, Typed, PageInvariant, PTL

-----------------------------------------------------------------------------
(* The token: who can still be given its parameters.                       *)

\* A connection that is past its first message holds the token of the page; a
\* page reconnects only after an offer, an offer comes from a session, and a
\* session comes after the token was deleted or not found.
TokenInv ==
  /\ \A k \in Conns :
       /\ conn[k] = "idle" => ~got[k]
       /\ conn[k] # "idle" => token[k] = Tok /\ k \in sent
       /\ k \in sent => k <= n
       /\ k \in offered => conn[k] \in {"session", "closed"}
       /\ ~faults /\ (k \in offered \/ conn[k] \in {"new", "session"})
            => ~Store!Live(Tok)
  /\ reconnect => offered # {}
  /\ waiting # {} \/ n > 1 => reconnect
  /\ FirstConnectionOnly

\* The page opens connections, and sends on the last one.
LEMMA TokenPage ==
  ASSUME Inv, ServerTypes, TokenInv, Page
  PROVE  TokenInv'
<1> USE DEF TokenInv, FirstConnectionOnly
<1>1. UNCHANGED <<storeVars, offered>>
  BY DEF Page
<1>2. UNCHANGED <<left, conn, token, got, faults>>
  BY <1>1 DEF storeVars
<1>3. n \in 1 .. MaxConns /\ n' >= n /\ n' \in Nat
  BY DEF Page, PageSends, PageIsQuiet, PageReconnects, OnOpen, OnReceive,
     OnClose, Reconnect, Resize, Unload, Inv, TypeOK
<1>4. sent \subseteq sent' /\ sent' \subseteq sent \cup {n}
  BY DEF Page, PageSends, PageIsQuiet, PageReconnects
<1>5. reconnect' => offered' # {}
  BY <1>1 DEF Page, PageSends, PageIsQuiet, PageReconnects, OnOpen, OnReceive,
     OnClose, Reconnect, Resize, Unload
<1>6. waiting' # {} \/ n' > 1 => reconnect'
  BY DEF Page, PageSends, PageIsQuiet, PageReconnects, OnOpen, OnReceive,
     OnClose, SetTimeout, Reconnect, Resize, Unload, timerVars, Inv, TypeOK
<1>7. \A k \in Conns : k \in sent' => k <= n'
  BY <1>3, <1>4 DEF Conns
<1> QED BY <1>1, <1>2, <1>4, <1>5, <1>6, <1>7 DEF Store!Live

\* The token is issued before anybody can name it.
LEMMA TokenIssue ==
  ASSUME ServerTypes, TokenInv, Store!Issue(Tok) \/ Store!IssueFails(Tok),
         UNCHANGED <<pageVars, sent, offered>>
  PROVE  TokenInv'
<1> USE DEF TokenInv, FirstConnectionOnly
<1>1. UNCHANGED <<conn, token, got>> /\ (faults => faults')
  BY DEF Store!Issue, Store!IssueFails, Store!RedisFails
<1>2. \A k \in Conns : token[k] # Tok
  BY DEF Store!Issue, Store!IssueFails, Store!Fresh
<1>3. \A k \in Conns : conn[k] = "idle" /\ k \notin offered
  BY <1>2
<1>4. UNCHANGED <<n, reconnect, waiting, sent, offered>>
  BY DEF pageVars, vars, timerVars
<1> QED BY <1>1, <1>3, <1>4

\* A handler that finds the token is that of the first connection.
LEMMA TokenHandler ==
  ASSUME Inv, ServerTypes, TokenInv, NEW k \in Conns,
         Handshake(k) \/ Store!Close(k),
         UNCHANGED <<pageVars, sent, offered>>
  PROVE  TokenInv'
<1> USE DEF TokenInv, FirstConnectionOnly, ServerTypes, Store!TypeOK
<1>1. UNCHANGED <<n, reconnect, waiting, sent, offered>>
  BY DEF pageVars, vars, timerVars
<1>2. CASE Store!Present(k, Tok) /\ k \in sent
  BY <1>1, <1>2 DEF Store!Present, Store!Step, Store!Live
<1>3. CASE Store!GetHit(k)
  <2>1. Store!Live(Tok) /\ conn[k] = "get" /\ conn' = [conn EXCEPT ![k] = "delete"]
        /\ got' = [got EXCEPT ![k] = TRUE]
        /\ UNCHANGED <<left, token, faults>>
    BY <1>3 DEF Store!GetHit, Store!Step
  <2>2. ~faults => offered = {}
    BY <2>1
  <2>3. ~faults => k = 1
    <3>1. k <= n /\ n \in 1 .. MaxConns /\ k \in 1 .. MaxConns
      BY <2>1 DEF Inv, TypeOK, Conns
    <3>2. ~faults => ~(n > 1)
      BY <2>2
    <3>3. n \in Int /\ k \in Int /\ k >= 1
      BY <3>1, BrowserAssumption
    <3> QED BY <3>1, <3>2, <3>3
  <2> QED BY <1>1, <2>1, <2>3 DEF Store!Live
<1>4. CASE Store!GetMiss(k) \/ Store!GetFails(k)
  <2>1. conn[k] = "get" /\ conn' = [conn EXCEPT ![k] = "new"]
        /\ UNCHANGED <<left, token, got>> /\ (faults => faults')
        /\ (~faults' => ~Store!Live(Tok))
    BY <1>4 DEF Store!GetMiss, Store!GetFails, Store!Step, Store!RedisFails
  <2> QED BY <1>1, <2>1 DEF Store!Live
<1>5. CASE Store!Delete(k) \/ Store!DeleteFails(k)
  <2>1. conn[k] = "delete" /\ conn' = [conn EXCEPT ![k] = "new"]
        /\ UNCHANGED <<token, got>> /\ (faults => faults')
        /\ (~faults' => left'[Tok] = 0)
        /\ (left'[Tok] = 0 \/ left' = left)
    BY <1>5 DEF Store!Delete, Store!DeleteFails, Store!Step,
       Store!RedisFails, Store!CacheDelete
  <2> QED BY <1>1, <2>1 DEF Store!Live
<1>6. CASE Store!New(k) \/ Store!Close(k)
  <2>1. /\ conn[k] \in {"new", "session"}
        /\ \/ conn' = [conn EXCEPT ![k] = "closed"]
           \/ conn[k] = "new" /\ conn' = [conn EXCEPT ![k] = "session"]
        /\ UNCHANGED <<left, token, got, faults>>
    BY <1>6 DEF Store!New, Store!Close, Store!Step
  <2> QED BY <1>1, <2>1 DEF Store!Live
<1> QED BY <1>2, <1>3, <1>4, <1>5, <1>6 DEF Handshake

\* Time and a restart only take entries away and end handlers.
LEMMA TokenDecay ==
  ASSUME ServerTypes, TokenInv, Store!Tick \/ Store!Restart,
         UNCHANGED <<pageVars, sent, offered>>
  PROVE  TokenInv'
<1> USE DEF TokenInv, FirstConnectionOnly, ServerTypes, Store!TypeOK
<1>1. UNCHANGED <<n, reconnect, waiting, sent, offered>>
  BY DEF pageVars, vars, timerVars
<1>2. UNCHANGED <<token, got>> /\ (faults => faults')
  BY DEF Store!Tick, Store!Restart
<1>3. left[Tok] = 0 => left'[Tok] = 0
  BY DEF Store!Tick, Store!Restart
<1>4. \A k \in Conns :
        conn'[k] = conn[k] \/ (conn[k] # "idle" /\ conn'[k] = "closed")
  BY DEF Store!Tick, Store!Restart
<1> QED BY <1>1, <1>2, <1>3, <1>4 DEF Store!Live

LEMMA TokenStep ==
  ASSUME Inv, ServerTypes, TokenInv, [SysNext]_sysVars
  PROVE  TokenInv'
<1>1. CASE StoreStep
  <2>1. UNCHANGED <<pageVars, sent, offered>>
    BY <1>1 DEF StoreStep
  <2> QED BY <1>1, <2>1, TokenIssue, TokenHandler, TokenDecay DEF StoreStep
<1>2. ASSUME NEW k \in Conns, Greet(k) PROVE TokenInv'
  <2>1. /\ conn[k] = "session" /\ offered' = offered \cup {k}
        /\ UNCHANGED <<n, reconnect, waiting, sent, left, conn, token, got, faults>>
    BY <1>2 DEF Greet, pageVars, storeVars, vars, timerVars
  <2> QED BY <2>1 DEF TokenInv, FirstConnectionOnly, Store!Live
<1>3. CASE ResizeTerminal \/ UNCHANGED sysVars
  <2>1. UNCHANGED <<n, reconnect, waiting, sent, offered, left, conn, token, got,
                    faults>>
    BY <1>3 DEF ResizeTerminal, sysVars, sessionVars, pageVars, storeVars, vars,
       timerVars
  <2> QED BY <2>1 DEF TokenInv, FirstConnectionOnly, Store!Live
<1> QED BY <1>1, <1>2, <1>3, TokenPage DEF SysNext

\* A page that reconnects never gets a second terminal from its token, as long
\* as redis and the process do not fail (webtty.ts:113-137,
\* handlers.go:132-143).
THEOREM ReconnectIsRefused == SysSpec => []FirstConnectionOnly
<1>1. SysInit => TokenInv
  BY DEF SysInit, Init, Store!Init, TokenInv, FirstConnectionOnly, Conns
<1>2. TokenInv => FirstConnectionOnly
  BY DEF TokenInv
<1> QED BY <1>1, <1>2, TokenStep, Typed, PageInvariant, PTL DEF SysSpec

-----------------------------------------------------------------------------
(* The size of the window, on its way to the command.                      *)

\* Nothing is on its way before the websocket opens; then what was told last is
\* the last size on its way, or the one the pty was set to.
SizeInv ==
  /\ socket = "connecting" => up = <<>> /\ n \notin sent
  /\ socket = "open" /\ conn[n] # "closed" =>
       /\ up # <<>> => up[Len(up)] = told
       /\ up = <<>> => conn[n] = "session" /\ pty = Applied(told)

LEMMA SizePage ==
  ASSUME Inv, ServerTypes, TokenInv, SizeInv, Page
  PROVE  SizeInv'
<1>1. UNCHANGED <<conn, options>> /\ n \in Conns
  BY DEF Page, storeVars, Inv, TypeOK, Conns
<1>2. CASE PageSends
  <2>1. UNCHANGED <<n, pty>> /\ socket' = "open"
    BY <1>2 DEF PageSends, OnOpen, Resize
  <2>2. conn[n] # "closed" => up' = Append(up, told')
    BY <1>2 DEF PageSends
  <2>3. up \in Seq(Sizes \cup {Unknown})
    BY DEF ServerTypes
  <2>4. conn[n] # "closed" => up' # <<>> /\ up'[Len(up')] = told'
    BY <2>2, <2>3
  <2> QED BY <1>1, <2>1, <2>4 DEF SizeInv
<1>3. CASE PageIsQuiet
  <2>1. UNCHANGED <<n, sent, up, pty>>
    BY <1>3 DEF PageIsQuiet, OnReceive, OnClose, Unload, Resize
  <2>2. \/ UNCHANGED <<socket, told>>
        \/ socket' = "closed"
    BY <1>3 DEF PageIsQuiet, OnReceive, OnClose, Unload, Resize, sizeVars
  <2> QED BY <1>1, <2>1, <2>2 DEF SizeInv, Applied
<1>4. CASE PageReconnects
  <2>1. n' = n + 1 /\ socket' = "connecting" /\ up' = <<>> /\ sent' = sent
    BY <1>4 DEF PageReconnects, Reconnect
  <2>2. n + 1 \notin sent
    <3>1. \A k \in Conns : k \in sent => k <= n
      BY DEF TokenInv
    <3>2. sent \subseteq Conns /\ n \in Nat /\ ~(n + 1 <= n)
      BY <1>1, BrowserAssumption DEF ServerTypes, Conns
    <3> QED BY <3>1, <3>2
  <2> QED BY <2>1, <2>2 DEF SizeInv
<1> QED BY <1>2, <1>3, <1>4 DEF Page

LEMMA SizeStore ==
  ASSUME Inv, ServerTypes, TokenInv, SizeInv, StoreStep
  PROVE  SizeInv'
<1>1. /\ UNCHANGED <<n, socket, told, sent, options>>
      /\ n \in Conns
  BY DEF StoreStep, pageVars, vars, sizeVars, Inv, TypeOK, Conns
<1>2. \/ conn'[n] = "closed" /\ up' = <<>>
      \/ conn'[n] # "closed" /\ up' = up /\ pty' = pty
  BY DEF StoreStep, Forget
<1>3. conn[n] = "closed" => conn'[n] = "closed"
  BY <1>1 DEF StoreStep, Handshake, Store!Issue, Store!IssueFails,
     Store!Present, Store!GetHit, Store!GetMiss, Store!GetFails, Store!Delete,
     Store!DeleteFails, Store!New, Store!Close, Store!Tick, Store!Restart,
     Store!Step, ServerTypes, Store!TypeOK
<1>4. conn[n] = "session" => conn'[n] \in {"session", "closed"}
  BY <1>1 DEF StoreStep, Handshake, Store!Issue, Store!IssueFails,
     Store!Present, Store!GetHit, Store!GetMiss, Store!GetFails, Store!Delete,
     Store!DeleteFails, Store!New, Store!Close, Store!Tick, Store!Restart,
     Store!Step, ServerTypes, Store!TypeOK
<1> QED BY <1>1, <1>2, <1>3, <1>4 DEF SizeInv, Applied

LEMMA SizeRead ==
  ASSUME Inv, ServerTypes, SizeInv, ResizeTerminal
  PROVE  SizeInv'
<1>1. /\ UNCHANGED <<n, socket, told, sent, conn, options>>
      /\ conn[n] = "session"
      /\ up # <<>> /\ up' = Tail(up) /\ pty' = Applied(Head(up))
  BY DEF ResizeTerminal, pageVars, vars, sizeVars, storeVars
<1>2. up \in Seq(Sizes \cup {Unknown})
  BY DEF ServerTypes
<1>3. CASE Len(up) = 1
  <2>1. up' = <<>> /\ Head(up) = up[Len(up)]
    BY <1>1, <1>2, <1>3
  <2> QED BY <1>1, <2>1 DEF SizeInv, Applied
<1>4. CASE Len(up) # 1
  <2>1. Len(up) \in Nat /\ Len(up) >= 2
    <3>1. Len(up) \in Nat
      BY <1>2
    <3>2. Len(up) # 0
      BY <1>1, <1>2, EmptySeq
    <3>3. \A l \in Nat : l # 0 /\ l # 1 => l >= 2
      OBVIOUS
    <3> QED BY <1>4, <3>1, <3>2, <3>3, Zenon
  <2>2. Len(up') = Len(up) - 1 /\ up' \in Seq(Sizes \cup {Unknown})
    BY <1>1, <1>2
  <2>3. \A i \in 1 .. Len(up') : up'[i] = up[i + 1]
    BY <1>1, <1>2, <2>2
  <2>4. up' # <<>> /\ up'[Len(up')] = up[Len(up)]
    <3>1. Len(up') \in 1 .. Len(up') /\ Len(up') + 1 = Len(up)
      BY <2>1, <2>2
    <3> QED BY <2>1, <2>2, <2>3, <3>1
  <2> QED BY <1>1, <2>4 DEF SizeInv
<1> QED BY <1>3, <1>4

\* Through reconnects, resizes at any moment and a slow handshake, the command
\* runs in the size of the window once its session has read everything
\* (webtty.ts:73-87, webtty.go:227-252).
THEOREM WindowArrives == SysSpec => []WindowReachesCommand
<1>1. SysInit => TokenInv /\ SizeInv
  BY DEF SysInit, Init, Store!Init, TokenInv, SizeInv, FirstConnectionOnly, Conns
<1>2. Inv /\ ServerTypes /\ TokenInv /\ SizeInv /\ [SysNext]_sysVars => SizeInv'
  <2> SUFFICES ASSUME Inv, ServerTypes, TokenInv, SizeInv, [SysNext]_sysVars
               PROVE  SizeInv'
    OBVIOUS
  <2>1. CASE \/ \E k \in Conns : Greet(k)
             \/ UNCHANGED sysVars
    <3>1. UNCHANGED <<n, socket, told, sent, up, pty, conn, options>>
      BY <2>1 DEF Greet, sysVars, sessionVars, pageVars, vars, sizeVars, storeVars
    <3> QED BY <3>1 DEF SizeInv, Applied
  <2> QED BY <2>1, SizePage, SizeStore, SizeRead DEF SysNext
<1>3. Inv /\ ServerTypes /\ SizeInv => WindowReachesCommand
  <2> SUFFICES ASSUME Inv, ServerTypes, SizeInv, widget = "xterm",
                      socket = "open", conn[n] = "session", up = <<>>,
                      options.fixed # Sides, NEW s \in Sides
               PROVE  pty[s] = IF s \in options.fixed THEN Fixed ELSE size
    BY DEF WindowReachesCommand
  <2>1. told = size
    BY DEF Inv, SizeIsKnown
  <2>2. pty = Applied(size)
    BY <2>1 DEF SizeInv
  <2> QED BY <2>2 DEF Applied
<1> QED BY <1>1, <1>2, <1>3, TokenStep, Typed, PageInvariant, PTL DEF SysSpec

-----------------------------------------------------------------------------
(* The cache and the handlers of System are those of TokenStore, so that   *)
(* what TokenStoreProofs shows of every token holds of the page's.         *)

LEMMA StorePart ==
  ASSUME [SysNext]_sysVars
  PROVE  [Store!Next]_storeVars
<1>1. CASE StoreStep
  <2>1. CASE \/ Store!Issue(Tok) \/ Store!IssueFails(Tok)
             \/ Store!Tick \/ Store!Restart
    BY <2>1 DEF Store!Next
  <2>2. ASSUME NEW k \in Conns, Handshake(k) \/ Store!Close(k)
        PROVE  Store!Next
    <3>1. Store!Conn(k)
      BY <2>2 DEF Handshake, Store!Conn
    <3> QED BY <3>1 DEF Store!Next
  <2> QED BY <1>1, <2>1, <2>2 DEF StoreStep
<1>2. CASE Page
  BY <1>2 DEF Page
<1>3. CASE \/ \E k \in Conns : Greet(k)
           \/ ResizeTerminal \/ UNCHANGED sysVars
  BY <1>3 DEF ResizeTerminal, Greet, sysVars
<1> QED BY <1>1, <1>2, <1>3 DEF SysNext

\* Every behaviour of the system is one of TokenStore with one token, which
\* any of the page's connections may present (handlers.go:97-153, 316-396).
THEOREM SystemIsTokenStore == SysSpec => Store!Spec
<1>1. SysInit => Store!Init
  BY DEF SysInit
<1>2. [SysNext]_sysVars => [Store!Next]_Store!vars
  BY StorePart DEF storeVars, Store!vars
<1> QED BY <1>1, <1>2, PTL DEF SysSpec, Store!Spec

\* The same cache and handlers, with what is proved of them.
TS == INSTANCE TokenStoreProofs
        WITH Tokens <- {Tok}, Presents <- [k \in Conns |-> {Tok}]

LEMMA TokenConstants ==
  /\ TS!PresentsAssumption
  /\ TS!SettingsAssumption
  /\ TS!TtlAssumption
  /\ TS!NoneAssumption
<1>1. TS!PresentsAssumption
  BY DEF TS!PresentsAssumption
<1>2. TS!SettingsAssumption
  BY SystemAssumption DEF TS!SettingsAssumption
<1>3. TS!TtlAssumption
  BY SystemAssumption DEF TS!TtlAssumption
<1>4. TS!NoneAssumption
  BY DEF TS!NoneAssumption, TS!None, Tok
<1> QED BY <1>1, <1>2, <1>3, <1>4

LEMMA SameStore == Store!Spec => TS!Spec
<1>1. Store!Init => TS!Init
  BY DEF Store!Init, TS!Init, Store!None, TS!None
<1>2. [Store!Next]_Store!vars => [TS!Next]_TS!vars
  BY DEF Store!Next, TS!Next, Store!Issue, TS!Issue, Store!IssueFails,
         TS!IssueFails, Store!Conn, TS!Conn, Store!Present, TS!Present,
         Store!PresentNone, TS!PresentNone, Store!GetHit, TS!GetHit,
         Store!GetMiss, TS!GetMiss, Store!GetFails, TS!GetFails, Store!Delete,
         TS!Delete, Store!DeleteFails, TS!DeleteFails, Store!New, TS!New,
         Store!Close, TS!Close, Store!Tick, TS!Tick, Store!Restart,
         TS!Restart, Store!Step, TS!Step, Store!CacheAdd, TS!CacheAdd,
         Store!CacheDelete, TS!CacheDelete, Store!RedisFails, TS!RedisFails,
         Store!Live, TS!Live, Store!Fresh, TS!Fresh, Store!Lifetime,
         TS!Lifetime, Store!None, TS!None, Store!vars, TS!vars
<1> QED BY <1>1, <1>2, PTL DEF Store!Spec, TS!Spec

\* With the page and its reconnects around it, the token of the page is found
\* only in its time, is refused only for a reason, and once deleted stays gone
\* (handlers.go:132-143, mem.go:43, redis.go:47).
THEOREM SystemHonoursToken ==
  SysSpec => /\ Store!NoUseAfterExpiry
             /\ Store!InvalidHasReason
             /\ []Store!DeletedIsGone
<1>1. TS!DeletedIsGone => Store!DeletedIsGone
  BY DEF Store!DeletedIsGone, TS!DeletedIsGone, Store!Live, TS!Live
<1>2. TS!NoUseAfterExpiry => Store!NoUseAfterExpiry
  BY DEF Store!NoUseAfterExpiry, TS!NoUseAfterExpiry, Store!vars, TS!vars
<1>3. TS!InvalidHasReason => Store!InvalidHasReason
  BY DEF Store!InvalidHasReason, TS!InvalidHasReason, Store!Lifetime,
         TS!Lifetime, Store!vars, TS!vars
<1> QED BY <1>1, <1>2, <1>3, SameStore, SystemIsTokenStore, TokenConstants,
           TS!FoundInTime, TS!RefusedForReason, TS!DeletedStaysGone, PTL
=============================================================================
