-------------------------------- MODULE Site --------------------------------
(***************************************************************************)
(* The site that a gotty of Startup serves: its two multiplexers with the  *)
(* basic authentication between them, the terminal page and the index      *)
(* page, and the windows of a browser on them.                             *)
(*                                                                         *)
(* A path is the sequence of its words and slashes, so that \o puts paths  *)
(* together as the code does.  Links are relative to where a page was      *)
(* found, and the two scripts that build an address append to              *)
(* location.pathname, so that what a window reaches depends on how it came *)
(* to its page.  What a path leads to goes by the name of its file.        *)
(* Tokens are numbered; how long one is good is for TokenStore to say.     *)
(* Of the connections of other browsers it is kept how many are counted;   *)
(* timers and signals, which may stop the server at any time, are in       *)
(* Server, and here a server that has stopped takes no step.               *)
(***************************************************************************)
EXTENDS Startup, Integers, FiniteSets, SequencesExt

CONSTANTS
  Windows,      \* the windows of one browser
  Words,        \* what paths are made of
  CustomPaths,  \* values considered for TERMINAL_PATH; <<>> is none
  Typed,        \* the paths a user may type
  MaxTokens,    \* bound on the tokens the API hands out
  Limits,       \* values considered for --max-connection, where it is set
  MaxOthers     \* bound on the requests of others that are counted at a time

\* What --random-url makes of the path, unknown to whoever has not read it.
Random == <<"/", "8bytes", "/">>

Styles == {"index-lib.css", "index.css", "terminal.css", "xterm.css",
           "xterm_customize.css"}
Bundles == {"gotty-bundle.js", "index-lib.js", "index.js"}

\* net/http takes a pattern that does not begin with a slash for a host.
Paths == {p \in Seq(Words) : p # <<>> /\ Head(p) = "/"}

ASSUME SiteAssumption ==
  /\ {"/", "8bytes", "terminal", "js", "css", "api", "ws", "favicon.png",
      "auth_token.js", "config.js", "kube-config", "kube-token"} \subseteq Words
  /\ Styles \cup Bundles \subseteq Words
  /\ CustomPaths \subseteq Paths \cup {<<>>}
  /\ Typed \subseteq Paths
  /\ MaxTokens \in Nat
  /\ IsFiniteSet(Windows)
  /\ Limits \subseteq Int
  /\ MaxOthers \in Nat

\* who has won the swap of --once, when no window has
Nobody == "nobody"
Other == "other"

ASSUME WinnerAssumption == Nobody \notin Windows /\ Other \notin Windows

VARIABLES
  customPath,  \* TERMINAL_PATH
  maxConnection,  \* --max-connection; 0 is no limit
  knows,       \* whether the user has a credential that the server has read
  issued,      \* the number of tokens handed out
  winner,      \* who won the swap of --once
  others,      \* the requests of others between counter.add and counter.done
  win          \* what each window shows

doorVars == <<winner, others>>
fixedVars == <<startVars, customPath, maxConnection, knows>>
siteVars == <<fixedVars, issued, doorVars, win>>

\* A path, the token of its query (0 without one), the page that was found, the
\* scripts that it has asked for, whether each was what it should be, and its
\* websocket.  A window opened by the index page has the path of that page.
Closed ==
  [at |-> <<>>, token |-> 0, opener |-> <<>>, page |-> "closed", asked |-> 0,
   whole |-> TRUE, ws |-> "none"]

\* Before the request; in its session; turned down but still counted; turned
\* down; after its session.
Sockets == {"none", "open", "refusing", "refused", "ended"}

Pages == {"closed", "asked", "refused", "index.html", "terminal.html", "other"}

SiteTypeOK ==
  /\ TypeOK
  /\ customPath \in CustomPaths
  /\ maxConnection \in Limits \cup {0}
  /\ knows \in BOOLEAN
  /\ issued \in 0 .. MaxTokens
  /\ winner \in Windows \cup {Nobody, Other}
  /\ others \in 0 .. MaxOthers
  /\ win \in [Windows ->
                [at : Paths \cup {<<>>}, token : 0 .. issued,
                 opener : Paths \cup {<<>>}, page : Pages, asked : 0 .. 3,
                 whole : BOOLEAN, ws : Sockets]]

SiteInit ==
  /\ StartInit
  /\ customPath \in CustomPaths
  /\ maxConnection \in IF IsSet("max_connection") THEN Limits ELSE {0}
  /\ knows \in BOOLEAN
  /\ issued = 0
  /\ winner = Nobody
  /\ others = 0
  /\ win = [w \in Windows |-> Closed]

-----------------------------------------------------------------------------
(* Paths.                                                                  *)

EndsInSlash(p) == Last(p) = "/"

\* A browser resolves a relative link in place of what follows the last slash.
Resolve(base, link) ==
  SubSeq(base, 1, Max({k \in 1 .. Len(base) : base[k] = "/"})) \o link

\* path of Server.Run, pathPrefix of setupHandlers
Prefix ==
  IF Given(1, "EnableRandomUrl") THEN Random
  ELSE IF customPath # <<>> THEN customPath
  ELSE <<"/", "terminal", "/">>

-----------------------------------------------------------------------------
(* The server.                                                             *)

\* The files below static that a handler can serve (asset.go).
Assets ==
  {<<"favicon.png">>} \cup {<<"css", "/", f>> : f \in Styles}
                      \cup {<<"js", "/", f>> : f \in Bundles}

\* The patterns of siteMux and what their handlers answer with.
Routes ==
  {<<Prefix, IF Given(1, "IndexFile") THEN "other" ELSE "terminal.html">>}
    \cup {<<Prefix \o p, "static">> :
             p \in {<<"js", "/">>, <<"css", "/">>, <<"favicon.png">>}}
    \cup {<<Prefix \o <<f>>, f>> : f \in {"auth_token.js", "config.js"}}
    \cup {<< <<"/", "api", "/", f>>, f>> : f \in {"kube-config", "kube-token"}}
    \cup IF customPath = <<>> THEN {<< <<"/">>, "index.html">>} ELSE {}

Patterns == {r[1] : r \in Routes}

\* ServeMux: the pattern itself, or the longest one that ends in a slash and is
\* a prefix
Matches(p) ==
  IF p \in Patterns THEN {p}
  ELSE LET prefixes == {q \in Patterns : EndsInSlash(q) /\ IsPrefix(q, p)}
       IN {q \in prefixes : \A r \in prefixes : Len(r) <= Len(q)}

\* A mistake in its place: no redirect.
RedirectedNever(p) == FALSE

\* ServeMux: a path that only lacks the slash of a pattern
Redirected(p) == p \notin Patterns /\ Append(p, "/") \in Patterns

\* StripPrefix and FileServer
Static(p) == {Last(f) : f \in {g \in Assets : Prefix \o g = p}}

\* What the site answers to a GET or POST that passes wrapBasicAuth.
Answers(p) ==
  UNION {IF r[2] = "static" THEN Static(p) ELSE {r[2]} :
           r \in {s \in Routes : s[1] \in Matches(p)}}

EnableBasicAuth == IsSet("credential") \/ IsSet("credential_file")

Authorized == EnableBasicAuth => knows

\* A mistake in its place: the path that is not random.
IsWsFixed(p) == p = <<"/", "terminal", "/", "ws">>

\* wsMux has this one path, outside of wrapBasicAuth.
IsWs(p) == p = Prefix \o <<"ws">>

Once == Given(1, "Once")

\* counter.connections
Counted ==
  others + Cardinality({w \in Windows : win[w].ws \in {"open", "refusing"}})

\* With --once the deferred cancel of the only handler has stopped the server.
Stopped == Once /\ winner # Nobody /\ Counted = 0

\* The swap of --once and counter.add: the first request takes the only place,
\* whatever becomes of it.
Claim(who) ==
  /\ Once => winner = Nobody
  /\ winner' = IF Once THEN who ELSE winner

\* What generateHandleWS and processWSConn ask of a request that is counted:
\* that it is within the limit, its origin, and that the AuthToken that
\* auth_token.js gave to the page is the credential.
Accepted ==
  /\ maxConnection # 0 => Counted + 1 <= maxConnection
  /\ ~(Given(1, "WSOrigin") /\ Trouble("other origin"))
  /\ ~(Given(1, "Credential") /\ Trouble("escape"))

-----------------------------------------------------------------------------
(* The browser.                                                            *)

\* The script elements of terminal.html and index.html, in their order.
Scripts(page) ==
  CASE page = "terminal.html" ->
         << <<"auth_token.js">>, <<"config.js">>, <<"js", "/", "gotty-bundle.js">> >>
    [] page = "index.html" ->
         << <<"terminal", "/", "js", "/", "index-lib.js">>,
            <<"terminal", "/", "js", "/", "index.js">> >>
    [] OTHER -> <<>>

Serving == pc = "serving" /\ ~Stopped /\ UNCHANGED fixedVars

Open(w, path, token, opener) ==
  win' = [win EXCEPT ![w] = [Closed EXCEPT !.at = path, !.token = token,
                               !.opener = opener, !.page = "asked"]]

\* A user types an address, with a token that the API has handed out or none;
\* who types a random one was told it, since the log leaves it out.
Visit(w) ==
  /\ Serving
  /\ win[w].page = "closed"
  /\ \E path \in Typed \cup {Prefix}, token \in 0 .. issued :
       Open(w, path, token, <<>>)
  /\ UNCHANGED <<issued, doorVars>>

\* The answer to it: 401, a redirect that keeps the query, or a page.
Load(w) ==
  /\ Serving
  /\ win[w].page = "asked"
  /\ \/ /\ ~Authorized
        /\ win' = [win EXCEPT ![w].page = "refused"]
     \/ /\ Authorized /\ Redirected(win[w].at)
        /\ win' = [win EXCEPT ![w].at = Append(@, "/")]
     \/ /\ Authorized /\ ~Redirected(win[w].at)
        /\ LET pages == {"index.html", "terminal.html"} \cap Answers(win[w].at)
           IN \E page \in IF pages = {} THEN {"other"} ELSE pages :
                win' = [win EXCEPT ![w].page = page]
  /\ UNCHANGED <<issued, doorVars>>

\* The next script.  handleAuthToken puts the credential between quotes as it
\* is; what is no script, or is not found, is not run.
Fetch(w) ==
  /\ Serving
  /\ win[w].asked < Len(Scripts(win[w].page))
  /\ LET link == Scripts(win[w].page)[win[w].asked + 1]
         good == /\ Last(link) \in Answers(Resolve(win[w].at, link))
                 /\ ~(link = <<"auth_token.js">> /\ Given(1, "Credential")
                        /\ Trouble("quote"))
     IN win' = [win EXCEPT ![w].asked = @ + 1, ![w].whole = @ /\ good]
  /\ UNCHANGED <<issued, doorVars>>

Ready(w) == win[w].asked = Len(Scripts(win[w].page)) /\ win[w].whole

\* main.ts: a websocket at location.pathname + 'ws', whose first message has
\* gotty_auth_token and location.search.  It is turned down where no handler is,
\* by --once before it is counted, or by what is asked of it then.
Connect(w) ==
  /\ Serving
  /\ win[w].page = "terminal.html" /\ Ready(w) /\ win[w].ws = "none"
  /\ LET there == IsWs(win[w].at \o <<"ws">>)
     IN \/ /\ there /\ Claim(w)
           /\ win' = [win EXCEPT ![w].ws = IF Accepted THEN "open" ELSE "refusing"]
        \/ /\ ~there \/ (Once /\ winner # Nobody)
           /\ win' = [win EXCEPT ![w].ws = "refused"]
           /\ UNCHANGED winner
  /\ UNCHANGED <<issued, others>>

\* The deferred counter.done of its handler, after the session or without one.
Done(w) ==
  /\ Serving
  /\ win[w].ws \in {"open", "refusing"}
  /\ win' = [win EXCEPT ![w].ws = IF @ = "open" THEN "ended" ELSE "refused"]
  /\ UNCHANGED <<issued, doorVars>>

\* A request of another browser is counted, accepted or not, until its own done.
OtherComes ==
  /\ Serving
  /\ others < MaxOthers
  /\ Claim(Other)
  /\ others' = others + 1
  /\ UNCHANGED <<issued, win>>

OtherLeaves ==
  /\ Serving
  /\ others > 0
  /\ others' = others - 1
  /\ UNCHANGED <<issued, winner, win>>

\* $scope.connect of index.js, when the API answers with a token: a window at
\* location.pathname + "terminal?token=" and the token.
OpenTerminal(w, v) ==
  /\ Serving
  /\ win[w].page = "index.html" /\ Ready(w)
  /\ win[v].page = "closed"
  /\ issued < MaxTokens
  /\ \E api \in {"kube-config", "kube-token"} :
       api \in Answers(Resolve(win[w].at, <<"api", "/", api>>))
  /\ issued' = issued + 1
  /\ Open(v, win[w].at \o <<"terminal">>, issued', win[w].at)
  /\ UNCHANGED doorVars

\* Somebody else posts to the API.
Issue ==
  /\ Serving
  /\ issued < MaxTokens
  /\ issued' = issued + 1
  /\ UNCHANGED <<doorVars, win>>

Start ==
  /\ StartNext
  /\ UNCHANGED <<customPath, maxConnection, knows, issued, doorVars, win>>

SiteNext ==
  \/ Start
  \/ Issue \/ OtherComes \/ OtherLeaves
  \/ \E w \in Windows : Visit(w) \/ Load(w) \/ Fetch(w) \/ Connect(w) \/ Done(w)
  \/ \E w, v \in Windows : OpenTerminal(w, v)

SiteSpec == SiteInit /\ [][SiteNext]_siteVars

-----------------------------------------------------------------------------
(* Properties.                                                             *)

\* A window that has done all it can by itself.
Settled(w) ==
  win[w].page \notin {"closed", "asked"}
    /\ win[w].asked = Len(Scripts(win[w].page))
    /\ (win[w].page = "terminal.html" /\ Ready(w) =>
          win[w].ws \notin {"none", "refusing"})

\* What keeps every terminal page from its terminal: a credential that breaks
\* auth_token.js or that it gives wrong, and a pattern that refuses the page's
\* origin.
Hindered ==
  \/ Given(1, "Credential") /\ (Trouble("quote") \/ Trouble("escape"))
  \/ Given(1, "WSOrigin") /\ Trouble("other origin")

\* The server has no place for the window: another one had that of --once, or
\* --max-connection is less than the connections there can be.
NoPlace(w) ==
  \/ Once /\ winner \notin {w, Nobody}
  \/ maxConnection # 0 /\ maxConnection < MaxOthers + Cardinality(Windows)

\* The window has or had its session, or there was no place for it.
Served(w) == win[w].ws \in {"open", "ended"} \/ NoPlace(w)

\* A terminal page found at the path it is served under gets its three scripts
\* and its websocket, whichever of --random-url, TERMINAL_PATH and the redirect
\* led there, unless --once gave the only place to another one, or the limit of
\* --max-connection can be reached at all (server.go:119-127, 216-222, 275,
\* terminal.html:12-14, main.ts:20, handlers.go:37-43, 45-65, 114).  It does not
\* when TERMINAL_PATH lacks its last slash, nor at the other paths below it,
\* where the same page is served.
TerminalIsComplete ==
  \A w \in Windows :
    /\ Settled(w)
    /\ win[w].page = "terminal.html" /\ win[w].at = Prefix
    /\ EndsInSlash(Prefix) /\ ~Hindered
    => win[w].whole /\ Served(w)

\* The window that the index page at / opens for a session comes, by way of the
\* redirect, to a terminal with the token of that session, which no other
\* window opened by an index page has (index.js:38-45, main.ts:21), where the
\* server has a place for it.  With --random-url it does not: the scripts of the
\* index page are then not found.
TokenArrives ==
  \A w \in Windows :
    win[w].opener = <<"/">> =>
      /\ Prefix = <<"/", "terminal", "/">>
      /\ Settled(w) /\ ~Given(1, "IndexFile") /\ ~Hindered =>
           win[w].page = "terminal.html" /\ Served(w)
      /\ win[w].token # 0
      /\ \A v \in Windows \ {w} :
           win[v].opener # <<>> => win[v].token # win[w].token
=============================================================================
