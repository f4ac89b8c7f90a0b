# webkubectl in TLA+

Specifications of webkubectl, a gotty derivative that serves a kubectl terminal
per websocket: TLA+ modules, TLC configurations that check them on small
instances, and TLAPS proofs that hold for every instance. Paths are relative to
`src/gotty/` unless they name another directory.

## 1. The system

| component | code | state | operations |
| --- | --- | --- | --- |
| connection counter | `server/handler_atomic.go` | count, WaitGroup, idle timer, one mutex | add, done, count, wait, timer |
| server lifecycle | `server/server.go` (Run), `server/run_option.go`, `main.go` | cctx, gracefulCtx, http.Server, srvErr, the shared variable err, signal and error channels | listen and serve, graceful and forced stop, wait for handlers, signals, exit code |
| websocket handler | `server/handlers.go` 25-201 | one goroutine per connection, the `once` flag | admission, upgrade, first message, token lookup, slave, session, close |
| token API and caches | `server/handlers.go` 283-397, `cache/token/*.go` | tokens with parameters and lifetimes, in memory or redis | issue, Get, Delete, expiry |
| webtty bridge | `webtty/*.go`, `server/ws_wrapper.go` | three goroutines and Run, write mutex, buffers, last ping | bridge output and input, ping and pong, resize, lost-ping timeout |
| local command | `backend/localcommand/*.go` | process, pty, ptyClosed | start, read, write, resize, close with SIGKILL after a timeout |
| browser client | `js/src/webtty.ts`, `websocket.ts`, `main.ts` | connection, ping timer, reconnect timer | open, send, ping, close, reconnect |
| terminal widgets | `js/src/xterm.ts`, `hterm.ts` | the screen, callbacks | adapters of two libraries |
| options and flags | `main.go`, `server/options.go`, `backend/localcommand/options.go`, `utils/*.go` | option structs | defaults, then flags and environment, validation |
| pages and middleware | `server/server.go` 53-101, 216-268, `server/handlers.go` 203-281, `middleware.go` | two multiplexers | templates, static files, basic auth, logging |
| index page | `resources/index.js` | the browser's local storage | a form of clusters, which asks for a token and opens a terminal |
| session scripts | `src/start-session.sh`, `src/init-kubectl.sh` | namespaces and mounts | straight-line set-up |

How they interact. `main` starts `Run` in a goroutine and waits for its result
or for signals. `Run` starts the HTTP server, one goroutine that returns
Serve's error through `srvErr`, one that turns the graceful context into
`srv.Shutdown`, and (through `generateHandleWS`) one that turns the idle timer
into a cancel. Every websocket request runs in a goroutine of net/http that
counts itself in and out of the counter; `Run` ends by waiting for the counter.
A client first obtains a token from the API with a POST and then presents it in
the first message of its websocket; the handler looks it up, deletes it and
passes the parameters to the command it starts. The page of that terminal is
opened by the index page, or by any other client of the API, with the token in
its query; it loads its scripts from paths relative to its own and keeps its
arguments, the token among them, for every connection it makes. `webtty.Run` bridges the
websocket and the pty of the command until one of them ends, pings stop or the
context is cancelled; closing the command is the handler's part.

What is hard, and what makes each part correct:

* counter: the count, the WaitGroup and the timer agree for every order of
  arrivals, refusals and failures; nothing leaks a place;
* handler: the limit and `--once` hold under concurrent requests;
* lifecycle: every way of stopping ends the process, no command outlives a
  forced stop, the exit code is right; the races are between in-flight
  requests and the final wait, the timer's channel and new clients, the two
  writers of `err`;
* tokens: one terminal per token, none after its expiry, and a good token is
  never refused; the races are between the lookup and the delete of several
  connections, redis failures and crashes;
* bridge: order and completeness of both streams, no session cut while pings
  arrive, none kept without; a blocked write on one side stalls the other;
* local command: Close always returns with the process dead; output that was
  not read when the process exits;
* client: one connection, one interval and one set of callbacks at a time,
  whatever fails; a lost connection is followed by another one;
* client and server together: the token of a page opens one session, whatever
  the page does to reconnect, and the command runs in the size of the window;
* start: every flag reaches its own option, a server serves only if what it
  checks of its options is there, and a failure shows in the exit code;
* site: page, scripts, websocket and token come together under each path the
  terminal can be given.

`PROJECT.json` lists the hazards at their lines.

## 2. Modules

| module | role |
| --- | --- |
| `ConnCounter` | the counter: one operation per method, with WaitGroup and timer semantics |
| `Server` | EXTENDS `ConnCounter`: handlers, Run and its goroutines, waitSignals |
| `Admission` | the abstract promise of a server to its clients: limit, `--once`, closing |
| `MCServer`, `Server*.cfg` | instances of `Server` |
| `ServerProofs` | theorems about `Server`, that it implements `Admission`, and that its sessions are those of `Session` |
| `TokenStore` | API handlers, both caches, the lookup in processWSConn |
| `OneTimeToken` | the abstract promise of the token API |
| `MCTokenStore`, `TokenStore.cfg`, `TokenTwice.cfg` | instances of `TokenStore` |
| `TokenStoreProofs` | theorems about `TokenStore`, and that it implements `OneTimeToken` |
| `LocalCommand` | a process behind a pty: both buffers, the waiting goroutine, Close |
| `WebTTY` | EXTENDS `LocalCommand`: webtty.Run with its goroutines, wsWrapper, the websocket, the handler's two closes |
| `Bridge` | the abstract promise of a terminal: both streams in order |
| `Session` | the abstract promise of a session to its server: how it ends |
| `MCWebTTY`, `SessionSafety.cfg`, `SessionEnds.cfg`, `SessionInput.cfg` | instances of `WebTTY` |
| `MCSessionClock`, `SessionLostPing.cfg` | `WebTTY` with goroutines that are quick against the clock |
| `WebTTYProofs` | theorems about `WebTTY`, and that it implements `Bridge` and, but for the fairness, `Session` |
| `Browser` | a page: open with its callbacks and timers, both terminal widgets |
| `BrowserProofs` | theorems about `Browser` |
| `System` | EXTENDS `Browser`, INSTANCE `TokenStore`: a terminal from the page to the pty |
| `MCSystem`, `System.cfg` | an instance of `System` |
| `SystemProofs` | theorems about `System`, on top of those about `Browser` and `TokenStore` |
| `Startup` | a process from its command line to a server that serves, or an exit |
| `Site` | EXTENDS `Startup`: the paths a server answers, and the windows of a browser on them |
| `MCSite`, `Site.cfg` | an instance of `Site` |
| `SiteProofs` | theorems about `Startup`, and that `Site` starts as it does |
| `SitePageProofs` | theorems about the windows of `Site` |

Some definitions are followed or preceded by a variant whose name says what is
wrong with it (`OverLimitLate`, `DeleteForgets`, `GreetAtOnce`, ...). No specification uses
them; each is a plausible mistake that one of the properties rules out.

### ConnCounter and Server

Each method of the counter holds the mutex for its whole body, so `Add` and
`Done` are single operations; `Wait` takes no lock and is split where it blocks.
The WaitGroup part follows the Go library: the `Done` that reaches zero releases
a parked waiter, which reads the count again when it runs and panics if somebody
added in between. A timer that has fired leaves one value in its channel, which
`Stop` and `Reset` do not take back. Durations are integers of which only the
sign matters. The mutex is never held across a blocking call, so that it needs
no state of its own.

`Server` has one action per step of a goroutine that another goroutine can see:

| variable | code |
| --- | --- |
| `options` | `Once`, `MaxConnection`, `Timeout`, any combination from `Configs` |
| `handler[c]`, `slave[c]` | the goroutine of generateHandleWS/processWSConn, and its command |
| `once` | the flag of the compare-and-swap (handlers.go:26) |
| `cancelled`, `gracefulDone` | cctx and gracefulCtx are done |
| `gwatch`, `serving`, `runPc`, `mainPc` | the watcher of gracefulCtx, the goroutine of Serve, Run, waitSignals |
| `http` | serving, failed, after Shutdown, after Close |
| `srvErr`, `errs`, `sigChan` | the channels, all of capacity 1 |
| `err` | the variable of Run, written by two goroutines |

`CountIn` is `counter.add(1)` with the check of the number it returned: the
number is a local copy, so the check can be taken with the add. It ends in
`leaving` for a request that is refused, over the limit or not a GET, since
both run the deferred `done`. `UpgradeOk` is the moment the connection is
hijacked: before it `srv.Close` closes the connection, after it does not. The
write of `err` by Serve's goroutine is one step with its send on `srvErr`; Run
may overwrite `err` only after it has stopped listening to `srvErr`, so the
order of the two cannot be told. The data race on `err` cannot produce a torn
value: both errors have the same dynamic type. `accepted` covers a TCP connection
whose request has not come yet, which is why `Accept` needs a serving listener
and `CountIn` does not. Process exit, or a panic, stops everything (`Alive`).
`TimerWatcher` takes an expiry that was in the channel before a client came, and
cancels the server under that client: handlers.go:28-34 do not look at the count
again, and no text of the repository says they should. `Startup` has what comes
before the listener is open.

`Admission` knows clients that are out, waiting, in or left, and a server that
is open, closed or over. A client is in from the upgrade to the end of its
session. The mapping (`ClientState`, `Door`) makes the compare-and-swap of
`--once` the moment a client asks, `UpgradeOk` the moment it gets in, srv.Close
the end of admission and the return of the last wait the end of the server.
`KeepsDoor` therefore joins the limit, `--once`, srv.Close and the wait, which
four goroutines handle without knowing of each other. That a graceful stop does
not wait for everybody is finding 1; `over` speaks of a closed server.

### TokenStore

A token stands for the parameters stored under it. The entry's life is counted
down by `Tick` from what the cache makes of the duration (go-cache: 0 is the
default of five minutes, negative is for ever; redis: both are for ever), while
`age` is counted apart from it. `Get`, `Delete` and `factory.New` are separate
steps of each connection. A redis request may fail, with or without effect;
`Restart` loses the connections of a process, and the tokens if they are in its
memory. `kept` remembers the connections whose own Delete failed or whose process
died before it: the only ones after which a token that was given may be given again
(`SecondComesBetween`). Validation in the API handlers changes no state and is left out.
Tokens are fresh, by the 36^20 values of randomstring.Generate; a client may
present a token that was never issued. `Presents` fixes which connections may
present which tokens: the properties quantify over `Exclusive` tokens, of a
single connection, where concurrent lookups matter.

`OneTimeToken` is the promise of README.md:124: a token is unused, valid, spent
or invalid, and spending it gives it to one connection. The mapping takes a
token as spent from the moment a Get has found it, so that the later Delete is
a stuttering step.

### LocalCommand and WebTTY

One session, from `webtty.Run` to the end of its last goroutine. `Server` has
the same stretch as three actions, `TtyEnds`, `SlaveExits` and `CloseReturns`.
What justifies taking them so is `Session`, the abstract session between the two:
it may end at any time, it ends when ctx is cancelled, its command then dies and
is waited for, and only then it is over. `WebTTY` implements it (`KeepsSession`,
with the fairness that `Server` assumes of its handlers), and the sessions of
`Server` are neither more nor less than that (`ServerTakesSessions`,
`ServerTakesEverySession`).

| variable | code |
| --- | --- |
| `cmd`, `waiter`, `closing` | the process, the goroutine of `localcommand.New`, the call of `Close` |
| `produced`, `taken`, `queued` | output written and read; input in the pty that the command has not read |
| `run`, `runErr`, `errs`, `cancelled` | Run and then the deferred calls of the handler, the result, the channel, ctx |
| `sr`, `mr`, `pg` | the goroutines that read the slave, read the master, watch for pings |
| `mutex` | writeMutex |
| `todo`, `fed` | the units of input `mr` still has to write; the last one written |
| `sleep`, `sincePing` | the rest of the sleep of `pg`; the age of lastPingTime |
| `conn`, `writeErr`, `toClient`, `toServer` | the websocket, its sticky write error, what is in flight |
| `typed`, `shown` | input the client has sent; the last chunk of output the browser has read |

Output is counted in chunks, what one Read of the pty returns; a message to the
client is the number of its chunk, or 0 when it carries none. Input is counted in
units of a write that the pty takes or does not take.

* A websocket write flushes in a deferred `writer.Close` whose error is dropped
  (ws_wrapper.go:16): `WsWrite` to a connection whose peer has gone succeeds,
  loses the message and makes the next one fail. Neither direction has a
  deadline, so a write waits as long as the buffers are full.
* `mr` writes input into the pty itself. It does nothing else meanwhile, which is
  where `session_lost_ping` comes from.
* Run sets both buffers to nil when it returns, without synchronisation. A
  goroutine may see this before its next read, in the slice expression after the
  read (a panic, recovered, that drops what was read) or not at all: `SrStops`,
  `MrStops` and the ordinary actions, of which any may happen. An empty read
  through a nil buffer carries no data and is not modelled. lastPingTime is
  shared without synchronisation as well; both times it holds have a monotonic
  reading, one word, and only that word is compared.
* What a goroutine sends on `errs` after Run has returned is stored as "error",
  since nobody can receive it; the place it takes in the channel is kept.
* The initial messages are sent before the goroutines exist, without looking at
  ctx: a client that does not read holds Run there. They are few and small, and
  `WebAssumption` says that an empty connection has room for them.
* A resize matters by whether it fails, which it does when the pty is closed and
  the size is not fixed. The size itself is in `System`. lostPingTimeout is a
  constant, since the condition that should read it from the environment is
  inverted (webtty.go:126).

`Bridge` promises that the browser shows chunk after chunk and that the command
receives input in order, none without `--permit-write`. It allows a stream to
stop, since a session may end with output unread, and input to have gaps: the
code drops what one Read of a message did not return, which is finding 5.

### Browser

A page runs one task at a time, so that each callback is one action: of the
websocket (`OnOpen`, `OnReceive`, `OnClose`), of the timeout (`Reconnect`), of
the window (`Resize`, `Unload`). What can go wrong lies between the tasks: all
connections of a page share the variables `connection`, `pingTimer` and
`reconnectTimeout` of open, and one widget.

| variable | code |
| --- | --- |
| `n`, `socket` | `connection`, by number, and the state of its websocket |
| `reconnect` | this.reconnect > 0 |
| `pingTimer`, `reconnectTimeout` | the variables, holding the number of the connection that set them |
| `pinging`, `waiting` | the intervals and timeouts that run, whoever knows of them |
| `handlers` | callbacks of the page that the widget calls |
| `size`, `noted`, `told` | the size of the window, what Hterm remembers, what was sent last |

The two widgets differ where it matters. `Xterm` collects callbacks, and its
`off` is called without one: the library then takes off the last, which is the
page's own as long as there is one. `Hterm` has room for one callback, and
learns its size only there, so that a window that was resized between two
connections, or never, is announced wrongly by `Hterm`: `SizeIsKnown` (which is
proved) and `WindowReachesCommand` hold for `Xterm` only. A websocket that is
closing counts as open until its close event: what is sent on it is dropped
without an error. What the messages say is the part of `System` and `WebTTY`.

### System

One page and all that is behind it. Connection `k` of the page is connection `k`
of `TokenStore`; every connection presents the one token of the page
(`Store == INSTANCE TokenStore WITH ...`), and a session of the page lives where
`conn[n] = "session"`. Actions of the page (`Page`) are those of `Browser` with
what they send; actions of the server (`StoreStep`) are those of `TokenStore`
with what becomes of the messages. Joining them takes three more things:

| variable | code |
| --- | --- |
| `sent` | the first message was sent, without which ReadMessage does not return (handlers.go:101) |
| `up`, `pty` | sizes on their way to the session, and what ResizeTerminal made of them |
| `offered` | the session sent msgSetReconnect, without which the page never reconnects |

The order that matters is that of webtty.go: the initial messages, msgSetReconnect
among them, go out before the first message is read (`ResizeTerminal` waits for
`offered`), and a page that was told to reconnect therefore has a session, for
which its token was looked up. That is why `FirstConnectionOnly` holds in spite
of finding 3: the two connections that race for a token are never of one page.
With `--reconnect` each further connection of a page is given a session whose
argument is `ERROR:Invalid Token` (handlers.go:139), which ends and is followed by
the next one; GOTTY_USAGE.md:27 promises only that the client reconnects, which
`ComesBack` says.

Only what the newest connection shows is followed: a session the page has left
goes on in `TokenStore` without a screen.

### Startup and Site

`Startup` walks through `main`: the parser, the action, the loop of ApplyFlags with
one turn as one action in any order (the code ranges over a map), Validate of both
option structs, server.New, the first part of Run, net.Listen, Serve. A flag is set
or not; what is wrong with the value or the file behind it is one of `Troubles`,
fixed in the input. The credential file is a case of its own: setupHandlers panics
if it cannot be opened or is over 10M ("no credentials"), but a directory, a read
error or a line of 64K ends the scanner, whose error is not looked at, and lines
over 1024 bytes are passed over: with "cut credentials" the start goes on and the
server serves with what was read (server.go:252-266). Each step exits with the code of main.go (1 no command, 3
server.New, 6 validation, 8 Run, 2 a panic), or goes on. The tables of tags are those
of the three structs, since what can go wrong with ApplyFlags is that two of
them share a name. Two facts a reader may miss: `--redis-max-conn-age` does not
exist, since GenerateFlags knows no duration, and main drops the error of the
parser, so that a misspelt flag exits with 0 (`FailureShows` excepts it).

`Site` takes a server that serves, and a browser whose windows go to its paths. A
path is a sequence of words and slashes, a slash being a word of its own, so that
`\o` is the concatenation of the code, `Append(p, "/")` the slash that ServeMux
adds, and `Resolve` what a browser does with a relative link and
location.pathname. What paths are made of is the constant `Words`: the ones that
the code names are among them by `SiteAssumption`, and any others may be. A
TERMINAL_PATH begins with a slash by the same assumption. `Routes` is siteMux with its handlers, `Matches` and
`Redirected` are http.ServeMux, and `IsWs` is the one path outside of basic
authentication. A window asks for its page (`Visit`, `Load`), for the scripts
one after the other (`Fetch`), and then connects (`Connect`) or, on the index
page, posts to the API and opens another window (`OpenTerminal`).

`Connect` is answered by generateHandleWS and processWSConn. `Claim` is the swap of
`--once` with counter.add: a request that loses it is turned down without being
counted. `Accepted` is what is asked of a request that is counted: the limit of
`--max-connection`, against `Counted` (`counter.connections`), the origin, and that
the AuthToken is the credential. A request that is turned down there stays counted
until its deferred `Done`, as a session does. `OtherComes` and `OtherLeaves` are the
requests of other browsers, accepted or not, of which only the number counted
matters. With `--once` the first `Done` cancels the server, and a server that has
stopped takes no step (`Stopped`); how it stops is in `Server`.

What breaks, and is written into the properties as an exception where it is:
a quote in the credential ends the string literal in auth_token.js, a
backslash makes another string of it ("escape"), and a pattern of `--ws-origin` may
not match (`Hindered`); `--once` may have given its place to another request, and
`--max-connection` may be less than the connections that there can be at a time
(`NoPlace`; a limit that cannot be exceeded is no excuse); with `--random-url` the index page, whose links say `terminal/`,
finds no scripts, and nobody is told the path, since the line that logs it is a
comment (server.go:159); with a TERMINAL_PATH that lacks its last slash the
websocket is not found, and at any path below the terminal page the page is
served without its scripts.

## 3. Runs

| run | instance | shows |
| --- | --- | --- |
| `server_safety` | 3 connections (symmetric), 12 settings | the safety properties of `Server`, and the refinement |
| `server_liveness` | 2 connections, 3 settings | every way of stopping ends the process |
| `server_drain` | 2 connections | violated: a graceful stop, with nothing cancelled, leaves no command |
| `server_exit_code` | 2 connections | violated: a forced stop is no failure |
| `token_store` | 2 tokens, 3 connections, 8 settings | the properties of `TokenStore`, and the refinement |
| `token_twice` | as above, memory cache | violated: one terminal per token |
| `session_safety` | 2 settings, every kind of message | the safety properties of `WebTTY`, and the refinement |
| `session_ends` | 1 setting | every end ends everything; output arrives; a session is to its server what `Session` promises |
| `session_lost_ping` | clients that ping in time | violated: pings keep a session alive |
| `session_input` | 4 units, 2 to a message | violated: no input is left out |
| `system` | 3 connections, 2 sizes, 2 caches, 5 settings, both widgets | the properties of `Browser` and `System` |
| `site` | 30 starts, 3 limits, 3 paths, 2 windows and 1 request of others, 2 tokens | the properties of `Startup` and `Site` |

Bounds. Three connections are one more than the largest limit, two that race
and one that comes later; they are used once each, and the proofs remove the
bound. Limits -1, 0, 1 and 2 cover refused, unlimited, a single place and
several; timeouts -1, 0 and 1 the three signs; `--once` goes with each kind of
timer and with and without a limit. Two connections suffice for
liveness: one that holds the server and one that races with the stop. Two
connections share a token and one has a token of its own; durations -2, 0, 1
and 2 lie on both sides of the default of 3, and ages are counted to 4, past
every lifetime. Deadlock is not checked: a process ends and its handlers with it.

In a session every buffer is as small as it can be and still be full, empty and
blocking: one chunk or unit in each direction of the pty (`PtyCap`), one or two
messages in each direction of the websocket (`NetCap`, `ClientCap`). Two chunks
(`MaxOut`) can be swapped, lost or repeated against each other; a message of two
units (`Sizes`) can be cut; four units (`MaxIn`) are two messages, so that
something follows a cut. A sleep of one unit (`CheckPeriod`) and a timeout of
none, one or two (`LostPing`) put the check before, at and after the limit;
`sincePing` needs no bound, since it is bounded by what `SilenceBounded` says.
`session_ends` has one chunk and pings only: its question is who waits for whom,
and the other messages end in the same states. The proofs remove every one of
these bounds for the safety properties.

A page is followed through three connections (`MaxConns`): a first one, one that
fails, and one that succeeds. Two sizes of the window can differ, and two on
their way (`MaxInFlight`) can be in the wrong order. Redis may fail and lets its
entries expire after one tick, the memory is emptied by a restart; no side of the
terminal is fixed, one, or both. The proofs remove all of these bounds.

The starts of `site` are those that are refused, each value that can be wrong
together with others that are right, and each option that changes a path, a
page or the authentication, from the command line and from the environment; a
set of two or three flags is enough to find them assigned in either order. Two
windows are the index page and the terminal it opens, two tokens can be mixed
up. One request of another browser at a time (`MaxOthers`) can win the swap of
`--once`, and with the two windows makes three connections: of the limits, 1 can be
exceeded, 3 cannot, and -1 lets nobody in. TERMINAL_PATH is absent, right, or lacks its last slash. The theorems about
`Startup` hold for every command line and environment.

Fairness (`FairSpec`). Runnable goroutines run: handlers between the steps that
wait for a client, Run, main, the goroutines of Serve, of gracefulCtx and of the
timer; timers fire; a command that is being closed dies, since Close repeats
SIGKILL. Nothing is assumed of clients (to send a request, to send the first
message, to leave), of signals or of the listener's failures. Therefore
`CancelledServerStops` and `GracefulServerStops` except the behaviours in which a
silent, respectively connected, client stays for ever. The exception is needed:
`conn.ReadMessage` (handlers.go:101) has no deadline and does not watch ctx, so
that one client that upgrades and says nothing keeps a cancelled server alive,
where `server.go:109-110` says that it shuts down immediately.

`FairSpec` of `WebTTY` lets the goroutines run, their sleeps and the timeout of
Close end, the kernel reap what is dead and a process die of SIGKILL. The two
places that lock writeMutex are strongly fair: sync.Mutex hands a mutex to a
goroutine that has waited for a millisecond. Nothing is assumed of the client, of
the command before SIGKILL, or of ctx, so `SessionCleansUp` starts from an end
that has happened: a cancelled ctx, a dead command or a closed connection.
`OutputArrives` excepts a browser that leaves messages unread for ever.

`SysFairSpec` assumes that the timeout of a page fires while the page is there,
and nothing of the network, the server or the user.

### Findings

1. After a graceful stop, a request in flight gets a command that Run does not
   wait for (`server.go:204`; `run_option.go:15-16`).
2. A forced stop with a session open may exit with code 8, "http: Server
   closed", by the unsynchronised `err` (`server.go:173, 197`).
3. Two connections that present one token at the same time both get a terminal
   (`handlers.go:132-137`; `src/README.md:124`).
4. A session is cut as lost although pings arrive: they wait behind input that
   the command does not read (`webtty.go:215`; `webtty/errors.go:14`).
5. Input that has not arrived whole when it is read is cut, and later input
   follows it (`ws_wrapper.go:31`; `webtty_test.go:116-117`).

## 4. Proofs

`ServerProofs` assumes a finite set of connections (`ClientsAssumption`) and
settings of the right type. The invariant of types is not inductive alone:
`Done` keeps the count a natural number only because its caller is counted.
`TypeAndCount` (and `ServerTypes`) therefore proves types and `CounterExact` together, from lemmas
that say what each kind of step does to the set of counted handlers
(`CountedStep`, `HandlerMoves`, `CountInStep`, `CountOutStep`, `OtherSteps`). On
it rest:

* `MaxConnections`: an admitted handler is counted, and the number returned by
  add is the size of the counted set, so a check of that copy is enough;
* `OnceOnly`: before the flag is set nobody is past the swap, afterwards all who
  are past it are the same;
* `TimerStopped`: with the extra fact that a zero duration was drained at the
  start;
* `ForcedStop`: with the extra facts that commands belong to handlers in a
  session and that Run waits only after its select; a wait that ends means no
  handler is counted, and a closed server upgrades nobody;
* `WaitIsWhole`: with the count exact, a wait ends only when every handler that is
  counted has closed its command. The request of finding 1 has no other way
  than to count itself in after that moment;
* `GracefulIsClean`: until somebody cancels, Serve's goroutine has written `err`, and
  the same to `srvErr`, before Run writes it (`ErrInv`). The exit code of finding 2
  therefore needs a forced stop or a listener that failed;
* `ServerTakesSessions` and `ServerTakesEverySession`: the handler of a connection,
  with its command, is a session of `Session` that is still to start until there
  is a command (`LifeOf`). `LifeInv` says where a handler can be that has a command,
  or one that lives. The first theorem is a refinement. The second is the converse
  for single steps: what `Session` allows a running session to do is one of the
  actions of `Server`. Together with `SessionKeepsPromise` of `WebTTYProofs` it means
  that `Server` leaves out nothing that sessions do;
* `KeepsTheDoor`, the refinement of `Admission`, from the invariants of all four:
  a handler that goes on moves its client or stutters (`HandlerAtDoor`), with
  room for it when the upgrade succeeds (`RoomToEnter`); Run closes and ends.

`TokenStoreProofs` assumes only the types of the constants. Its invariant says
what a connection knows of its token and that only issued tokens are in the
cache. From it follow `TokenTypes`, `DeletedStaysGone`, and
`TokenStoreKeepsPromise`, the refinement: issuing grants or refuses, a Get that
finds an exclusive token redeems it, time and restarts invalidate, everything
else stutters. A second invariant (`WhyInv`) relates the age of a token to what
is left of its entry, and what is missing to the reason it is: from it follow
the action properties `NoUseAfterExpiry` and `InvalidHasReason`, as
`FoundInTime` and `RefusedForReason`. `RaceWindow` says how far finding 3 goes: the
parameters of a token are given a second time only between the Get and the Delete
of the first connection, or after that very Delete failed or was never sent. It
follows from `DeletedIsGone`, a part of the invariant: the token of a connection that
is past its Delete, in its session or after it, is gone unless the connection is
in `kept`. Neither restarts nor failures of other requests bring it back, so that
a page that reconnects with a used token is refused with redis as well.

`WebTTYProofs` proves every safety property that `session_safety` checks, for all
capacities, timeouts, settings and amounts of data, from `PtyAssumption` and
`WebAssumption`. The invariant has six parts, each inductive relative to those
before it. For each, a "frame" lemma reduces the actions to the few ways in which
they touch the variables of the part, and a "step" lemma goes through those ways.

* `CmdInv`: the pty is closed only after the death of the command, and Close
  returns only after that. From it follows `SessionKeepsPromise`, the safety of
  the refinement of `Session`: goroutines and signals are stuttering steps, the end
  of Run, the end of the waiting goroutine and the last deferred call are its three
  steps. Its fairness stays with TLC.
* `CtlInv`: who is inside masterWrite has the mutex: `MutualExclusion`.
* `EndInv`: what waits in `errs` is as true as what Run returns. `EndIsReal` alone
  is not inductive, since the result comes out of the channel: `ReasonIsReal`.
* `TimeInv`: the age of the last ping and the rest of the sleep together stay
  within timeout and period: `SilenceEnds`.
* `InputInv`: input in flight is ordered, and comes after what `mr` has in hand,
  which comes after what was fed.
* `OutputInv`: each chunk in flight has all chunks between `shown` and itself in
  front of it; while the websocket is open none is missing up to `Sent`, the last
  chunk that is not in the hands of `sr`. This is what makes the chunk that `sr`
  writes next the right one, and it breaks, as it should, only together with the
  connection, after which nothing can be appended.

All six give `SessionTypes`. `SessionKeepsOrder` is the refinement: `MrFeed` is
Feed, `CmdWrites` Produce, `ClientReads` Show when the head is a chunk (by
`NextIsShown` it is the next one), `ClientSends` Type when it is input, and
everything else stutters.

`BrowserProofs` proves types and the safety properties of `Browser` for any number of
connections. The invariant adds to them that an open connection is the one that
`pingTimer` knows, and that a pending timeout is that of the last connection:
without the first a close could clear another interval, without the second a
timeout could find a connection open.

`SystemProofs` begins with `SystemIsPage`: a step of `System` is a step of `Browser` or
leaves the page alone, so that the invariant of `BrowserProofs` holds. It ends with
`SystemIsTokenStore`, the same for the cache and the handlers, from which
`SystemHonoursToken` carries the theorems of `TokenStoreProofs` to the token of a page
that reconnects; their assumptions follow from `SystemAssumption`
(`TokenConstants`). On the first rest `SystemTypes` and two invariants of its own:

* for `ReconnectIsRefused`: a page opens a second connection only after an offer,
  an offer comes from a session, and once there is a session the token is gone,
  as long as nothing has failed;
* for `WindowArrives`: nothing is on its way before the websocket is open, and
  then what was told last is the last size on its way or, when there is none,
  that of the pty.

`SiteProofs` rests on two facts about the tables of tags, `NoFieldTwice` and
`NoFlagTwice`, and on an invariant that says of each flag that it is still to come
or is assigned, and of each step what was looked at before it. They give
`FlagsReachOptions`, `ServesChecked` and `StartFailureShows` for every set of inputs;
`SiteStarts` carries them to `Site`, whose windows change nothing of the start.

`SitePageProofs` follows the windows, for every set of words, TERMINAL_PATHs and
typed paths. Its lemmas are about sequences and about what ServeMux makes of them:
a link goes below a page whose path ends in a slash (`ResolveBelow`), the scripts
of a terminal are answered there (`TerminalScripts`, for which no pattern may be
longer than the one of the js directory: `PatternEnds`), `/terminal` is redirected
once, to the terminal page and not the index page (`TerminalRedirect`), and the
scripts of an index page at / are answered only if the terminal is at its usual
path (`IndexScripts`). The invariant `PageInv` says of each window

* that it is closed while the server does not serve, which is why a start, whose
  steps change the paths, disturbs nobody (`StartKeeps`);
* that a terminal page at its own path lacks no script so far (`TerminalOk`);
* that an index page which got a script is that of a terminal at its usual path,
  and that of a user with the credentials (`IndexOk`);
* that a window of such a page is on its way to the terminal or there
  (`OpenedOk`), with a token that no other one has (`TokenOk`);
* that a window which was turned down at its own path had no place, if nothing
  hindered it (within `TerminalOk` and `OpenedOk`), for which `NoPlace` has to last
  (`PlaceStaysLost`) and a limit that was reached has to be one that can be
  (`LimitReached`);
* that the winner of `--once`, when it is a window, has got beyond asking
  (`WinnerOk`).

`OneWindow` reduces every step of a window to these facts.
Neither property is inductive by itself: `TerminalIsComplete` speaks of windows that
have settled, and what they got on the way has to be known; `TokenArrives` has to
know of the index page what it found before it opened a window. Words are a constant and not STRING since
none of the provers can show of a literal that it is a string.

Only model-checked: liveness, with it the fairness of `Session` (out of the prover's
reach), and the five violations. Only proved: `WaitEndsEmpty`, `FailsOnlyCancelled`,
`DeletedIsGone`, and the theorems about operators and between specifications that no
run states.

## 5. Not modelled, and what is left

Not modelled:

* what the terminal widgets draw, and the callbacks of their libraries;
* headers, compression, the log, pprof, the text of the templates, and TLS beyond
  its files: no state depends on them;
* the list of sessions that the index page keeps in local storage: a form;
* the session scripts: straight-line effects on namespaces and mounts;
* a TERMINAL_PATH that does not begin with a slash, which net/http takes for a
  host; `--permit-arguments=false`, with which no session has a token; the kinds
  and texts of the values of options;
* `LOST_PING_TIMEOUT_SECONDS`: the inverted test of webtty.go:126 ignores a number,
  and turns one beyond the range of int into -1 s. No text of the repository says
  what the variable does, and a property would restate the test;
* the configuration file that GOTTY_USAGE.md documents: the code does not read one.

Left for later: `System` with two pages that were given the same token, to see
finding 3 from the pages' side.
