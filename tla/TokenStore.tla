----------------------------- MODULE TokenStore -----------------------------
(***************************************************************************)
(* The tokens of the kubeconfig and kubetoken APIs: issued by              *)
(* handleKubeConfigApi and handleKubeTokenApi, kept by one of the caches   *)
(* of cache/token (the memory of the process, or redis), and looked up and *)
(* deleted by processWSConn, which does the two in separate calls with     *)
(* nothing to exclude other connections in between.                        *)
(*                                                                         *)
(* A token stands for the parameters stored under it as well.  Tokens are  *)
(* fresh: randomstring.Generate draws 20 random digits of base 36.  Time   *)
(* passes in units; MaxAge bounds how long the age of a token is counted.  *)
(* Several server processes may share one redis: an element of Conns is a  *)
(* websocket connection to any of them.                                    *)
(***************************************************************************)
EXTENDS Integers, FiniteSets

CONSTANTS
  Tokens,      \* the tokens of a behaviour
  Conns,       \* the websocket connections of a behaviour
  Presents,    \* the tokens each connection may present
  Settings,    \* the caches and values of --token-expires-duration considered
  DefaultTtl,  \* the default expiration of the memory cache, 5 minutes
  MaxAge       \* ages are counted up to here, which no entry outlives

ASSUME PresentsAssumption == Presents \in [Conns -> SUBSET Tokens]

ASSUME SettingsAssumption ==
  Settings \subseteq [backend : {"mem", "redis"}, ttl : Int]

ASSUME TtlAssumption ==
  /\ DefaultTtl \in Nat \ {0}
  /\ MaxAge \in Nat
  /\ DefaultTtl <= MaxAge
  /\ \A s \in Settings : s.ttl <= MaxAge

\* what a connection without a token has in its place
None == "none"

ASSUME NoneAssumption == None \notin Tokens

VARIABLES
  settings,  \* the settings of the process
  left,      \* the units a stored token has left: 0 not there, -1 no end
  issued,    \* what the API answered: "no", "ok" or "error"
  age,       \* the units since the token was stored, up to MaxAge
  conn,      \* the handler of each connection, in processWSConn
  token,     \* the token it presented
  got,       \* server.cache.Get found the token
  faults,    \* a request to redis failed, or the memory cache was lost
  kept       \* history: the connections that may have left their token behind

vars == <<settings, left, issued, age, conn, token, got, faults, kept>>

\* before the first message; before Get; before Delete; before factory.New;
\* with a terminal; done
ConnStates == {"idle", "get", "delete", "new", "session", "closed"}

TypeOK ==
  /\ settings \in Settings
  /\ left \in [Tokens -> Nat \cup {-1}]
  /\ issued \in [Tokens -> {"no", "ok", "error"}]
  /\ age \in [Tokens -> 0 .. MaxAge]
  /\ conn \in [Conns -> ConnStates]
  /\ token \in [Conns -> Tokens \cup {None}]
  /\ got \in [Conns -> BOOLEAN]
  /\ faults \in BOOLEAN
  /\ kept \subseteq Conns

Init ==
  /\ settings \in Settings
  /\ left = [t \in Tokens |-> 0]
  /\ issued = [t \in Tokens |-> "no"]
  /\ age = [t \in Tokens |-> 0]
  /\ conn = [c \in Conns |-> "idle"]
  /\ token = [c \in Conns |-> None]
  /\ got = [c \in Conns |-> FALSE]
  /\ faults = FALSE
  /\ kept = {}

Live(t) == left[t] # 0

-----------------------------------------------------------------------------
(* The caches.                                                             *)

\* Mistakes in its place: the seconds taken as they come; the configured
\* duration never looked at.
LifetimeRaw == settings.ttl

LifetimeDefault == DefaultTtl

\* The life an entry gets.  go-cache reads 0 as its default and a negative
\* duration as no expiration; redis sets no expiration for either.
Lifetime ==
  IF settings.ttl > 0 THEN settings.ttl
  ELSE IF settings.ttl = 0 /\ settings.backend = "mem" THEN DefaultTtl
  ELSE -1

\* cache.Add: an Add to memory of a fresh token succeeds.
CacheAdd(t) == left' = [left EXCEPT ![t] = Lifetime]

\* A mistake in its place: the whole cache is flushed.
CacheFlush(t) == left' = [u \in Tokens |-> 0]

\* cache.Delete
CacheDelete(t) == left' = [left EXCEPT ![t] = 0]

\* A redis request that fails may have reached redis or not.
RedisFails == settings.backend = "redis" /\ faults' = TRUE

-----------------------------------------------------------------------------
(* The API handlers.                                                       *)

\* randomstring.Generate: nobody has seen the token before.
Fresh(t) == issued[t] = "no" /\ \A c \in Conns : token[c] # t

Issue(t) ==
  /\ Fresh(t)
  /\ CacheAdd(t)
  /\ issued' = [issued EXCEPT ![t] = "ok"]
  /\ age' = [age EXCEPT ![t] = 0]
  /\ UNCHANGED <<settings, conn, token, got, faults, kept>>

\* save token and ttyParam err: the answer carries no token
IssueFails(t) ==
  /\ Fresh(t)
  /\ RedisFails
  /\ CacheAdd(t) \/ UNCHANGED left
  /\ issued' = [issued EXCEPT ![t] = "error"]
  /\ age' = [age EXCEPT ![t] = 0]
  /\ UNCHANGED <<settings, conn, token, got, kept>>

-----------------------------------------------------------------------------
(* processWSConn.                                                          *)

Step(c, from, to) ==
  /\ conn[c] = from
  /\ conn' = [conn EXCEPT ![c] = to]

\* A valid first message with a token, one that was handed out or a guess.
Present(c, t) ==
  /\ t \in Presents[c]
  /\ issued[t] # "error"
  /\ Step(c, "idle", "get")
  /\ token' = [token EXCEPT ![c] = t]
  /\ UNCHANGED <<settings, left, issued, age, got, faults, kept>>

\* arg = "ERROR:No Token Provided"
PresentNone(c) ==
  /\ Step(c, "idle", "new")
  /\ UNCHANGED <<settings, left, issued, age, token, got, faults, kept>>

\* ttyParameter := server.cache.Get(token)
GetHit(c) ==
  /\ Step(c, "get", "delete")
  /\ Live(token[c])
  /\ got' = [got EXCEPT ![c] = TRUE]
  /\ UNCHANGED <<settings, left, issued, age, token, faults, kept>>

\* A mistake in its place: the parameters last read are used for a miss.
GetMissStale(c) ==
  /\ Step(c, "get", "new")
  /\ ~Live(token[c])
  /\ got' = [got EXCEPT ![c] = TRUE]
  /\ UNCHANGED <<settings, left, issued, age, token, faults, kept>>

\* ttyParameter == nil: arg = "ERROR:Invalid Token"
GetMiss(c) ==
  /\ Step(c, "get", "new")
  /\ ~Live(token[c])
  /\ UNCHANGED <<settings, left, issued, age, token, got, faults, kept>>

\* redis does not answer: nil as well
GetFails(c) ==
  /\ RedisFails
  /\ Step(c, "get", "new")
  /\ UNCHANGED <<settings, left, issued, age, token, got, kept>>

\* A mistake in its place: the delete is left out.
DeleteForgets(c) ==
  /\ Step(c, "delete", "new")
  /\ UNCHANGED <<settings, left, issued, age, token, got, faults, kept>>

\* server.cache.Delete(cachedKey)
Delete(c) ==
  /\ Step(c, "delete", "new")
  /\ CacheDelete(token[c])
  /\ UNCHANGED <<settings, issued, age, token, got, faults, kept>>

\* its error is ignored, and the token may be there still
DeleteFails(c) ==
  /\ RedisFails
  /\ Step(c, "delete", "new")
  /\ CacheDelete(token[c]) \/ UNCHANGED left
  /\ kept' = kept \cup {c}
  /\ UNCHANGED <<settings, issued, age, token, got>>

\* server.factory.New(params), with the arg found or an ERROR one
New(c) ==
  /\ Step(c, "new", "session") \/ Step(c, "new", "closed")
  /\ UNCHANGED <<settings, left, issued, age, token, got, faults, kept>>

\* the end of the session
Close(c) ==
  /\ Step(c, "session", "closed")
  /\ UNCHANGED <<settings, left, issued, age, token, got, faults, kept>>

-----------------------------------------------------------------------------
\* Time passes for every entry: one that reaches 0 is no longer found.
Tick ==
  /\ left' = [t \in Tokens |-> IF left[t] > 0 THEN left[t] - 1 ELSE left[t]]
  /\ age' = [t \in Tokens |->
               IF issued[t] # "no" /\ age[t] < MaxAge THEN age[t] + 1
               ELSE age[t]]
  /\ UNCHANGED <<settings, issued, conn, token, got, faults, kept>>

\* A process dies: the connections it serves are cut and its memory is lost.
\* With redis there may be more processes, and the tokens stay.
Restart ==
  /\ \E C \in SUBSET {c \in Conns : conn[c] # "idle"} :
       /\ settings.backend = "mem" => \A c \in Conns \ C : conn[c] = "idle"
       /\ conn' = [c \in Conns |-> IF c \in C THEN "closed" ELSE conn[c]]
       /\ kept' = kept \cup {c \in C : conn[c] = "delete"}
  /\ IF settings.backend = "mem"
     THEN left' = [t \in Tokens |-> 0] /\ faults' = TRUE
     ELSE UNCHANGED <<left, faults>>
  /\ UNCHANGED <<settings, issued, age, token, got>>

Conn(c) ==
  \/ \E t \in Tokens : Present(c, t)
  \/ PresentNone(c) \/ GetHit(c) \/ GetMiss(c) \/ GetFails(c)
  \/ Delete(c) \/ DeleteFails(c) \/ New(c) \/ Close(c)

Next ==
  \/ \E t \in Tokens : Issue(t) \/ IssueFails(t)
  \/ \E c \in Conns : Conn(c)
  \/ Tick
  \/ Restart

Spec == Init /\ [][Next]_vars

-----------------------------------------------------------------------------
(* Properties.                                                              *)

\* Once a connection is past its Delete the token opens nothing any more:
\* whoever comes later gets ERROR:Invalid Token (handlers.go:132-140), in this
\* session and after its end, whatever else failed: only a Delete that did not
\* come to be, for redis or the death of the process, leaves it there.
DeletedIsGone ==
  \A c \in Conns :
    got[c] /\ conn[c] # "delete" /\ c \notin kept => ~Live(token[c])

\* A second connection is given the parameters only while the first is between
\* its Get and its Delete, or after the Delete of the first failed or its
\* process died before it (handlers.go:132-137).  A session that has deleted
\* its token excuses nothing, running or ended, with either cache.
SecondComesBetween ==
  [][\A c, d \in Conns :
       ~got[c] /\ got'[c] /\ got[d] /\ token[d] = token[c] =>
         conn[d] = "delete" \/ d \in kept]_vars

\* A token is found only within --token-expires-duration of its issue,
\* whatever cache keeps it (handlers.go:329, 387; mem.go:43, redis.go:47).
NoUseAfterExpiry ==
  [][\A c \in Conns :
       ~got[c] /\ got'[c] /\ settings.ttl > 0
         => age[token[c]] < settings.ttl]_vars

\* An issued token is refused only for a reason: it expired, another connection
\* was given its parameters, or redis or the process failed
\* (handlers.go:132-140).
InvalidHasReason ==
  [][\A c \in Conns :
       conn[c] = "get" /\ conn'[c] = "new" /\ issued[token[c]] = "ok" =>
         \/ Lifetime > 0 /\ age[token[c]] >= Lifetime
         \/ \E d \in Conns \ {c} : got[d] /\ token[d] = token[c]
         \/ faults']_vars

\* README.md:124: "The token fetched from api will be invalid immediately after
\* it's used once".
OneTerminalPerToken ==
  \A c, d \in Conns :
    got[c] /\ got[d] /\ token[c] = token[d] => c = d

\* The tokens that no two connections ever present.
Exclusive ==
  {t \in Tokens : \A c, d \in Conns :
                    t \in Presents[c] /\ t \in Presents[d] => c = d}

Holders == [t \in Exclusive |-> {c \in Conns : got[c] /\ token[c] = t}]

TokenState ==
  [t \in Exclusive |->
     CASE Holders[t] # {} -> "spent"
       [] Holders[t] = {} /\ Live(t) -> "valid"
       [] Holders[t] = {} /\ ~Live(t) /\ issued[t] = "no" -> "unused"
       [] OTHER -> "invalid"]

Promise == INSTANCE OneTimeToken
             WITH Tokens <- Exclusive, state <- TokenState, holders <- Holders

\* The promise holds for a token that only one connection presents, whatever
\* the cache does and whichever of its requests fail (handlers.go:132-140,
\* 323-338).
KeepsPromise == Promise!Spec
=============================================================================
