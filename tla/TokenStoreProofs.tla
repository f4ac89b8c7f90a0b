-------------------------- MODULE TokenStoreProofs --------------------------
(***************************************************************************)
(* TokenStore for all tokens, connections, settings and expiry times: its  *)
(* types, the effect of a Delete, and the promise of OneTimeToken for the  *)
(* tokens that a single connection presents.                               *)
(***************************************************************************)
EXTENDS TokenStore, TLAPS

\* An entry is stored with a life that is not zero: Add never stores a dead one.
LEMMA LifetimeType ==
  ASSUME TypeOK
  PROVE  Lifetime \in (Nat \cup {-1}) \ {0}
<1>1. settings.ttl \in Int
  BY SettingsAssumption DEF TypeOK
<1> QED BY <1>1, TtlAssumption DEF Lifetime

\* What a connection knows of its token: one that looks a token up has one it
\* may present and no parameters yet; parameters come from an issued token.
ConnInv ==
  \A c \in Conns :
    /\ conn[c] \in {"get", "delete"} => token[c] \in Tokens
    /\ conn[c] \in {"idle", "get"} => ~got[c]
    /\ conn[c] = "delete" => got[c]
    /\ conn[c] = "idle" => token[c] = None
    /\ got[c] => token[c] \in Tokens /\ issued[token[c]] # "no"
    /\ token[c] \in Tokens => token[c] \in Presents[c]

\* Only what was handed to the cache by the API can be found there.
StoreInv == \A t \in Tokens : Live(t) => issued[t] # "no"

IndInv == TypeOK /\ ConnInv /\ StoreInv /\ DeletedIsGone


\* The initial state satisfies it.
LEMMA InitInv == Init => IndInv
<1> SUFFICES ASSUME Init PROVE IndInv
  OBVIOUS
<1>1. TypeOK
  <2>1. 0 \in 0 .. MaxAge
    BY TtlAssumption
  <2>2. /\ left \in [Tokens -> Nat \cup {-1}]
        /\ age \in [Tokens -> 0 .. MaxAge]
    BY <2>1 DEF Init
  <2>3. got \in [Conns -> BOOLEAN] /\ faults \in BOOLEAN /\ kept \subseteq Conns
    BY DEF Init
  <2>4. /\ settings \in Settings
        /\ issued \in [Tokens -> {"no", "ok", "error"}]
        /\ conn \in [Conns -> ConnStates]
        /\ token \in [Conns -> Tokens \cup {None}]
    BY DEF Init, ConnStates
  <2> QED BY <2>2, <2>3, <2>4 DEF TypeOK
<1>2. ConnInv /\ StoreInv /\ DeletedIsGone
  BY NoneAssumption DEF Init, ConnInv, StoreInv, DeletedIsGone, Live
<1> QED BY <1>1, <1>2 DEF IndInv

\* The API handlers store a token nobody has named.
LEMMA IssueInv ==
  ASSUME IndInv, NEW t \in Tokens, Issue(t) \/ IssueFails(t)
  PROVE  IndInv'
<1> USE DEF IndInv
<1>1. left' \in [Tokens -> Nat \cup {-1}]
  BY LifetimeType DEF Issue, IssueFails, CacheAdd, TypeOK
<1>2. issued' \in [Tokens -> {"no", "ok", "error"}]
      /\ issued'[t] # "no"
      /\ \A u \in Tokens \ {t} : issued'[u] = issued[u] /\ left'[u] = left[u]
  BY DEF Issue, IssueFails, CacheAdd, TypeOK
<1>3. UNCHANGED <<settings, conn, token, got, kept>>
  BY DEF Issue, IssueFails
<1>4. faults' \in BOOLEAN
  BY DEF Issue, IssueFails, RedisFails, TypeOK
<1>5. age' \in [Tokens -> 0 .. MaxAge]
  BY TtlAssumption DEF Issue, IssueFails, TypeOK
<1>6. TypeOK'
  BY <1>1, <1>2, <1>3, <1>4, <1>5 DEF TypeOK
<1>7. ConnInv'
  BY <1>2, <1>3 DEF ConnInv
<1>8. StoreInv'
  BY <1>2 DEF StoreInv, Live
<1>9. DeletedIsGone'
  <2>1. \A c \in Conns : token[c] # t
    BY DEF Issue, IssueFails, Fresh
  <2> QED BY <1>2, <1>3, <2>1 DEF DeletedIsGone, ConnInv, Live
<1> QED BY <1>6, <1>7, <1>8, <1>9

\* The steps of a connection that touch neither the cache nor what it got.
LEMMA QuietInv ==
  ASSUME IndInv, NEW c \in Conns,
         \/ \E t \in Tokens : Present(c, t)
         \/ PresentNone(c) \/ GetMiss(c) \/ GetFails(c) \/ New(c) \/ Close(c)
  PROVE  /\ IndInv'
         /\ UNCHANGED <<settings, left, issued, got>>
         /\ \A d \in Conns : got[d] => token'[d] = token[d]
<1> USE DEF IndInv
<1>1. UNCHANGED <<settings, left, issued, age, got, kept>>
  BY DEF Present, PresentNone, GetMiss, GetFails, New, Close
<1>2. faults' \in BOOLEAN
  BY DEF Present, PresentNone, GetMiss, GetFails, New, Close, RedisFails,
         TypeOK
<1>3. CASE \E t \in Tokens : Present(c, t)
  <2>1. PICK t \in Tokens : Present(c, t)
    BY <1>3
  <2>2. /\ t \in Presents[c]
        /\ conn[c] = "idle" /\ conn' = [conn EXCEPT ![c] = "get"]
        /\ token' = [token EXCEPT ![c] = t]
    BY <2>1 DEF Present, Step
  <2>3. TypeOK'
    BY <1>1, <1>2, <2>2 DEF TypeOK, ConnStates
  <2>4. ConnInv' /\ StoreInv' /\ DeletedIsGone'
    BY <1>1, <1>2, <2>2
       DEF TypeOK, ConnInv, StoreInv, DeletedIsGone, Live
  <2>5. ~got[c]
    BY <2>2 DEF ConnInv
  <2> QED BY <1>1, <2>2, <2>3, <2>4, <2>5 DEF TypeOK
<1>4. CASE PresentNone(c) \/ GetMiss(c) \/ GetFails(c) \/ New(c) \/ Close(c)
  <2>1. token' = token
    BY <1>4 DEF PresentNone, GetMiss, GetFails, New, Close
  <2>2. \E from, to \in ConnStates :
          /\ conn[c] = from /\ conn' = [conn EXCEPT ![c] = to]
          /\ to \in {"new", "session", "closed"}
          /\ to = "new" => ~got[c]
          /\ from # "delete"
    BY <1>4 DEF PresentNone, GetMiss, GetFails, New, Close, Step, ConnStates,
                ConnInv
  <2>3. TypeOK'
    BY <1>1, <1>2, <2>1, <2>2 DEF TypeOK
  <2>4. ConnInv' /\ StoreInv' /\ DeletedIsGone'
    BY <1>1, <1>2, <2>1, <2>2
       DEF TypeOK, ConnInv, StoreInv, DeletedIsGone, Live
  <2> QED BY <1>1, <2>1, <2>3, <2>4
<1> QED BY <1>3, <1>4

\* A Get that finds the token.
LEMMA GetHitInv ==
  ASSUME IndInv, NEW c \in Conns, GetHit(c)
  PROVE  IndInv'
<1> USE DEF IndInv
<1>1. /\ conn[c] = "get" /\ conn' = [conn EXCEPT ![c] = "delete"]
      /\ got' = [got EXCEPT ![c] = TRUE]
      /\ Live(token[c])
      /\ UNCHANGED <<settings, left, issued, age, token, faults, kept>>
  BY DEF GetHit, Step
<1>2. token[c] \in Tokens /\ issued[token[c]] # "no"
  BY <1>1 DEF ConnInv, StoreInv
<1>3. TypeOK'
  BY <1>1 DEF TypeOK, ConnStates
<1>4. ConnInv' /\ StoreInv' /\ DeletedIsGone'
  BY <1>1, <1>2 DEF TypeOK, ConnInv, StoreInv, DeletedIsGone, Live
<1> QED BY <1>3, <1>4

\* A Delete, which redis may fail to do.
LEMMA DeleteInv ==
  ASSUME IndInv, NEW c \in Conns, Delete(c) \/ DeleteFails(c)
  PROVE  /\ IndInv'
         /\ token[c] \in Tokens /\ got[c]
         /\ UNCHANGED <<settings, issued, got, token>>
         /\ \A t \in Tokens \ {token[c]} : left'[t] = left[t]
<1> USE DEF IndInv
<1>1. /\ conn[c] = "delete" /\ conn' = [conn EXCEPT ![c] = "new"]
      /\ UNCHANGED <<settings, issued, age, token, got>>
      /\ \/ left' = [left EXCEPT ![token[c]] = 0] /\ kept' \in {kept, kept \cup {c}}
         \/ left' = left /\ kept' = kept \cup {c}
      /\ faults' \in BOOLEAN
  BY DEF Delete, DeleteFails, Step, CacheDelete, RedisFails, TypeOK
<1>2. token[c] \in Tokens /\ got[c]
  BY <1>1 DEF ConnInv
<1>3. TypeOK'
  BY <1>1 DEF TypeOK, ConnStates
<1>4. \A t \in Tokens : left'[t] = left[t] \/ left'[t] = 0
  BY <1>1 DEF TypeOK
<1>5. ConnInv' /\ StoreInv'
  BY <1>1, <1>4 DEF TypeOK, ConnInv, StoreInv, Live
<1>6. DeletedIsGone'
  BY <1>1, <1>2, <1>4 DEF TypeOK, ConnInv, DeletedIsGone, Live
<1> QED BY <1>1, <1>2, <1>3, <1>5, <1>6 DEF TypeOK

\* Time, and the death of a process: entries only go.
LEMMA DecayInv ==
  ASSUME IndInv, Tick \/ Restart
  PROVE  /\ IndInv'
         /\ UNCHANGED <<issued, token, got>>
         /\ \A t \in Tokens : Live(t)' => Live(t)
<1> USE DEF IndInv
<1>1. UNCHANGED <<settings, issued, token, got>>
  BY DEF Tick, Restart
<1>2. /\ left' \in [Tokens -> Nat \cup {-1}]
      /\ \A t \in Tokens : left[t] = 0 => left'[t] = 0
  BY DEF Tick, Restart, TypeOK
<1>3. age' \in [Tokens -> 0 .. MaxAge]
  BY TtlAssumption DEF Tick, Restart, TypeOK
<1>4. /\ conn' \in [Conns -> ConnStates]
      /\ \A c \in Conns : conn'[c] = conn[c] \/ conn'[c] = "closed"
  BY DEF Tick, Restart, TypeOK, ConnStates
<1>5. faults' \in BOOLEAN
  BY DEF Tick, Restart, TypeOK
<1>6. /\ kept' \subseteq Conns /\ kept \subseteq kept'
      /\ \A c \in Conns : conn[c] = "delete" /\ conn'[c] # "delete" => c \in kept'
  BY DEF Tick, Restart, TypeOK
<1>7. TypeOK'
  BY <1>1, <1>2, <1>3, <1>4, <1>5, <1>6 DEF TypeOK
<1>8. ConnInv' /\ StoreInv' /\ DeletedIsGone'
  BY <1>1, <1>2, <1>4, <1>6 DEF ConnInv, StoreInv, DeletedIsGone, Live
<1> QED BY <1>1, <1>2, <1>7, <1>8 DEF Live

\* Types, and the effect of Delete, in every reachable state.
LEMMA Inductive == Spec => []IndInv
<1>1. IndInv /\ [Next]_vars => IndInv'
  <2> SUFFICES ASSUME IndInv, [Next]_vars PROVE IndInv'
    OBVIOUS
  <2>1. CASE UNCHANGED vars
    BY <2>1 DEF vars, IndInv, TypeOK, ConnInv, StoreInv, DeletedIsGone, Live
  <2>2. CASE Next
    BY <2>2, IssueInv, QuietInv, GetHitInv, DeleteInv, DecayInv DEF Next, Conn
  <2> QED BY <2>1, <2>2
<1> QED BY InitInv, <1>1, PTL DEF Spec

\* The variables keep their types.
THEOREM TokenTypes == Spec => []TypeOK
<1>1. IndInv => TypeOK
  BY DEF IndInv
<1> QED BY Inductive, <1>1, PTL

\* Whoever looks a token up after a connection has deleted it does not find it,
\* in its session or after it; only a Delete that failed, or that the process did
\* not live to send, leaves it there (handlers.go:132-140).
THEOREM DeletedStaysGone == Spec => []DeletedIsGone
<1>1. IndInv => DeletedIsGone
  BY DEF IndInv
<1> QED BY Inductive, <1>1, PTL

-----------------------------------------------------------------------------
(* Ages: why a lookup succeeds, and why it fails.                          *)

\* What is left to an entry that ends, and its age, make up its lifetime; one
\* without an end stays so.
AgeInv ==
  \A t \in Tokens :
    Live(t) => IF Lifetime > 0
               THEN left[t] \in Nat /\ left[t] + age[t] = Lifetime
               ELSE left[t] = -1

\* An issued token that is gone has expired or was given to a connection.
ReasonInv ==
  \A t \in Tokens :
    issued[t] = "ok" /\ ~Live(t) /\ ~faults =>
      \/ Lifetime > 0 /\ age[t] >= Lifetime
      \/ \E d \in Conns : got[d] /\ token[d] = t

WhyInv == AgeInv /\ ReasonInv

\* An entry that ends does so before ages stop being counted.
LEMMA LifetimeCounted ==
  ASSUME TypeOK
  PROVE  Lifetime > 0 => Lifetime \in Nat /\ Lifetime <= MaxAge
<1>1. settings.ttl \in Int /\ settings.ttl <= MaxAge
  BY SettingsAssumption, TtlAssumption DEF TypeOK
<1> QED BY <1>1, TtlAssumption DEF Lifetime

\* The settings of a process never change, and with them the lifetime.
LEMMA SameLifetime ==
  ASSUME [Next]_vars
  PROVE  settings' = settings /\ Lifetime' = Lifetime
<1>1. settings' = settings
  BY DEF Next, Issue, IssueFails, Conn, Present, PresentNone, GetHit, GetMiss,
     GetFails, Delete, DeleteFails, New, Close, Tick, Restart, vars
<1> QED BY <1>1 DEF Lifetime

\* A handler stores a token with its whole lifetime ahead.
LEMMA IssueWhy ==
  ASSUME IndInv, WhyInv, NEW t \in Tokens, Issue(t) \/ IssueFails(t)
  PROVE  WhyInv'
<1> USE DEF IndInv, WhyInv
<1>1. UNCHANGED <<settings, token, got>> /\ (faults => faults')
  BY DEF Issue, IssueFails, RedisFails
<1>2. Lifetime' = Lifetime /\ Lifetime \in (Nat \cup {-1}) \ {0}
  BY <1>1, LifetimeType DEF Lifetime
<1>3. \A u \in Tokens \ {t} :
        issued'[u] = issued[u] /\ left'[u] = left[u] /\ age'[u] = age[u]
  BY DEF Issue, IssueFails, CacheAdd, TypeOK
<1>4. ~Live(t)
  BY DEF Issue, IssueFails, Fresh, StoreInv
<1>5. age'[t] = 0 /\ (left'[t] = Lifetime \/ left'[t] = 0)
  BY <1>4 DEF Issue, IssueFails, CacheAdd, TypeOK, Live
<1>6. issued'[t] = "ok" => left'[t] = Lifetime
  BY DEF Issue, IssueFails, CacheAdd, TypeOK
<1>7. AgeInv'
  BY <1>2, <1>3, <1>5 DEF AgeInv, Live
<1>8. ReasonInv'
  BY <1>1, <1>2, <1>3, <1>6 DEF ReasonInv, Live
<1> QED BY <1>7, <1>8

\* A connection ends a life only for a token it was given.
LEMMA ConnWhy ==
  ASSUME IndInv, WhyInv, NEW c \in Conns, Conn(c)
  PROVE  WhyInv'
<1> USE DEF IndInv, WhyInv
<1>1. UNCHANGED <<settings, issued, age>> /\ (faults => faults')
  BY DEF Conn, Present, PresentNone, GetHit, GetMiss, GetFails, Delete,
     DeleteFails, New, Close, RedisFails
<1>2. Lifetime' = Lifetime
  BY <1>1 DEF Lifetime
<1>3. \A d \in Conns : got[d] => got'[d] /\ token'[d] = token[d]
  BY DEF Conn, Present, PresentNone, GetHit, GetMiss, GetFails, Delete,
     DeleteFails, New, Close, TypeOK, ConnInv, Step
<1>4. \A t \in Tokens :
        \/ left'[t] = left[t]
        \/ left'[t] = 0 /\ got[c] /\ token[c] = t
  BY DEF Conn, Present, PresentNone, GetHit, GetMiss, GetFails, Delete,
     DeleteFails, New, Close, CacheDelete, TypeOK, ConnInv, Step
<1>5. AgeInv'
  BY <1>1, <1>2, <1>4 DEF AgeInv, Live
<1>6. ReasonInv'
  BY <1>1, <1>2, <1>3, <1>4 DEF ReasonInv, Live
<1> QED BY <1>5, <1>6

\* A unit of time goes from what is left to the age.
LEMMA TickWhy ==
  ASSUME IndInv, WhyInv, Tick
  PROVE  WhyInv'
<1> USE DEF IndInv, WhyInv
<1>1. UNCHANGED <<settings, issued, token, got, faults>>
  BY DEF Tick
<1>2. Lifetime' = Lifetime /\ Lifetime \in (Nat \cup {-1}) \ {0}
  BY <1>1, LifetimeType DEF Lifetime
<1>3. Lifetime > 0 => Lifetime \in Nat /\ Lifetime <= MaxAge
  BY LifetimeCounted
<1>4. ASSUME NEW t \in Tokens
      PROVE  /\ left[t] \in Nat \cup {-1} /\ age[t] \in Nat
             /\ left'[t] = IF left[t] > 0 THEN left[t] - 1 ELSE left[t]
             /\ age'[t] = IF issued[t] # "no" /\ age[t] < MaxAge
                          THEN age[t] + 1 ELSE age[t]
  BY TtlAssumption DEF Tick, TypeOK
<1>5. ASSUME NEW t \in Tokens, Live(t)'
      PROVE  IF Lifetime > 0
             THEN left'[t] \in Nat /\ left'[t] + age'[t] = Lifetime
             ELSE left'[t] = -1
  <2>1. left[t] # 0
    BY <1>4, <1>5 DEF Live
  <2>2. issued[t] # "no"
    BY <2>1 DEF StoreInv, Live
  <2>3. IF Lifetime > 0 THEN left[t] \in Nat /\ left[t] + age[t] = Lifetime
        ELSE left[t] = -1
    BY <2>1 DEF AgeInv, Live
  <2> QED BY <1>2, <1>3, <1>4, <2>1, <2>2, <2>3, TtlAssumption
<1>6. ASSUME NEW t \in Tokens, issued'[t] = "ok", ~Live(t)', ~faults'
      PROVE  \/ Lifetime > 0 /\ age'[t] >= Lifetime
             \/ \E d \in Conns : got[d] /\ token[d] = t
  <2>1. CASE ~Live(t)
    <3>1. \/ Lifetime > 0 /\ age[t] >= Lifetime
          \/ \E d \in Conns : got[d] /\ token[d] = t
      BY <1>1, <1>6, <2>1 DEF ReasonInv
    <3> QED BY <1>2, <1>3, <1>4, <3>1, TtlAssumption
  <2>2. CASE Live(t)
    <3>1. left[t] # 0 /\ left'[t] = 0
      BY <1>6, <2>2 DEF Live
    <3>2. left[t] = 1
      BY <1>4, <3>1
    <3>3. Lifetime > 0 /\ 1 + age[t] = Lifetime
      BY <1>2, <2>2, <3>2 DEF AgeInv
    <3> QED BY <1>1, <1>2, <1>3, <1>4, <1>6, <3>3, TtlAssumption
  <2> QED BY <2>1, <2>2
<1>7. AgeInv'
  BY <1>2, <1>5 DEF AgeInv
<1>8. ReasonInv'
  BY <1>1, <1>2, <1>6 DEF ReasonInv
<1> QED BY <1>7, <1>8

LEMMA Why == Spec => []WhyInv
<1>1. Init => WhyInv
  BY DEF Init, WhyInv, AgeInv, ReasonInv, Live
<1>2. IndInv /\ WhyInv /\ [Next]_vars => WhyInv'
  <2> SUFFICES ASSUME IndInv, WhyInv, [Next]_vars PROVE WhyInv'
    OBVIOUS
  <2>1. CASE Restart
    <3>1. \/ \A t \in Tokens : left'[t] = 0 /\ faults'
          \/ UNCHANGED <<left, faults>>
      BY <2>1 DEF Restart
    <3>2. UNCHANGED <<settings, issued, age, token, got>>
      BY <2>1 DEF Restart
    <3> QED BY <3>1, <3>2, SameLifetime DEF WhyInv, AgeInv, ReasonInv, Live
  <2>2. CASE UNCHANGED vars
    BY <2>2, SameLifetime DEF vars, WhyInv, AgeInv, ReasonInv, Live
  <2> QED BY <2>1, <2>2, IssueWhy, ConnWhy, TickWhy DEF Next
<1> QED BY <1>1, <1>2, Inductive, PTL DEF Spec

\* A token is found only within --token-expires-duration of its issue, whatever
\* cache keeps it (handlers.go:329, 387; mem.go:43, redis.go:47).
THEOREM FoundInTime == Spec => NoUseAfterExpiry
<1>1. IndInv /\ WhyInv /\ [Next]_vars
        => [\A c \in Conns : ~got[c] /\ got'[c] /\ settings.ttl > 0
              => age[token[c]] < settings.ttl]_vars
  <2> SUFFICES ASSUME IndInv, WhyInv, Next, NEW c \in Conns,
                      ~got[c], got'[c], settings.ttl > 0
               PROVE  age[token[c]] < settings.ttl
    BY DEF vars
  <2>1. GetHit(c)
    <3>1. PICK d \in Conns : GetHit(d)
      BY DEF Next, Issue, IssueFails, Conn, Present, PresentNone, GetMiss,
         GetFails, Delete, DeleteFails, New, Close, Tick, Restart
    <3> QED BY <3>1 DEF GetHit, IndInv, TypeOK
  <2>2. token[c] \in Tokens /\ left[token[c]] # 0
    BY <2>1 DEF GetHit, Step, Live, IndInv, ConnInv
  <2>3. Lifetime = settings.ttl /\ settings.ttl \in Int
    BY SettingsAssumption DEF Lifetime, IndInv, TypeOK
  <2>4. left[token[c]] \in Nat /\ left[token[c]] + age[token[c]] = settings.ttl
    BY <2>2, <2>3 DEF WhyInv, AgeInv, Live
  <2>5. age[token[c]] \in Int
    BY <2>2, TtlAssumption DEF IndInv, TypeOK
  <2> QED BY <2>2, <2>3, <2>4, <2>5
<1> QED BY <1>1, Inductive, Why, PTL DEF Spec, NoUseAfterExpiry

\* An issued token is refused only because it expired, because another
\* connection was given its parameters, or because redis or the process failed
\* (handlers.go:132-140).
THEOREM RefusedForReason == Spec => InvalidHasReason
<1>1. IndInv /\ WhyInv /\ [Next]_vars
        => [\A c \in Conns :
              conn[c] = "get" /\ conn'[c] = "new" /\ issued[token[c]] = "ok" =>
                \/ Lifetime > 0 /\ age[token[c]] >= Lifetime
                \/ \E d \in Conns \ {c} : got[d] /\ token[d] = token[c]
                \/ faults']_vars
  <2> SUFFICES ASSUME IndInv, WhyInv, Next, NEW c \in Conns, ~faults',
                      conn[c] = "get", conn'[c] = "new", issued[token[c]] = "ok"
               PROVE  \/ Lifetime > 0 /\ age[token[c]] >= Lifetime
                      \/ \E d \in Conns \ {c} : got[d] /\ token[d] = token[c]
    BY DEF vars
  <2>1. GetMiss(c) \/ GetFails(c)
    <3>1. \A d \in Conns, from, to \in ConnStates :
            Step(d, from, to) => (d = c => from = "get" /\ to = "new")
                                 /\ (d # c => conn'[c] = conn[c])
      BY DEF Step, IndInv, TypeOK
    <3>2. CASE Restart
      BY <3>2 DEF Restart
    <3>3. CASE \E d \in Conns : Conn(d)
      BY <3>1, <3>3 DEF Conn, Present, PresentNone, GetHit, GetMiss, GetFails,
         Delete, DeleteFails, New, Close, ConnStates
    <3> QED BY <3>2, <3>3 DEF Next, Issue, IssueFails, Tick
  <2>2. ~Live(token[c]) /\ ~faults
    BY <2>1 DEF GetMiss, GetFails, RedisFails
  <2>3. token[c] \in Tokens /\ ~got[c]
    BY DEF IndInv, ConnInv
  <2> QED BY <2>2, <2>3 DEF WhyInv, ReasonInv
<1> QED BY <1>1, Inductive, Why, PTL DEF Spec, InvalidHasReason

-----------------------------------------------------------------------------
(* When two connections can both be given the parameters of one token.     *)

\* The race of two connections for one token has no other window than the two
\* calls of processWSConn, running or ended, with either cache; only a first
\* whose own Delete failed or was never sent leaves the token to a second
\* (handlers.go:132-137).  It is what is left of "used once" (README.md:124).
THEOREM RaceWindow == Spec => SecondComesBetween
<1>1. IndInv /\ [Next]_vars
        => [\A c, d \in Conns :
              ~got[c] /\ got'[c] /\ got[d] /\ token[d] = token[c] =>
                conn[d] = "delete" \/ d \in kept]_vars
  <2> SUFFICES ASSUME IndInv, Next, NEW c \in Conns, NEW d \in Conns,
                      ~got[c], got'[c], got[d], token[d] = token[c]
               PROVE  conn[d] = "delete" \/ d \in kept
    BY DEF vars
  <2>1. Live(token[d])
    <3>1. PICK e \in Conns : GetHit(e)
      BY DEF Next, Issue, IssueFails, Conn, Present, PresentNone, GetMiss,
         GetFails, Delete, DeleteFails, New, Close, Tick, Restart
    <3> QED BY <3>1 DEF GetHit, IndInv, TypeOK
  <2> QED BY <2>1 DEF IndInv, DeletedIsGone
<1> QED BY <1>1, Inductive, PTL DEF Spec, SecondComesBetween

-----------------------------------------------------------------------------
(* The promise.                                                            *)

\* The abstract state of an exclusive token, value by value.
LEMMA StateValues ==
  ASSUME NEW t \in Exclusive
  PROVE  /\ Holders[t] = {c \in Conns : got[c] /\ token[c] = t}
         /\ TokenState[t] = IF Holders[t] # {} THEN "spent"
                            ELSE IF Live(t) THEN "valid"
                            ELSE IF issued[t] = "no" THEN "unused"
                            ELSE "invalid"
BY DEF TokenState, Holders

\* Nothing changes for a token that keeps its holders, its life and its issue.
LEMMA SameToken ==
  ASSUME NEW t \in Exclusive,
         Holders'[t] = Holders[t], Live(t)' = Live(t), issued'[t] = issued[t]
  PROVE  TokenState'[t] = TokenState[t]
<1>1. TokenState[t] = IF Holders[t] # {} THEN "spent"
                      ELSE IF Live(t) THEN "valid"
                      ELSE IF issued[t] = "no" THEN "unused" ELSE "invalid"
  BY StateValues
<1>2. TokenState'[t] = IF Holders'[t] # {} THEN "spent"
                       ELSE IF Live(t)' THEN "valid"
                       ELSE IF issued'[t] = "no" THEN "unused" ELSE "invalid"
  BY DEF TokenState, Holders
<1> QED BY <1>1, <1>2

\* A step that changes no exclusive token is a stuttering step of the promise.
LEMMA Stutter ==
  ASSUME Holders' = Holders,
         \A t \in Exclusive : Live(t)' = Live(t) /\ issued'[t] = issued[t]
  PROVE  UNCHANGED <<TokenState, Holders>>
<1>1. \A t \in Exclusive : TokenState'[t] = TokenState[t]
  BY SameToken
<1>2. TokenState = [t \in Exclusive |-> TokenState[t]]
  BY DEF TokenState
<1>3. TokenState' = [t \in Exclusive |-> TokenState'[t]]
  BY DEF TokenState
<1> QED BY <1>1, <1>2, <1>3

\* The holders follow from what the connections got and the tokens of those
\* that got something.
LEMMA SameHolders ==
  ASSUME got' = got, \A c \in Conns : got[c] => token'[c] = token[c]
  PROVE  Holders' = Holders
BY DEF Holders

\* Issuing an exclusive token grants or refuses it.
LEMMA IssueRefines ==
  ASSUME IndInv, NEW t \in Tokens, Issue(t) \/ IssueFails(t)
  PROVE  \/ \E u \in Exclusive : Promise!Grant(u) \/ Promise!Refuse(u)
         \/ UNCHANGED <<TokenState, Holders>>
<1>1. Holders' = Holders
  BY SameHolders DEF Issue, IssueFails
<1>2. \A u \in Exclusive \ {t} : Live(u)' = Live(u) /\ issued'[u] = issued[u]
  BY DEF Issue, IssueFails, CacheAdd, Live, IndInv, TypeOK, Exclusive
<1>3. issued[t] = "no" /\ ~Live(t) /\ issued'[t] # "no"
  BY DEF Issue, IssueFails, Fresh, IndInv, StoreInv, TypeOK
<1>4. CASE t \notin Exclusive
  BY <1>1, <1>2, <1>4, Stutter
<1>5. CASE t \in Exclusive
  <2>1. Holders[t] = {}
    BY <1>3, <1>5, StateValues DEF IndInv, ConnInv
  <2>2. TokenState[t] = "unused"
    BY <1>3, <1>5, <2>1, StateValues
  <2>3. TokenState'[t] = IF Live(t)' THEN "valid" ELSE "invalid"
    BY <1>1, <1>3, <1>5, <2>1 DEF TokenState
  <2>4. \A u \in Exclusive \ {t} : TokenState'[u] = TokenState[u]
    BY <1>1, <1>2, SameToken
  <2>5. TokenState' = [TokenState EXCEPT ![t] = TokenState'[t]]
    BY <1>5, <2>4 DEF TokenState
  <2> QED BY <1>1, <1>5, <2>2, <2>3, <2>5
          DEF Promise!Grant, Promise!Refuse, Promise!Move
<1> QED BY <1>4, <1>5

\* A Get that finds an exclusive token redeems it: nobody else can have.
LEMMA GetHitRefines ==
  ASSUME IndInv, NEW c \in Conns, GetHit(c)
  PROVE  \/ \E t \in Exclusive : Promise!Redeem(t, c)
         \/ UNCHANGED <<TokenState, Holders>>
<1> DEFINE t == token[c]
<1>1. /\ conn[c] = "get" /\ Live(t)
      /\ got' = [got EXCEPT ![c] = TRUE]
      /\ UNCHANGED <<left, issued, token>>
  BY DEF GetHit, Step
<1>2. /\ t \in Tokens /\ ~got[c] /\ t \in Presents[c]
      /\ \A d \in Conns : got[d] => token[d] \in Presents[d]
  BY <1>1 DEF IndInv, ConnInv
<1>3. \A u \in Exclusive : u # t => Holders'[u] = Holders[u]
  BY <1>1 DEF Holders, IndInv, TypeOK
<1>4. CASE t \notin Exclusive
  <2>1. Holders' = Holders
    BY <1>3, <1>4 DEF Holders
  <2> QED BY <1>1, <2>1, Stutter DEF Live
<1>5. CASE t \in Exclusive
  <2>1. \A d \in Conns : got[d] /\ token[d] = t => d = c
    BY <1>2, <1>5 DEF Exclusive
  <2>2. Holders[t] = {}
    BY <1>2, <1>5, <2>1, StateValues
  <2>3. Holders'[t] = {c}
    BY <1>1, <1>2, <1>5, <2>1 DEF Holders, IndInv, TypeOK
  <2>4. TokenState[t] = "valid"
    BY <1>1, <1>5, <2>2, StateValues
  <2>5. TokenState'[t] = "spent"
    BY <1>5, <2>3 DEF TokenState
  <2>6. \A u \in Exclusive \ {t} : TokenState'[u] = TokenState[u]
    BY <1>1, <1>3, SameToken DEF Live
  <2>7. TokenState' = [TokenState EXCEPT ![t] = "spent"]
    BY <1>5, <2>5, <2>6 DEF TokenState
  <2>8. Holders' = [Holders EXCEPT ![t] = {c}]
    BY <1>3, <1>5, <2>3 DEF Holders
  <2> QED BY <1>5, <2>4, <2>7, <2>8 DEF Promise!Redeem, Promise!Move
<1> QED BY <1>4, <1>5

\* A Delete comes after the redemption: the promise does not see it.
LEMMA DeleteRefines ==
  ASSUME IndInv, NEW c \in Conns, Delete(c) \/ DeleteFails(c)
  PROVE  UNCHANGED <<TokenState, Holders>>
<1>1. /\ token[c] \in Tokens /\ got[c]
      /\ UNCHANGED <<issued, got, token>>
      /\ \A t \in Tokens \ {token[c]} : left'[t] = left[t]
  BY DeleteInv
<1>2. Holders' = Holders
  BY <1>1, SameHolders
<1>3. \A t \in Exclusive \ {token[c]} : TokenState'[t] = TokenState[t]
  BY <1>1, <1>2, SameToken DEF Live, Exclusive
<1>4. token[c] \in Exclusive => TokenState'[token[c]] = TokenState[token[c]]
  <2> SUFFICES ASSUME token[c] \in Exclusive
               PROVE  TokenState'[token[c]] = TokenState[token[c]]
    OBVIOUS
  <2>1. c \in Holders[token[c]]
    BY <1>1, StateValues
  <2>2. TokenState[token[c]] = "spent"
    BY <2>1, StateValues
  <2>3. TokenState'[token[c]] = "spent"
    BY <1>1, <1>2, <2>1 DEF TokenState
  <2> QED BY <2>2, <2>3
<1>5. TokenState' = TokenState
  BY <1>3, <1>4 DEF TokenState
<1> QED BY <1>2, <1>5

\* Time and restarts invalidate the exclusive tokens whose entries go.
LEMMA DecayRefines ==
  ASSUME IndInv, Tick \/ Restart
  PROVE  \E T \in SUBSET Exclusive : Promise!Invalidate(T)
<1>1. /\ UNCHANGED <<issued, token, got>>
      /\ \A t \in Tokens : Live(t)' => Live(t)
  BY DecayInv
<1>2. Holders' = Holders
  BY <1>1, SameHolders
<1> DEFINE T == {t \in Exclusive : TokenState[t] = "valid" /\ ~Live(t)'}
<1>3. ASSUME NEW t \in Exclusive
      PROVE  TokenState'[t] = IF t \in T THEN "invalid" ELSE TokenState[t]
  <2>1. t \in Tokens
    BY DEF Exclusive
  <2>2. TokenState'[t] = IF Holders[t] # {} THEN "spent"
                         ELSE IF Live(t)' THEN "valid"
                         ELSE IF issued[t] = "no" THEN "unused" ELSE "invalid"
    BY <1>1, <1>2 DEF TokenState
  <2>3. Live(t) => issued[t] # "no"
    BY <2>1 DEF IndInv, StoreInv
  <2> QED BY <1>1, <2>1, <2>2, <2>3, StateValues
<1>4. TokenState' =
        [t \in Exclusive |-> IF t \in T THEN "invalid" ELSE TokenState[t]]
  BY <1>3 DEF TokenState
<1>5. Promise!Invalidate(T)
  BY <1>2, <1>4 DEF Promise!Invalidate
<1> QED BY <1>5

\* For every token that a single connection presents, the two calls Get and
\* Delete, and failures of either, implement the promise of README.md:124: one
\* terminal at most, and none after the token became invalid.
THEOREM TokenStoreKeepsPromise == Spec => KeepsPromise
<1>1. Init => Promise!Init
  <2> SUFFICES ASSUME Init PROVE Promise!Init
    OBVIOUS
  <2>1. Holders = [t \in Exclusive |-> {}]
    BY DEF Init, Holders
  <2>2. \A t \in Exclusive : TokenState[t] = "unused"
    BY <2>1, StateValues DEF Init, Live, Exclusive
  <2> QED BY <2>1, <2>2 DEF TokenState, Promise!Init
<1>2. IndInv /\ [Next]_vars => [Promise!Next]_<<TokenState, Holders>>
  <2> SUFFICES ASSUME IndInv, [Next]_vars
               PROVE  Promise!Next \/ UNCHANGED <<TokenState, Holders>>
    OBVIOUS
  <2>1. ASSUME NEW t \in Tokens, Issue(t) \/ IssueFails(t)
        PROVE  Promise!Next \/ UNCHANGED <<TokenState, Holders>>
    BY <2>1, IssueRefines DEF Promise!Next
  <2>2. ASSUME NEW c \in Conns, Conn(c)
        PROVE  Promise!Next \/ UNCHANGED <<TokenState, Holders>>
    <3>1. CASE \/ \E t \in Tokens : Present(c, t)
               \/ PresentNone(c) \/ GetMiss(c) \/ GetFails(c)
               \/ New(c) \/ Close(c)
      <4>1. /\ UNCHANGED <<left, issued, got>>
            /\ \A d \in Conns : got[d] => token'[d] = token[d]
        BY <3>1, QuietInv
      <4>2. Holders' = Holders
        BY <4>1, SameHolders
      <4> QED BY <4>1, <4>2, Stutter DEF Live
    <3>2. CASE GetHit(c)
      BY <3>2, GetHitRefines DEF Promise!Next
    <3>3. CASE Delete(c) \/ DeleteFails(c)
      BY <3>3, DeleteRefines
    <3> QED BY <2>2, <3>1, <3>2, <3>3 DEF Conn
  <2>3. CASE Tick \/ Restart
    BY <2>3, DecayRefines DEF Promise!Next
  <2>4. CASE UNCHANGED vars
    BY <2>4, Stutter DEF vars, Holders, Live
  <2> QED BY <2>1, <2>2, <2>3, <2>4 DEF Next
<1> QED BY <1>1, <1>2, Inductive, PTL DEF Spec, KeepsPromise, Promise!Spec
=============================================================================
