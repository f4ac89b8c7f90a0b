----------------------------- MODULE SiteProofs -----------------------------
(***************************************************************************)
(* Theorems about Startup, for every set of inputs, and about Site, whose  *)
(* start is that of Startup.                                               *)
(***************************************************************************)
EXTENDS Site, TLAPS

-----------------------------------------------------------------------------
(* The tags of the three structs.                                          *)

\* Within a struct, and from one to another, fields have names of their own.
LEMMA NoFieldTwice ==
  ASSUME NEW i \in 1 .. 3, NEW j \in 1 .. 3,
         NEW f \in DOMAIN Tags[i], NEW g \in DOMAIN Tags[j],
         Tags[i][f] = Tags[j][g]
  PROVE  i = j /\ f = g
<1>1. /\ \A x, y \in DOMAIN ServerTags : ServerTags[x] = ServerTags[y] => x = y
      /\ \A x, y \in DOMAIN CommandTags : CommandTags[x] = CommandTags[y] => x = y
      /\ \A x, y \in DOMAIN RedisTags : RedisTags[x] = RedisTags[y] => x = y
  BY DEF ServerTags, CommandTags, RedisTags
<1>2. /\ \A x \in DOMAIN ServerTags, y \in DOMAIN CommandTags :
           ServerTags[x] # CommandTags[y]
      /\ \A x \in DOMAIN ServerTags, y \in DOMAIN RedisTags :
           ServerTags[x] # RedisTags[y]
      /\ \A x \in DOMAIN CommandTags, y \in DOMAIN RedisTags :
           CommandTags[x] # RedisTags[y]
  BY DEF ServerTags, CommandTags, RedisTags
<1>3. Tags[1] = ServerTags /\ Tags[2] = CommandTags /\ Tags[3] = RedisTags
  BY DEF Tags
<1>4. i \in {1, 2, 3} /\ j \in {1, 2, 3}
  OBVIOUS
<1> QED BY <1>1, <1>2, <1>3, <1>4

\* No flag belongs to two structs.
LEMMA NoFlagTwice ==
  ASSUME NEW i \in 1 .. 3, NEW j \in 1 .. 3, NEW f \in DOMAIN Tags[i],
         f \in DOMAIN Tags[j]
  PROVE  i = j
<1>1. /\ DOMAIN ServerTags \cap DOMAIN CommandTags = {}
      /\ DOMAIN ServerTags \cap DOMAIN RedisTags = {}
      /\ DOMAIN CommandTags \cap DOMAIN RedisTags = {}
  BY DEF ServerTags, CommandTags, RedisTags
<1>2. Tags[1] = ServerTags /\ Tags[2] = CommandTags /\ Tags[3] = RedisTags
  BY DEF Tags
<1>3. i \in {1, 2, 3} /\ j \in {1, 2, 3}
  OBVIOUS
<1> QED BY <1>1, <1>2, <1>3

\* The fields that later steps look at, and their flags.
LEMMA Named ==
  /\ "tls" \in DOMAIN Tags[1] /\ Tags[1]["tls"] = "EnableTLS"
  /\ "credential_file" \in DOMAIN Tags[1]
  /\ Tags[1]["credential_file"] = "CredentialFile"
  /\ "index" \in DOMAIN Tags[1] /\ Tags[1]["index"] = "IndexFile"
  /\ "ws_origin" \in DOMAIN Tags[1] /\ Tags[1]["ws_origin"] = "WSOrigin"
  /\ "use_redis_token_cache" \in DOMAIN Tags[3]
  /\ Tags[3]["use_redis_token_cache"] = "UseRedisTokenCache"
  /\ "redis_addr" \in DOMAIN Tags[3] /\ Tags[3]["redis_addr"] = "Addr"
BY DEF Tags, ServerTags, RedisTags

\* FieldOk finds the field of a flag in the flag's own struct.
LEMMA OwnStruct ==
  ASSUME NEW i \in 1 .. 3, NEW f \in DOMAIN Tags[i],
         NEW j \in Structs(Tags[i][f])
  PROVE  j = i
<1>1. PICK g \in DOMAIN Tags[j] : Tags[j][g] = Tags[i][f]
  BY DEF Structs, FieldsOf
<1> QED BY <1>1, NoFieldTwice DEF Structs

-----------------------------------------------------------------------------
(* The invariant of a start.                                               *)

Begun == pc \notin {"parse", "action", "exited"}

\* What is assigned was set, and what is set is assigned or still to come.
AssignInv ==
  /\ \A i \in 1 .. 3 : \A f \in DOMAIN Tags[i] :
       Given(i, Tags[i][f]) => IsSet(f)
  /\ Begun => \A i \in 1 .. 3 : \A f \in DOMAIN Tags[i] :
                IsSet(f) => f \in pending \/ Given(i, Tags[i][f])
  /\ Begun /\ pc # "apply" => pending = {}
  /\ \A f \in pending : IsSet(f)

\* What each step has made sure of.
CheckedInv ==
  /\ pc \in {"new", "handlers", "listen", "serve", "serving"} =>
       /\ IsSet("tls_ca_crt") => IsSet("tls")
       /\ IsSet("use_redis_token_cache") => IsSet("redis_addr")
  /\ pc \in {"handlers", "listen", "serve", "serving"} =>
       /\ IsSet("index") => ~Trouble("no index") /\ ~Trouble("bad template")
       /\ IsSet("ws_origin") => ~Trouble("bad origin")
  /\ pc \in {"listen", "serve", "serving"} =>
       /\ IsSet("tls_ca_crt") => ~Trouble("no ca")
       /\ IsSet("credential_file") => ~Trouble("no credentials")
  /\ pc = "serving" => (IsSet("tls") => ~Trouble("no certificate"))

StartInv == TypeOK /\ AssignInv /\ CheckedInv /\ FailureShows

LEMMA StartInvInit == StartInit => StartInv
<1> SUFFICES ASSUME StartInit PROVE StartInv
  OBVIOUS
<1>1. TypeOK
  BY DEF StartInit, TypeOK, Steps
<1>2. AssignInv
  BY DEF StartInit, AssignInv, Given, Begun
<1>3. CheckedInv /\ FailureShows
  BY DEF StartInit, CheckedInv, FailureShows
<1> QED BY <1>1, <1>2, <1>3 DEF StartInv

\* From the first step after ApplyFlags on, an option is given exactly if its
\* flag is set.
LEMMA AsGiven ==
  ASSUME AssignInv, Begun, pending = {},
         NEW i \in 1 .. 3, NEW f \in DOMAIN Tags[i]
  PROVE  Given(i, Tags[i][f]) <=> IsSet(f)
BY DEF AssignInv

LEMMA StartInvNext == StartInv /\ [StartNext]_startVars => StartInv'
<1> SUFFICES ASSUME StartInv, [StartNext]_startVars PROVE StartInv'
  OBVIOUS
<1> USE DEF StartInv
<1>1. CASE Parse
  <2>1. TypeOK'
    BY <1>1 DEF Parse, TypeOK, Steps, Goto, Exit
  <2>2. AssignInv'
    BY <1>1 DEF Parse, AssignInv, Goto, Exit, Given, IsSet, Begun
  <2>3. CheckedInv' /\ FailureShows'
    BY <1>1 DEF Parse, CheckedInv, FailureShows, Goto, Exit, TypeOK
  <2> QED BY <2>1, <2>2, <2>3
<1>2. CASE Action
  <2>1. TypeOK'
    BY <1>2 DEF Action, TypeOK, Steps, Goto, Exit
  <2>2. AssignInv'
    <3>1. UNCHANGED <<input, assigned>>
      BY <1>2 DEF Action
    <3>2. \A f \in pending' : IsSet(f)'
      BY <1>2, <3>1 DEF Action, AssignInv, IsSet
    <3>3. Begun' => pending' = {f \in FlagNames : IsSet(f)} /\ pc' = "apply"
      BY <1>2 DEF Action, Goto, Exit, Begun
    <3>4. \A i \in 1 .. 3 : DOMAIN Tags[i] \subseteq FlagNames
      BY DEF FlagNames
    <3>5. \A i \in 1 .. 3 : \A f \in DOMAIN Tags[i] :
            Given(i, Tags[i][f])' => IsSet(f)'
      BY <3>1 DEF AssignInv, Given, IsSet
    <3>6. Begun' => \A i \in 1 .. 3 : \A f \in DOMAIN Tags[i] :
                      IsSet(f)' => f \in pending' \/ Given(i, Tags[i][f])'
      BY <3>1, <3>3, <3>4 DEF IsSet
    <3>7. Begun' /\ pc' # "apply" => pending' = {}
      BY <3>3
    <3> QED BY <3>2, <3>5, <3>6, <3>7 DEF AssignInv
  <2>3. CheckedInv'
    BY <1>2 DEF Action, CheckedInv, Goto, Exit, IsSet, Trouble
  <2>4. FailureShows'
    BY <1>2 DEF Action, FailureShows, Goto, Exit
  <2> QED BY <2>1, <2>2, <2>3, <2>4
<1>3. ASSUME NEW f \in FlagNames, ApplyFlag(f) PROVE StartInv'
  <2>1. PICK i \in 1 .. 3 : \E j \in 1 .. 3 :
          /\ f \in DOMAIN Tags[i] /\ j \in Structs(Tags[i][f])
          /\ assigned' = assigned \cup {<<j, Tags[i][f]>>}
    BY <1>3 DEF ApplyFlag
  <2>2. f \in DOMAIN Tags[i] /\ assigned' = assigned \cup {<<i, Tags[i][f]>>}
    BY <2>1, OwnStruct
  <2>3. /\ pc = "apply" /\ f \in pending /\ pending' = pending \ {f}
        /\ UNCHANGED <<input, pc, code>>
    BY <1>3 DEF ApplyFlag
  <2>4. TypeOK'
    <3>1. <<i, Tags[i][f]>> \in {i} \X FieldsOf(i)
      BY <2>2 DEF FieldsOf
    <3> QED BY <2>2, <2>3, <3>1 DEF TypeOK
  <2>5. AssignInv'
    <3>1. ASSUME NEW k \in 1 .. 3, NEW g \in DOMAIN Tags[k],
                 Given(k, Tags[k][g])'
          PROVE  IsSet(g)'
      <4>1. CASE Given(k, Tags[k][g])
        BY <4>1, <2>3 DEF AssignInv, IsSet
      <4>2. CASE ~Given(k, Tags[k][g])
        <5>1. k = i /\ Tags[k][g] = Tags[i][f]
          BY <3>1, <4>2, <2>2 DEF Given
        <5>2. g = f
          BY <5>1, <2>2, NoFieldTwice
        <5> QED BY <5>2, <2>3 DEF AssignInv, IsSet
      <4> QED BY <4>1, <4>2
    <3>2. ASSUME NEW k \in 1 .. 3, NEW g \in DOMAIN Tags[k], IsSet(g)
          PROVE  g \in pending' \/ Given(k, Tags[k][g])'
      <4>1. CASE g = f
        <5>1. k = i
          BY <4>1, <2>2, NoFlagTwice
        <5> QED BY <4>1, <5>1, <2>2 DEF Given
      <4>2. CASE g # f
        BY <4>2, <2>2, <2>3, <3>2 DEF AssignInv, Given, Begun
      <4> QED BY <4>1, <4>2
    <3> QED BY <2>3, <3>1, <3>2 DEF AssignInv, IsSet, Begun
  <2>6. CheckedInv' /\ FailureShows'
    BY <2>3 DEF CheckedInv, FailureShows
  <2> QED BY <2>4, <2>5, <2>6
<1>4. CASE Validate
  <2>1. TypeOK'
    BY <1>4 DEF Validate, TypeOK, Steps, Goto, Exit
  <2>2. AssignInv'
    BY <1>4 DEF Validate, AssignInv, Goto, Exit, Given, IsSet, Begun
  <2>3. FailureShows'
    BY <1>4 DEF Validate, FailureShows, Goto, Exit
  <2>4. CheckedInv'
    <3>1. /\ Given(1, "EnableTLS") <=> IsSet("tls")
          /\ Given(3, "UseRedisTokenCache") <=> IsSet("use_redis_token_cache")
          /\ Given(3, "Addr") <=> IsSet("redis_addr")
      BY <1>4, Named, AsGiven, 1 \in 1 .. 3, 3 \in 1 .. 3 DEF Validate, Begun
    <3> QED BY <1>4, <3>1 DEF Validate, CheckedInv, Goto, Exit, IsSet,
              EnableTLS, EnableTLSClientAuth, UseRedis
  <2> QED BY <2>1, <2>2, <2>3, <2>4
<1>5. CASE New
  <2>1. TypeOK'
    BY <1>5 DEF New, TypeOK, Steps, Goto, Exit
  <2>2. AssignInv'
    BY <1>5 DEF New, AssignInv, Goto, Exit, Given, IsSet, Begun
  <2>3. FailureShows'
    BY <1>5 DEF New, FailureShows, Goto, Exit
  <2>4. CheckedInv'
    <3>1. pending = {} /\ Begun
      BY <1>5 DEF New, AssignInv, Begun
    <3>2. /\ Given(1, "IndexFile") <=> IsSet("index")
          /\ Given(1, "WSOrigin") <=> IsSet("ws_origin")
      BY <3>1, Named, AsGiven, 1 \in 1 .. 3
    <3> QED BY <1>5, <3>2 DEF New, CheckedInv, Goto, Exit, IsSet, Trouble
  <2> QED BY <2>1, <2>2, <2>3, <2>4
<1>6. CASE SetUp
  <2>1. TypeOK'
    BY <1>6 DEF SetUp, TypeOK, Steps, Goto, Exit
  <2>2. AssignInv'
    BY <1>6 DEF SetUp, AssignInv, Goto, Exit, Given, IsSet, Begun
  <2>3. FailureShows'
    BY <1>6 DEF SetUp, FailureShows, Goto, Exit
  <2>4. CheckedInv'
    <3>1. pending = {} /\ Begun
      BY <1>6 DEF SetUp, AssignInv, Begun
    <3>2. Given(1, "CredentialFile") <=> IsSet("credential_file")
      BY <3>1, Named, AsGiven, 1 \in 1 .. 3
    <3> QED BY <1>6, <3>2 DEF SetUp, CheckedInv, Goto, Exit, IsSet, Trouble,
              EnableTLSClientAuth
  <2> QED BY <2>1, <2>2, <2>3, <2>4
<1>7. CASE Listen
  <2>1. TypeOK'
    BY <1>7 DEF Listen, TypeOK, Steps, Goto, Exit
  <2>2. AssignInv'
    BY <1>7 DEF Listen, AssignInv, Goto, Exit, Given, IsSet, Begun
  <2>3. CheckedInv'
    BY <1>7 DEF Listen, CheckedInv, Goto, Exit, IsSet, Trouble
  <2>4. FailureShows'
    BY <1>7 DEF Listen, FailureShows, Goto, Exit
  <2> QED BY <2>1, <2>2, <2>3, <2>4
<1>8. CASE Serve
  <2>1. TypeOK'
    BY <1>8 DEF Serve, TypeOK, Steps, Goto, Exit
  <2>2. AssignInv'
    BY <1>8 DEF Serve, AssignInv, Goto, Exit, Given, IsSet, Begun
  <2>3. FailureShows'
    BY <1>8 DEF Serve, FailureShows, Goto, Exit
  <2>4. CheckedInv'
    <3>1. pending = {} /\ Begun
      BY <1>8 DEF Serve, AssignInv, Begun
    <3>2. Given(1, "EnableTLS") <=> IsSet("tls")
      BY <3>1, Named, AsGiven, 1 \in 1 .. 3
    <3> QED BY <1>8, <3>2 DEF Serve, CheckedInv, Goto, Exit, IsSet, Trouble,
              EnableTLS
  <2> QED BY <2>1, <2>2, <2>3, <2>4
<1>9. CASE UNCHANGED startVars
  <2>1. TypeOK'
    BY <1>9 DEF startVars, TypeOK
  <2>2. AssignInv'
    BY <1>9 DEF startVars, AssignInv, Given, IsSet, Begun
  <2>3. CheckedInv' /\ FailureShows'
    BY <1>9 DEF startVars, CheckedInv, FailureShows, IsSet, Trouble
  <2> QED BY <2>1, <2>2, <2>3
<1> QED BY <1>1, <1>2, <1>3, <1>4, <1>5, <1>6, <1>7, <1>8, <1>9 DEF StartNext

\* For every set of inputs the variables of a start keep their types.
THEOREM StartTypes == StartSpec => []TypeOK
<1>1. StartInv => TypeOK
  BY DEF StartInv
<1> QED BY <1>1, StartInvInit, StartInvNext, PTL DEF StartSpec

\* Whatever the flags and the order in which ApplyFlags comes to them, every
\* option is assigned exactly if its flag was set.
THEOREM FlagsReachOptions == StartSpec => []OptionsAsGiven
<1>1. StartInv => OptionsAsGiven
  <2> SUFFICES ASSUME StartInv, pc \notin {"parse", "action", "apply", "exited"},
                      NEW i \in 1 .. 3, NEW f \in DOMAIN Tags[i]
               PROVE  Given(i, Tags[i][f]) <=> IsSet(f)
    BY DEF OptionsAsGiven
  <2> QED BY AsGiven DEF StartInv, AssignInv, Begun
<1> QED BY <1>1, StartInvInit, StartInvNext, PTL DEF StartSpec

\* A server that serves has what its options call for, as far as its start checks
\* it; what was read of a credential file that could be opened it does not check.
THEOREM ServesChecked == StartSpec => []ServesAsChecked
<1>1. StartInv => ServesAsChecked
  BY DEF StartInv, CheckedInv, ServesAsChecked
<1> QED BY <1>1, StartInvInit, StartInvNext, PTL DEF StartSpec

\* A start that fails after the parser has a code that says so.
THEOREM StartFailureShows == StartSpec => []FailureShows
<1>1. StartInv => FailureShows
  BY DEF StartInv
<1> QED BY <1>1, StartInvInit, StartInvNext, PTL DEF StartSpec

-----------------------------------------------------------------------------
(* The site.                                                               *)

\* The pages of a site change nothing of its start.
THEOREM SiteStarts == SiteSpec => StartSpec
<1>1. SiteInit => StartInit
  BY DEF SiteInit
<1>2. [SiteNext]_siteVars => [StartNext]_startVars
  <2> SUFFICES ASSUME [SiteNext]_siteVars PROVE [StartNext]_startVars
    OBVIOUS
  <2>1. CASE Start
    BY <2>1 DEF Start
  <2>2. ASSUME NEW w \in Windows,
               Visit(w) \/ Load(w) \/ Fetch(w) \/ Connect(w) \/ Done(w)
        PROVE  UNCHANGED startVars
    BY <2>2 DEF Visit, Load, Fetch, Connect, Done, Serving, fixedVars
  <2>3. ASSUME NEW w \in Windows, NEW v \in Windows, OpenTerminal(w, v)
        PROVE  UNCHANGED startVars
    BY <2>3 DEF OpenTerminal, Serving, fixedVars
  <2>4. CASE Issue \/ OtherComes \/ OtherLeaves
    BY <2>4 DEF Issue, OtherComes, OtherLeaves, Serving, fixedVars
  <2>5. CASE UNCHANGED siteVars
    BY <2>5 DEF siteVars, fixedVars
  <2> QED BY <2>1, <2>2, <2>3, <2>4, <2>5 DEF SiteNext
<1> QED BY <1>1, <1>2, PTL DEF SiteSpec, StartSpec
=============================================================================
