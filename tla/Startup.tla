------------------------------ MODULE Startup ------------------------------
(***************************************************************************)
(* How a gotty process starts: main.go with utils/default.go and           *)
(* utils/flags.go, Validate of the options, server.New and the first part  *)
(* of Server.Run, up to a server that serves or an exit.                   *)
(*                                                                         *)
(* A flag is named as in its environment variable, in lower case.  Of an   *)
(* option it is kept whether it was assigned or has its default: what is   *)
(* assigned is true, or no empty string.  What is wrong with a value is    *)
(* part of the input.  ApplyFlags walks over a map, in whatever order, and *)
(* finds a field by its name alone, in the first struct that has one.      *)
(***************************************************************************)
EXTENDS Naturals

CONSTANT Inputs  \* the command lines, environments and files considered

\* The fields with a flagName, by flag: of server.Options, of the options of
\* the command, and of RedisOptions.
ServerTags ==
  [address |-> "Address", port |-> "Port", permit_write |-> "PermitWrite",
   credential |-> "Credential", credential_file |-> "CredentialFile",
   random_url |-> "EnableRandomUrl", random_url_length |-> "RandomUrlLength",
   tls |-> "EnableTLS", tls_crt |-> "TLSCrtFile", tls_key |-> "TLSKeyFile",
   tls_ca_crt |-> "TLSCACrtFile", index |-> "IndexFile",
   title_format |-> "TitleFormat", reconnect |-> "EnableReconnect",
   reconnect_time |-> "ReconnectTime", max_connection |-> "MaxConnection",
   once |-> "Once", timeout |-> "Timeout",
   permit_arguments |-> "PermitArguments", width |-> "Width",
   height |-> "Height", ws_origin |-> "WSOrigin", term |-> "Term",
   token_expires_duration |-> "TokenExpiresDuration"]

CommandTags == [close_signal |-> "CloseSignal", close_timeout |-> "CloseTimeout"]

RedisTags ==
  [use_redis_token_cache |-> "UseRedisTokenCache", redis_addr |-> "Addr",
   redis_user |-> "Username", redis_password |-> "Password", redis_db |-> "DB",
   redis_pool_size |-> "PoolSize", redis_min_idle_conns |-> "MinIdleConns",
   redis_max_conn_age |-> "MaxConnAge"]

Tags == <<ServerTags, CommandTags, RedisTags>>

FieldsOf(i) == {Tags[i][f] : f \in DOMAIN Tags[i]}

FlagNames == UNION {DOMAIN Tags[i] : i \in 1 .. 3}

\* A flag that the parser does not know, or a value that it cannot read.
Misused == "misused"

\* What can be wrong outside: files that cannot be read or parsed, paths of fewer
\* than two bytes, an invalid pattern or format, an address in use; an origin
\* pattern that is not that of the pages.  Of the credential file: that it cannot
\* be opened or has more than 10M ("no credentials"), or that it is read in part
\* or not at all, being a directory, failing halfway, or for a line that is too
\* long ("cut credentials").  Of the credential: that it breaks the string of a
\* script ("quote"), or makes a string of it that is another one ("escape").
Troubles ==
  {"no index", "bad template", "bad title", "bad origin", "no credentials",
   "cut credentials", "no ca", "no listener", "no certificate", "short index",
   "short ca", "short certificate", "quote", "escape", "other origin"}

ASSUME InputsAssumption ==
  Inputs \subseteq [line : SUBSET (FlagNames \cup {Misused}),
                    env : SUBSET FlagNames, command : BOOLEAN,
                    trouble : SUBSET Troubles]

VARIABLES
  input,
  pc,        \* the next step, or "serving" or "exited"
  pending,   \* the flags that the loop of ApplyFlags has not come to
  assigned,  \* <<i, field>>: the fields of struct i that were set
  code       \* the exit code, 0 before

startVars == <<input, pc, pending, assigned, code>>

Steps == {"parse", "action", "apply", "new", "handlers", "listen", "serve",
          "serving", "exited"}

TypeOK ==
  /\ input \in Inputs
  /\ pc \in Steps
  /\ pending \subseteq FlagNames
  /\ assigned \subseteq UNION {{i} \X FieldsOf(i) : i \in 1 .. 3}
  /\ code \in {0, 1, 2, 3, 6, 8}

\* ApplyDefaultValues: every field has its default.
StartInit ==
  /\ input \in Inputs
  /\ pc = "parse"
  /\ pending = {}
  /\ assigned = {}
  /\ code = 0

-----------------------------------------------------------------------------
(* Flags.                                                                  *)

\* GenerateFlags makes no flag of a field that is no string, bool or int.
CliFlags == FlagNames \ {"redis_max_conn_age"}

\* c.IsSet: on the command line or in the environment
IsSet(f) == f \in CliFlags /\ f \in input.line \cup input.env

Given(i, field) == <<i, field>> \in assigned

EnableTLS == Given(1, "EnableTLS")
EnableTLSClientAuth == IsSet("tls_ca_crt")
UseRedis == Given(3, "UseRedisTokenCache")

Goto(to) == pc' = to /\ UNCHANGED code

Exit(c) == pc' = "exited" /\ code' = c

\* app.Run: what the parser returns is dropped, and main returns.
Parse ==
  /\ pc = "parse"
  /\ IF input.line \subseteq CliFlags THEN Goto("action") ELSE Exit(0)
  /\ UNCHANGED <<input, pending, assigned>>

\* A mistake in its place: the loop is over the flags of the parser, one of
\* which has no field.
ActionAllFlags ==
  /\ pc = "action"
  /\ IF input.command
     THEN Goto("apply") /\ pending' = {f \in FlagNames : IsSet(f)} \cup {"config"}
     ELSE Exit(1) /\ UNCHANGED pending
  /\ UNCHANGED <<input, assigned>>

\* Error: No command given.  Otherwise ApplyFlags begins: flags that are not
\* set are passed over.
Action ==
  /\ pc = "action"
  /\ IF input.command
     THEN Goto("apply") /\ pending' = {f \in FlagNames : IsSet(f)}
     ELSE Exit(1) /\ UNCHANGED pending
  /\ UNCHANGED <<input, assigned>>

\* The structs with a field of that name.
Structs(field) == {i \in 1 .. 3 : field \in FieldsOf(i)}

\* A mistake in its place: the search goes on when the field is found, and ends
\* with what the last struct says.
ApplyFlagLast(f) ==
  /\ pc = "apply"
  /\ f \in pending
  /\ pending' = pending \ {f}
  /\ \E i \in 1 .. 3 :
       /\ f \in DOMAIN Tags[i]
       /\ assigned' = assigned \cup ({3} \cap Structs(Tags[i][f])) \X {Tags[i][f]}
  /\ UNCHANGED <<input, pc, code>>

\* One turn of the loop: the field that mappings has for f is assigned in the
\* first struct where FieldOk finds one of that name.
ApplyFlag(f) ==
  /\ pc = "apply"
  /\ f \in pending
  /\ pending' = pending \ {f}
  /\ \E i \in 1 .. 3 : \E j \in 1 .. 3 :
       /\ f \in DOMAIN Tags[i]
       /\ j \in Structs(Tags[i][f])
       /\ \A k \in Structs(Tags[i][f]) : j <= k
       /\ assigned' = assigned \cup {<<j, Tags[i][f]>>}
  /\ UNCHANGED <<input, pc, code>>

\* A mistake in its place: the redis options are not validated.
ValidateServerOnly ==
  /\ pc = "apply"
  /\ pending = {}
  /\ IF EnableTLSClientAuth /\ ~EnableTLS THEN Exit(6) ELSE Goto("new")
  /\ UNCHANGED <<input, pending, assigned>>

\* Validate of both: client certificates need TLS, redis an address.
Validate ==
  /\ pc = "apply"
  /\ pending = {}
  /\ IF \/ EnableTLSClientAuth /\ ~EnableTLS
        \/ UseRedis /\ ~Given(3, "Addr")
     THEN Exit(6) ELSE Goto("new")
  /\ UNCHANGED <<input, pending, assigned>>

-----------------------------------------------------------------------------
(* The server.                                                             *)

Trouble(t) == t \in input.trouble

\* server.New: the index file, its template, the title and the origin pattern.
\* homedir.Expand takes two bytes of a path, and a bad template is a panic.
New ==
  /\ pc = "new"
  /\ LET index(t) == Given(1, "IndexFile") /\ Trouble(t)
     IN IF index("short index") THEN Exit(2)
        ELSE IF index("no index") THEN Exit(3)
        ELSE IF index("bad template") THEN Exit(2)
        ELSE IF \/ Given(1, "TitleFormat") /\ Trouble("bad title")
                \/ Given(1, "WSOrigin") /\ Trouble("bad origin")
        THEN Exit(3)
        ELSE Goto("handlers")
  /\ UNCHANGED <<input, pending, assigned>>

\* A mistake in its place: Run returns no error for the file of the CA.
SetUpQuietly ==
  /\ pc = "handlers"
  /\ IF \/ Given(1, "CredentialFile") /\ Trouble("no credentials")
        \/ EnableTLSClientAuth /\ Trouble("short ca")
     THEN Exit(2)
     ELSE IF EnableTLSClientAuth /\ Trouble("no ca") THEN Exit(0)
     ELSE Goto("listen")
  /\ UNCHANGED <<input, pending, assigned>>

\* setupHandlers, which panics if the credential file cannot be opened or is too
\* large, and tlsConfig.  With "cut credentials" the scanner ends or passes over a
\* line, its error is not looked at, and the start goes on with what was read.
SetUp ==
  /\ pc = "handlers"
  /\ IF \/ Given(1, "CredentialFile") /\ Trouble("no credentials")
        \/ EnableTLSClientAuth /\ Trouble("short ca")
     THEN Exit(2)
     ELSE IF EnableTLSClientAuth /\ Trouble("no ca") THEN Exit(8)
     ELSE Goto("listen")
  /\ UNCHANGED <<input, pending, assigned>>

\* net.Listen
Listen ==
  /\ pc = "listen"
  /\ IF Trouble("no listener") THEN Exit(8) ELSE Goto("serve")
  /\ UNCHANGED <<input, pending, assigned>>

\* srv.Serve, or ServeTLS with the two files
Serve ==
  /\ pc = "serve"
  /\ IF EnableTLS /\ Trouble("short certificate") THEN Exit(2)
     ELSE IF EnableTLS /\ Trouble("no certificate") THEN Exit(8)
     ELSE Goto("serving")
  /\ UNCHANGED <<input, pending, assigned>>

StartNext ==
  \/ Parse \/ Action \/ (\E f \in FlagNames : ApplyFlag(f)) \/ Validate
  \/ New \/ SetUp \/ Listen \/ Serve

StartSpec == StartInit /\ [][StartNext]_startVars

-----------------------------------------------------------------------------
(* Properties.                                                              *)

\* Whatever the order in which ApplyFlags comes to the flags, each option has
\* been assigned in its own struct, exactly if its flag was set
\* (flags.go:70-95): no two structs share the name of a field or of a flag.
OptionsAsGiven ==
  pc \notin {"parse", "action", "apply", "exited"} =>
    \A i \in 1 .. 3 : \A f \in DOMAIN Tags[i] :
      Given(i, Tags[i][f]) <=> IsSet(f)

\* A server that serves has what its options call for, as far as anything checks
\* it: client certificates only with TLS, an address for redis, and the files and
\* patterns that were named (options.go:48-53, 148-153, server.go:53-88, 241-251,
\* 294-304).  Of a credential file that is only that it could be opened and was
\* not too large: one that is read in part, or not at all, is none of the failures
\* it speaks of (server.go:252-266).
ServesAsChecked ==
  pc = "serving" =>
    /\ IsSet("tls_ca_crt") => IsSet("tls") /\ ~Trouble("no ca")
    /\ IsSet("use_redis_token_cache") => IsSet("redis_addr")
    /\ IsSet("credential_file") => ~Trouble("no credentials")
    /\ IsSet("index") => ~Trouble("no index") /\ ~Trouble("bad template")
    /\ IsSet("ws_origin") => ~Trouble("bad origin")
    /\ IsSet("tls") => ~Trouble("no certificate")

\* A start that fails shows it in the exit code, except for one that ends in the
\* parser, whose error main drops (main.go:109).
FailureShows ==
  pc = "exited" /\ code = 0 => ~(input.line \subseteq CliFlags)
=============================================================================
