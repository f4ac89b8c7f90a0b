---------------------------- MODULE ServerProofs ----------------------------
(***************************************************************************)
(* The safety of Server for every finite set of clients and every set of   *)
(* settings.  Each theorem adds one conjunct to the inductive invariant:   *)
(* types and the exact count first, since counter.done stays above zero    *)
(* only because the caller is counted; then what rests on the count.       *)
(***************************************************************************)
EXTENDS Server, FiniteSetTheorems, TLAPS

CountedStates ==
  {"upgrading", "awaitInit", "running", "closingSlave", "leaving"}

\* The counted handlers are finitely many, so that their number is a natural.
LEMMA CountedFinite ==
  /\ IsFiniteSet(Counted)
  /\ Cardinality(Counted) \in Nat
  /\ \A c \in Counted : Cardinality(Counted) >= 1
<1>1. Counted \subseteq Clients
  BY DEF Counted
<1>2. IsFiniteSet(Counted)
  BY <1>1, ClientsAssumption, FS_Subset
<1>3. Cardinality(Counted) \in Nat
  BY <1>2, FS_CardinalityType
<1>4. ASSUME NEW c \in Counted PROVE Cardinality(Counted) >= 1
  <2>1. Cardinality(Counted) # 0
    BY <1>2, FS_EmptySet
  <2> QED BY <2>1, <1>3
<1> QED BY <1>2, <1>3, <1>4

\* A handler that enters or leaves the counted states changes their number by
\* one; one that moves inside them, or outside them, leaves it alone.
LEMMA CountedStep ==
  ASSUME TypeOK, NEW c \in Clients, NEW from \in HandlerStates,
         NEW to \in HandlerStates, Goto(c, from, to)
  PROVE  /\ from \in CountedStates /\ to \in CountedStates => Counted' = Counted
         /\ from \notin CountedStates /\ to \notin CountedStates
              => Counted' = Counted
         /\ from \notin CountedStates /\ to \in CountedStates
              => Cardinality(Counted') = Cardinality(Counted) + 1
         /\ from \in CountedStates /\ to \notin CountedStates
              => Cardinality(Counted') = Cardinality(Counted) - 1
<1>1. handler \in [Clients -> HandlerStates]
  BY DEF TypeOK
<1>2. handler[c] = from /\ handler' = [handler EXCEPT ![c] = to]
  BY DEF Goto
<1>3. c \in Counted <=> from \in CountedStates
  BY <1>2 DEF Counted, CountedStates
<1>4. to \in CountedStates => Counted' = Counted \cup {c}
  BY <1>1, <1>2 DEF Counted, CountedStates
<1>5. to \notin CountedStates => Counted' = Counted \ {c}
  BY <1>1, <1>2 DEF Counted, CountedStates
<1>6. CASE from \in CountedStates
  <2>1. to \notin CountedStates
          => Cardinality(Counted') = Cardinality(Counted) - 1
    BY <1>3, <1>5, <1>6, CountedFinite, FS_RemoveElement
  <2> QED BY <1>3, <1>4, <1>6, <2>1
<1>7. CASE from \notin CountedStates
  <2>1. to \in CountedStates
          => Cardinality(Counted') = Cardinality(Counted) + 1
    BY <1>3, <1>4, <1>7, CountedFinite, FS_AddElement
  <2> QED BY <1>3, <1>5, <1>7, <2>1
<1> QED BY <1>6, <1>7

-----------------------------------------------------------------------------
(* Types and the exact count. *)

TypeInv == TypeOK /\ CounterExact

\* The handler actions that move between two states, both counted or both not,
\* and do not call the counter.
LEMMA HandlerMoves ==
  ASSUME TypeInv, NEW c \in Clients,
         \/ Accept(c) \/ Drop(c) \/ ClaimOnce(c)
         \/ UpgradeOk(c) \/ UpgradeFails(c) \/ InitAccepted(c)
         \/ InitRejected(c) \/ TtyEnds(c) \/ TtyCancelled(c)
         \/ CloseReturns(c) \/ CancelOnce(c)
  PROVE  TypeInv' /\ Counted' = Counted
<1>1. \E from, to \in HandlerStates :
        /\ Goto(c, from, to)
        /\ from \in CountedStates <=> to \in CountedStates
  <2>1. CASE Accept(c) \/ Drop(c)
    BY <2>1 DEF Accept, Drop, HandlerStates, CountedStates
  <2>2. CASE ClaimOnce(c)
    BY <2>2 DEF ClaimOnce, HandlerStates, CountedStates
  <2>3. CASE UpgradeOk(c) \/ UpgradeFails(c)
    BY <2>3 DEF UpgradeOk, UpgradeFails, HandlerStates, CountedStates
  <2>4. CASE InitAccepted(c) \/ InitRejected(c)
    BY <2>4 DEF InitAccepted, InitRejected, HandlerStates, CountedStates
  <2>5. CASE TtyEnds(c) \/ TtyCancelled(c)
    BY <2>5 DEF TtyEnds, TtyCancelled, HandlerStates, CountedStates
  <2>6. CASE CloseReturns(c) \/ CancelOnce(c)
    BY <2>6 DEF CloseReturns, CancelOnce, HandlerStates, CountedStates
  <2> QED BY <2>1, <2>2, <2>3, <2>4, <2>5, <2>6
<1>2. PICK from \in HandlerStates, to \in HandlerStates :
        /\ Goto(c, from, to)
        /\ from \in CountedStates <=> to \in CountedStates
  BY <1>1
<1>3. Counted' = Counted
  BY <1>2, CountedStep DEF TypeInv
<1>4. UNCHANGED counterVars
  BY DEF Accept, Drop, ClaimOnce, UpgradeOk, UpgradeFails, InitAccepted,
         InitRejected, TtyEnds, TtyCancelled, CloseReturns, CancelOnce,
         counterVars
<1>5. CounterExact'
  BY <1>3, <1>4 DEF TypeInv, CounterExact, counterVars
<1>6. handler' \in [Clients -> HandlerStates]
  BY <1>2 DEF Goto, TypeInv, TypeOK
<1>7. CounterTypeOK'
  BY <1>4 DEF TypeInv, TypeOK, CounterTypeOK, counterVars
<1>8. TypeOK'
  <2> USE DEF Accept, Drop, ClaimOnce, UpgradeOk, UpgradeFails, InitAccepted,
              InitRejected, TtyEnds, TtyCancelled, CloseReturns, CancelOnce
  <2>1. once' = once \/ once' = TRUE
    OBVIOUS
  <2>2. cancelled' = cancelled \/ cancelled' = TRUE
    OBVIOUS
  <2>3. slave' = slave \/ slave' = [slave EXCEPT ![c] = "alive"]
    OBVIOUS
  <2>4. UNCHANGED <<options, gracefulDone, runVars, mainVars>>
    OBVIOUS
  <2>5. once' \in BOOLEAN /\ cancelled' \in BOOLEAN
    BY <2>1, <2>2 DEF TypeInv, TypeOK
  <2>6. slave' \in [Clients -> {"none", "alive", "dead"}]
    BY <2>3 DEF TypeInv, TypeOK
  <2> HIDE DEF Accept, Drop, ClaimOnce, UpgradeOk, UpgradeFails, InitAccepted,
               InitRejected, TtyEnds, TtyCancelled, CloseReturns, CancelOnce
  <2> QED BY <1>6, <1>7, <2>4, <2>5, <2>6
          DEF TypeInv, TypeOK, runVars, mainVars
<1> QED BY <1>3, <1>5, <1>8 DEF TypeInv

\* counter.add and the two ways it goes on: one more is counted.
LEMMA CountInStep ==
  ASSUME TypeInv, NEW c \in Clients, CountIn(c)
  PROVE  /\ TypeInv'
         /\ connections' = connections + 1
         /\ Counted' = Counted \cup {c}
<1> DEFINE from == IF options.once THEN "claimed" ELSE "accepted"
<1>1. PICK to \in {"upgrading", "leaving"} : Goto(c, from, to)
  BY DEF CountIn
<1>2. /\ from \in HandlerStates \ CountedStates
      /\ to \in HandlerStates \cap CountedStates
  BY <1>1 DEF HandlerStates, CountedStates
<1>3. Cardinality(Counted') = Cardinality(Counted) + 1
  <2> HIDE DEF from
  <2> QED BY <1>1, <1>2, CountedStep DEF TypeInv
<1>4. Counted' = Counted \cup {c}
  BY <1>1 DEF Goto, Counted, TypeInv, TypeOK
<1>5. /\ connections' = connections + 1
      /\ wg' = wg + 1
  BY DEF CountIn, Add
<1>6. CounterExact'
  BY <1>3, <1>5 DEF TypeInv, CounterExact
<1>7. CounterTypeOK'
  <2>1. armed' \in BOOLEAN
    BY DEF CountIn, Add
  <2>2. UNCHANGED <<duration, tick, waiter>>
    BY DEF CountIn, Add
  <2> QED BY <1>5, <2>1, <2>2 DEF TypeInv, TypeOK, CounterTypeOK
<1>8. handler' \in [Clients -> HandlerStates]
  BY <1>1, <1>2 DEF Goto, TypeInv, TypeOK
<1>9. TypeOK'
  BY <1>7, <1>8 DEF TypeInv, TypeOK, CountIn, runVars, mainVars
<1> QED BY <1>4, <1>5, <1>6, <1>9 DEF TypeInv

\* counter.done: one fewer is counted, and the count was not zero.
LEMMA CountOutStep ==
  ASSUME TypeInv, NEW c \in Clients, CountOut(c)
  PROVE  /\ TypeInv'
         /\ connections >= 1
         /\ connections' = connections - 1
         /\ Counted' = Counted \ {c}
<1> DEFINE to == IF options.once THEN "cancelling" ELSE "gone"
<1>1. Goto(c, "leaving", to) /\ Done
  BY DEF CountOut
<1>2. /\ "leaving" \in HandlerStates \cap CountedStates
      /\ to \in HandlerStates \ CountedStates
  BY DEF HandlerStates, CountedStates
<1>3. Cardinality(Counted') = Cardinality(Counted) - 1
  <2> HIDE DEF to
  <2> QED BY <1>1, <1>2, CountedStep DEF TypeInv
<1>4. c \in Counted
  BY <1>1 DEF Goto, Counted
<1>5. connections >= 1 /\ wg >= 1
  BY <1>4, CountedFinite DEF TypeInv, CounterExact
<1>6. Counted' = Counted \ {c}
  BY <1>1 DEF Goto, Counted, TypeInv, TypeOK
<1>7. connections' = connections - 1 /\ wg' = wg - 1
  BY <1>1 DEF Done
<1>8. CounterExact'
  BY <1>3, <1>7 DEF TypeInv, CounterExact
<1>9. CounterTypeOK'
  <2>1. connections' \in Nat /\ wg' \in Nat
    BY <1>5, <1>7 DEF TypeInv, TypeOK, CounterTypeOK
  <2>2. armed' \in BOOLEAN
    BY <1>1 DEF Done, TypeInv, TypeOK, CounterTypeOK
  <2>3. waiter' \in WaiterStates
    BY <1>1 DEF Done, TypeInv, TypeOK, CounterTypeOK, WaiterStates
  <2> QED BY <1>1, <2>1, <2>2, <2>3
          DEF Done, TypeInv, TypeOK, CounterTypeOK
<1>10. handler' \in [Clients -> HandlerStates]
  BY <1>1, <1>2 DEF Goto, TypeInv, TypeOK
<1>11. TypeOK'
  BY <1>9, <1>10 DEF TypeInv, TypeOK, CountOut, runVars, mainVars
<1> QED BY <1>5, <1>6, <1>7, <1>8, <1>11 DEF TypeInv

\* The steps that leave every handler where it is.
LEMMA OtherSteps ==
  ASSUME TypeInv,
         \/ Timer \/ TimerWatcher \/ Run \/ Main
         \/ \E c \in Clients : SlaveExits(c)
  PROVE  /\ TypeInv'
         /\ UNCHANGED <<connections, wg, handler, options, once>>
         /\ Counted' = Counted
<1>1. UNCHANGED <<connections, wg, duration, handler, options, once>>
  BY DEF Timer, TimerFires, TimerWatcher, TakeTick, Run, ServeReturns,
         ServeFails, GracefulShutdown, GracefulWatchEnds, RunServeErr,
         RunClose, RunCtxErr, RunWait, Wait, RunWake, Wake, RunReturns, Main,
         Signal, MainSignal, MainErr, SlaveExits, counterVars
<1>2. Counted' = Counted
  BY <1>1 DEF Counted
<1>3. CounterExact'
  BY <1>1, <1>2 DEF TypeInv, CounterExact
<1>4. TypeOK'
  <2> USE <1>1 DEF TypeInv, TypeOK, CounterTypeOK, WaiterStates, Errors,
                   counterVars, runVars, mainVars
  <2>1. CASE Timer
    <3>1. armed' \in BOOLEAN /\ tick' \in BOOLEAN
      BY <2>1 DEF Timer, TimerFires
    <3>2. UNCHANGED <<options, once, handler, slave, cancelled, gracefulDone,
                      runVars, mainVars, duration, connections, wg, waiter>>
      BY <2>1 DEF Timer, TimerFires
    <3> QED BY <3>1, <3>2
  <2>2. CASE TimerWatcher
    <3>1. cancelled' \in BOOLEAN /\ tick' \in BOOLEAN
      BY <2>2 DEF TimerWatcher, TakeTick
    <3>2. UNCHANGED <<options, once, handler, slave, gracefulDone, runVars,
                      mainVars, duration, connections, wg, armed, waiter>>
      BY <2>2 DEF TimerWatcher, TakeTick
    <3> QED BY <3>1, <3>2
  <2>3. CASE ServeReturns \/ ServeFails
    BY <2>3 DEF ServeReturns, ServeFails
  <2>4. CASE GracefulShutdown \/ GracefulWatchEnds
    BY <2>4 DEF GracefulShutdown, GracefulWatchEnds
  <2>5. CASE RunServeErr \/ RunClose \/ RunCtxErr
    BY <2>5 DEF RunServeErr, RunClose, RunCtxErr
  <2>6. CASE RunWait \/ RunWake \/ RunReturns
    BY <2>6 DEF RunWait, Wait, RunWake, Wake, RunReturns
  <2>7. CASE Main
    BY <2>7 DEF Main, Signal, MainSignal, MainErr
  <2>8. ASSUME NEW c \in Clients, SlaveExits(c) PROVE TypeOK'
    BY <2>8 DEF SlaveExits
  <2> QED BY <2>1, <2>2, <2>3, <2>4, <2>5, <2>6, <2>7, <2>8 DEF Run
<1> QED BY <1>1, <1>2, <1>3, <1>4 DEF TypeInv

\* Types hold and the counter is exact in every state: whatever happens to a
\* request, its handler is counted from add to done (handlers.go:45-58).
THEOREM TypeAndCount == Spec => [](TypeOK /\ CounterExact)
<1>1. Init => TypeInv
  <2> SUFFICES ASSUME Init PROVE TypeInv
    OBVIOUS
  <2>1. Counted = {}
    BY DEF Init, Counted
  <2>2. CounterExact
    BY <2>1, FS_EmptySet DEF Init, NewCounter, CounterExact
  <2>3. options.timeout \in Int
    BY ConfigsAssumption DEF Init
  <2>4. TypeOK
    BY <2>3 DEF Init, NewCounter, TypeOK, CounterTypeOK, WaiterStates,
                HandlerStates, Errors
  <2> QED BY <2>2, <2>4 DEF TypeInv
<1>2. TypeInv /\ [Next]_vars => TypeInv'
  <2> SUFFICES ASSUME TypeInv, [Next]_vars PROVE TypeInv'
    OBVIOUS
  <2>1. CASE UNCHANGED vars
    BY <2>1 DEF vars, counterVars, runVars, mainVars, TypeInv, TypeOK,
                CounterTypeOK, CounterExact, Counted
  <2>2. CASE Next
    BY <2>2, HandlerMoves, CountInStep, CountOutStep, OtherSteps
       DEF Next, Handler
  <2> QED BY <2>1, <2>2
<1> QED BY <1>1, <1>2, PTL DEF Spec, TypeInv

\* The variables of the process keep their types.
THEOREM ServerTypes == Spec => []TypeOK
BY TypeAndCount, PTL

-----------------------------------------------------------------------------
(* The connection limit. *)

\* A handler is admitted by CountIn alone.
LEMMA AdmittedShrinks ==
  ASSUME TypeInv, NEW c \in Clients, Handler(c), ~CountIn(c)
  PROVE  Admitted' \subseteq Admitted
<1>1. CASE SlaveExits(c)
  BY <1>1 DEF SlaveExits, Admitted
<1>2. CASE ~SlaveExits(c)
  <2>1. \E from, to \in HandlerStates :
          /\ Goto(c, from, to)
          /\ \/ to \notin {"upgrading", "awaitInit", "running", "closingSlave"}
             \/ from \in {"upgrading", "awaitInit", "running"}
    BY <1>2 DEF Handler, Accept, Drop, ClaimOnce, UpgradeOk, UpgradeFails,
       InitAccepted, InitRejected, TtyEnds, TtyCancelled, CloseReturns,
       CountOut, CancelOnce, HandlerStates
  <2> QED BY <2>1 DEF Goto, Admitted, TypeInv, TypeOK
<1> QED BY <1>1, <1>2

\* --max-connection holds for any number of concurrent requests.  The number
\* that counter.add returns is the size of a set that contains every admitted
\* handler, so that the check of a stale number cannot let one in too many.
THEOREM MaxConnections == Spec => []MaxRespected
<1>1. Init => MaxRespected
  <2> SUFFICES ASSUME Init PROVE MaxRespected
    OBVIOUS
  <2>1. Admitted = {}
    BY DEF Init, Admitted
  <2>2. options.max \in Int
    BY ConfigsAssumption DEF Init
  <2> QED BY <2>1, <2>2, FS_EmptySet DEF MaxRespected
<1>2. ASSUME TypeInv, TypeInv', MaxRespected, [Next]_vars
      PROVE  MaxRespected'
  <2> USE <1>2
  <2>1. options.max \in Int
    BY ConfigsAssumption DEF TypeInv, TypeOK
  <2>2. ASSUME Admitted' \subseteq Admitted, UNCHANGED options
        PROVE  MaxRespected'
    <3>1. IsFiniteSet(Admitted)
      BY CountedFinite, FS_Subset DEF Admitted, Counted
    <3>2. /\ Cardinality(Admitted') <= Cardinality(Admitted)
          /\ Cardinality(Admitted) \in Nat
          /\ Cardinality(Admitted') \in Nat
      BY <2>2, <3>1, FS_Subset, FS_CardinalityType
    <3> QED BY <2>1, <2>2, <3>2 DEF MaxRespected
  <2>3. ASSUME NEW c \in Clients, CountIn(c) PROVE MaxRespected'
    <3>1. connections' \in Nat /\ connections' >= 1 /\ UNCHANGED options
      BY <2>3, CountInStep DEF TypeInv, TypeOK, CounterTypeOK, CountIn
    <3>2. CASE OverLimit(connections')
      <4>1. Goto(c, IF options.once THEN "claimed" ELSE "accepted", "leaving")
        BY <2>3, <3>2 DEF CountIn
      <4>2. Admitted' \subseteq Admitted
        BY <4>1 DEF Goto, Admitted, TypeInv, TypeOK
      <4> QED BY <2>2, <3>1, <4>2
    <3>3. CASE ~OverLimit(connections')
      <4>1. options.max = 0 \/ connections' <= options.max
        BY <2>1, <3>1, <3>3 DEF OverLimit
      <4>2. IsFiniteSet(Counted') /\ Admitted' \subseteq Counted'
        <5>1. Counted' \subseteq Clients
          BY DEF Counted
        <5> QED BY <5>1, ClientsAssumption, FS_Subset DEF Counted, Admitted
      <4>3. /\ Cardinality(Admitted') <= Cardinality(Counted')
            /\ Cardinality(Admitted') \in Nat
            /\ Cardinality(Counted') \in Nat
        BY <4>2, FS_Subset, FS_CardinalityType
      <4>4. connections' = Cardinality(Counted')
        BY DEF TypeInv, CounterExact
      <4> QED BY <2>1, <3>1, <4>1, <4>3, <4>4 DEF MaxRespected
    <3> QED BY <3>2, <3>3
  <2>4. ASSUME NEW c \in Clients, Handler(c), ~CountIn(c)
        PROVE  MaxRespected'
    <3>1. UNCHANGED options
      BY <2>4 DEF Handler, Accept, Drop, ClaimOnce, UpgradeOk, UpgradeFails,
         InitAccepted, InitRejected, TtyEnds, TtyCancelled, SlaveExits,
         CloseReturns, CountOut, CancelOnce
    <3> QED BY <2>2, <2>4, <3>1, AdmittedShrinks
  <2>5. CASE Timer \/ TimerWatcher \/ Run \/ Main
    <3>1. UNCHANGED <<handler, options>>
      BY <2>5, OtherSteps
    <3> QED BY <2>2, <3>1 DEF Admitted
  <2>6. CASE UNCHANGED vars
    BY <2>2, <2>6 DEF vars, Admitted
  <2> QED BY <2>3, <2>4, <2>5, <2>6 DEF Next
<1> QED BY <1>1, <1>2, TypeAndCount, PTL DEF Spec, TypeInv

-----------------------------------------------------------------------------
(* --once. *)

Claimed ==
  {c \in Clients : handler[c] \notin {"none", "accepted", "refused"}}

\* Nobody is past the swap before the flag is set, and then only one is.
OnceInv ==
  options.once => /\ once \/ Claimed = {}
                  /\ \A c, d \in Claimed : c = d

\* --once admits one connection, ever: the flag is never given back.
LEMMA OnceInvariant == Spec => []OnceInv
<1>1. Init => OnceInv
  BY DEF Init, OnceInv, Claimed
<1>2. ASSUME TypeInv, OnceInv, [Next]_vars PROVE OnceInv'
  <2> USE <1>2 DEF TypeInv, TypeOK
  <2>1. ASSUME options.once => Claimed' \subseteq Claimed,
               UNCHANGED options, once => once'
        PROVE  OnceInv'
    BY <2>1 DEF OnceInv
  <2>2. ASSUME NEW c \in Clients, ClaimOnce(c) PROVE OnceInv'
    <3>1. once' /\ UNCHANGED options /\ options.once
      BY <2>2 DEF ClaimOnce
    <3>2. CASE once
      <4>1. Claimed' \subseteq Claimed
        BY <2>2, <3>2 DEF ClaimOnce, Goto, Claimed
      <4> QED BY <2>1, <3>1, <4>1
    <3>3. CASE ~once
      <4>1. Claimed = {}
        BY <3>1, <3>3 DEF OnceInv
      <4>2. Claimed' \subseteq Claimed \cup {c}
        BY <2>2, <3>3 DEF ClaimOnce, Goto, Claimed
      <4> QED BY <3>1, <4>1, <4>2 DEF OnceInv
    <3> QED BY <3>2, <3>3
  <2>3. ASSUME NEW c \in Clients, CountIn(c) PROVE OnceInv'
    <3>1. options.once => Claimed' \subseteq Claimed
      BY <2>3 DEF CountIn, Goto, Claimed
    <3> QED BY <2>1, <2>3, <3>1 DEF CountIn
  <2>4. ASSUME NEW c \in Clients, Handler(c), ~ClaimOnce(c), ~CountIn(c),
               ~SlaveExits(c)
        PROVE  OnceInv'
    <3>1. \E from, to \in HandlerStates :
            /\ Goto(c, from, to)
            /\ \/ to \in {"none", "accepted", "refused"}
               \/ from \notin {"none", "accepted", "refused"}
      BY <2>4 DEF Handler, Accept, Drop, UpgradeOk, UpgradeFails,
         InitAccepted, InitRejected, TtyEnds, TtyCancelled, CloseReturns,
         CountOut, CancelOnce, HandlerStates
    <3>2. Claimed' \subseteq Claimed
      BY <3>1 DEF Goto, Claimed
    <3>3. UNCHANGED <<options, once>>
      BY <2>4 DEF Handler, Accept, Drop, UpgradeOk, UpgradeFails,
         InitAccepted, InitRejected, TtyEnds, TtyCancelled, CloseReturns,
         CountOut, CancelOnce
    <3> QED BY <2>1, <3>2, <3>3
  <2>5. ASSUME \/ Timer \/ TimerWatcher \/ Run \/ Main
               \/ \E c \in Clients : SlaveExits(c)
        PROVE  OnceInv'
    <3>1. UNCHANGED <<handler, options, once>>
      BY <2>5, OtherSteps
    <3> QED BY <3>1 DEF OnceInv, Claimed
  <2>6. CASE UNCHANGED vars
    BY <2>6 DEF vars, OnceInv, Claimed
  <2> QED BY <2>2, <2>3, <2>4, <2>5, <2>6 DEF Next
<1> QED BY <1>1, <1>2, TypeAndCount, PTL DEF Spec, TypeInv

\* --once admits one connection in the life of a process.
THEOREM OnceOnly == Spec => []OnceAdmitsOne
<1>1. OnceInv => OnceAdmitsOne
  <2> SUFFICES ASSUME OnceInv, options.once PROVE Cardinality(Claimed) <= 1
    BY DEF OnceAdmitsOne, Claimed
  <2>1. CASE Claimed = {}
    BY <2>1, FS_EmptySet
  <2>2. CASE Claimed # {}
    <3>1. PICK c \in Claimed : Claimed = {c}
      BY <2>2 DEF OnceInv
    <3> QED BY <3>1, FS_Singleton
  <2> QED BY <2>1, <2>2
<1> QED BY <1>1, OnceInvariant, PTL

-----------------------------------------------------------------------------
(* The idle timer. *)

\* A timer of duration zero was drained by newCounter and never runs.
TimerInv ==
  /\ TimerStoppedWhileConnected
  /\ duration = 0 => ~armed

\* The idle timer never runs while a client is counted: add stops it, and only
\* the done that reaches zero starts it again (handler_atomic.go:31-55).
THEOREM TimerStopped == Spec => []TimerStoppedWhileConnected
<1>1. Init => TimerInv
  BY DEF Init, NewCounter, TimerInv, TimerStoppedWhileConnected
<1>2. ASSUME TypeInv, TimerInv, [Next]_vars PROVE TimerInv'
  <2> USE <1>2
  <2>1. /\ duration \in Int
        /\ connections \in Nat
    BY DEF TypeInv, TypeOK, CounterTypeOK
  <2>2. ASSUME UNCHANGED <<duration, connections>>, armed' => armed
        PROVE  TimerInv'
    BY <2>2 DEF TimerInv, TimerStoppedWhileConnected
  <2>3. ASSUME NEW c \in Clients, CountIn(c) PROVE TimerInv'
    <3>1. (armed' => duration <= 0) /\ (armed' => armed) /\ duration' = duration
      BY <2>3 DEF CountIn, Add
    <3>2. armed' => duration < 0
      BY <2>1, <3>1 DEF TimerInv
    <3> QED BY <2>1, <3>1, <3>2 DEF TimerInv, TimerStoppedWhileConnected
  <2>4. ASSUME NEW c \in Clients, CountOut(c) PROVE TimerInv'
    <3>1. connections >= 1 /\ connections' = connections - 1
      BY <2>4, CountOutStep
    <3>2. /\ armed' => armed \/ (connections' = 0 /\ duration > 0)
          /\ duration' = duration
      BY <2>4 DEF CountOut, Done
    <3>3. armed => duration < 0
      BY <2>1, <3>1 DEF TimerInv, TimerStoppedWhileConnected
    <3> QED BY <2>1, <3>1, <3>2, <3>3 DEF TimerInv, TimerStoppedWhileConnected
  <2>5. ASSUME NEW c \in Clients, Handler(c), ~CountIn(c), ~CountOut(c)
        PROVE  TimerInv'
    <3>1. UNCHANGED counterVars
      BY <2>5 DEF Handler, Accept, Drop, ClaimOnce, UpgradeOk, UpgradeFails,
         InitAccepted, InitRejected, TtyEnds, TtyCancelled, SlaveExits,
         CloseReturns, CancelOnce
    <3> QED BY <2>2, <3>1 DEF counterVars
  <2>6. CASE Timer \/ TimerWatcher \/ Run \/ Main
    <3>1. UNCHANGED <<duration, connections>> /\ (armed' => armed)
      BY <2>6 DEF Timer, TimerFires, TimerWatcher, TakeTick, Run,
         ServeReturns, ServeFails, GracefulShutdown, GracefulWatchEnds,
         RunServeErr, RunClose, RunCtxErr, RunWait, Wait, RunWake, Wake,
         RunReturns, Main, Signal, MainSignal, MainErr, counterVars
    <3> QED BY <2>2, <3>1
  <2>7. CASE UNCHANGED vars
    BY <2>2, <2>7 DEF vars, counterVars
  <2> QED BY <2>3, <2>4, <2>5, <2>6, <2>7 DEF Next
<1>3. TimerInv => TimerStoppedWhileConnected
  BY DEF TimerInv
<1> QED BY <1>1, <1>2, <1>3, TypeAndCount, PTL DEF Spec, TypeInv

-----------------------------------------------------------------------------
(* The end of Run. *)

\* The handlers that run a command and will close it.
Owners == {c \in Clients : handler[c] \in {"running", "closingSlave"}}

\* A command that runs has a handler that will close it; Run waits only after
\* its select; and once the server is closed and the wait is over there is no
\* websocket left and no way to get one.
StopInv ==
  /\ \A c \in Clients : slave[c] = "alive" => c \in Owners
  /\ waiter # "idle" => runPc \in {"wait", "returned"}
  /\ http = "closed" /\ waiter = "returned" => InSession = {}

\* The end of a closed server leaves no websocket, whatever srv.Close met between
\* counter.add and the upgrade.
LEMMA StopInvariant == Spec => []StopInv
<1>1. Init => StopInv
  BY DEF Init, NewCounter, StopInv
<1>2. ASSUME TypeInv, StopInv, [Next]_vars PROVE StopInv'
  <2> USE <1>2 DEF TypeInv, TypeOK, StopInv
  <2>1. ASSUME UNCHANGED <<waiter, runPc, http, slave>>,
               InSession' = InSession, Owners' = Owners
        PROVE  StopInv'
    BY <2>1
  <2>2. ASSUME NEW c \in Clients,
               \/ Accept(c) \/ Drop(c) \/ ClaimOnce(c) \/ CountIn(c)
               \/ UpgradeFails(c) \/ TtyEnds(c) \/ TtyCancelled(c)
               \/ CancelOnce(c)
        PROVE  StopInv'
    <3>1. UNCHANGED <<waiter, runPc, http, slave>>
      BY <2>2 DEF Accept, Drop, ClaimOnce, CountIn, Add, UpgradeFails,
         TtyEnds, TtyCancelled, CancelOnce, counterVars, runVars
    <3>2. \E from, to \in HandlerStates :
            /\ Goto(c, from, to)
            /\ from = "awaitInit" <=> to = "awaitInit"
            /\ from \in {"running", "closingSlave"}
                 <=> to \in {"running", "closingSlave"}
      BY <2>2 DEF Accept, Drop, ClaimOnce, CountIn, UpgradeFails, TtyEnds,
         TtyCancelled, CancelOnce, HandlerStates
    <3>3. InSession' = InSession /\ Owners' = Owners
      BY <3>2 DEF Goto, InSession, Owners
    <3> QED BY <2>1, <3>1, <3>3
  <2>3. ASSUME NEW c \in Clients, UpgradeOk(c) PROVE StopInv'
    <3>1. UNCHANGED <<waiter, runPc, http, slave>> /\ http # "closed"
      BY <2>3 DEF UpgradeOk, counterVars, runVars
    <3>2. Owners' = Owners
      BY <2>3 DEF UpgradeOk, Goto, Owners
    <3> QED BY <3>1, <3>2
  <2>4. ASSUME NEW c \in Clients, InitAccepted(c) PROVE StopInv'
    <3>1. UNCHANGED <<waiter, runPc, http>>
      BY <2>4 DEF InitAccepted, counterVars, runVars
    <3>2. /\ InSession' = InSession /\ c \in InSession
          /\ Owners' = Owners \cup {c}
      BY <2>4 DEF InitAccepted, Goto, InSession, Owners
    <3>3. slave' = [slave EXCEPT ![c] = "alive"]
      BY <2>4 DEF InitAccepted
    <3> QED BY <3>1, <3>2, <3>3
  <2>5. ASSUME NEW c \in Clients, InitRejected(c) \/ CloseReturns(c)
        PROVE  StopInv'
    <3>1. UNCHANGED <<waiter, runPc, http, slave>>
      BY <2>5 DEF InitRejected, CloseReturns, counterVars, runVars
    <3>2. InSession' = InSession \ {c} /\ Owners' = Owners \ {c}
      BY <2>5 DEF InitRejected, CloseReturns, Goto, InSession, Owners
    <3>3. slave[c] # "alive"
      BY <2>5 DEF InitRejected, CloseReturns, Goto, Owners
    <3> QED BY <3>1, <3>2, <3>3
  <2>6. ASSUME NEW c \in Clients, SlaveExits(c) PROVE StopInv'
    BY <2>6 DEF SlaveExits, InSession, Owners, counterVars, runVars
  <2>7. ASSUME NEW c \in Clients, CountOut(c) PROVE StopInv'
    <3>1. /\ UNCHANGED <<runPc, http, slave>>
          /\ InSession' = InSession
          /\ Owners' = Owners
      BY <2>7 DEF CountOut, Goto, InSession, Owners, runVars
    <3>2. waiter' = waiter \/ (waiter = "parked" /\ waiter' = "released")
      BY <2>7 DEF CountOut, Done
    <3> QED BY <3>1, <3>2
  <2>8. CASE RunWait \/ RunWake
    <3>1. UNCHANGED <<runPc, http, slave, handler>> /\ runPc = "wait"
      BY <2>8 DEF RunWait, RunWake, runVars
    <3>2. waiter' = "returned" => wg = 0
      BY <2>8 DEF RunWait, Wait, RunWake, Wake
    <3>3. wg = 0 => Counted = {}
      BY CountedFinite DEF CounterExact
    <3>4. Counted = {} => InSession = {}
      BY DEF Counted, InSession
    <3>5. InSession' = InSession /\ Owners' = Owners
      BY <3>1 DEF InSession, Owners
    <3> QED BY <3>1, <3>2, <3>3, <3>4, <3>5
  <2>9. CASE RunClose
    <3>1. UNCHANGED <<waiter, slave, handler>> /\ runPc = "select"
      BY <2>9 DEF RunClose, counterVars
    <3>2. InSession' = InSession /\ Owners' = Owners /\ waiter' = "idle"
      BY <3>1 DEF InSession, Owners
    <3> QED BY <3>1, <3>2
  <2>10. CASE \/ Timer \/ TimerWatcher \/ ServeReturns \/ ServeFails
              \/ GracefulShutdown \/ GracefulWatchEnds \/ RunServeErr
              \/ RunCtxErr \/ RunReturns \/ Main
    <3>1. /\ UNCHANGED <<waiter, slave, handler>>
          /\ http' = "closed" => http = "closed"
          /\ runPc' # runPc => runPc' \in {"wait", "returned"}
      BY <2>10 DEF Timer, TimerFires, TimerWatcher, TakeTick, ServeReturns,
         ServeFails, GracefulShutdown, GracefulWatchEnds, RunServeErr,
         RunCtxErr, RunReturns, Main, Signal, MainSignal, MainErr,
         counterVars, runVars
    <3>2. InSession' = InSession /\ Owners' = Owners
      BY <3>1 DEF InSession, Owners
    <3> QED BY <3>1, <3>2
  <2>11. CASE UNCHANGED vars
    BY <2>1, <2>11 DEF vars, InSession, Owners, counterVars, runVars
  <2> QED BY <2>2, <2>3, <2>4, <2>5, <2>6, <2>7, <2>8, <2>9, <2>10, <2>11
          DEF Next, Handler, Run
<1> QED BY <1>1, <1>2, TypeAndCount, PTL DEF Spec, TypeInv

\* After a forced stop the wait of Run covers every command.
THEOREM ForcedStop == Spec => []ForcedStopLeavesNoSlave
<1>1. StopInv => ForcedStopLeavesNoSlave
  <2>1. Owners \subseteq InSession
    BY DEF Owners, InSession
  <2> QED BY <2>1 DEF StopInv, ForcedStopLeavesNoSlave
<1> QED BY <1>1, StopInvariant, PTL

\* When the wait of Run is over no command is running, so that whoever runs one
\* afterwards was counted in afterwards (server.go:204, handlers.go:45): the only
\* way to violate DrainLeavesNoSession.
THEOREM WaitIsWhole == Spec => WaitEndsEmpty
<1>1. TypeInv /\ StopInv /\ [Next]_vars
        => [waiter # "returned" /\ waiter' = "returned" =>
              \A c \in Clients : slave[c] # "alive" /\ slave'[c] # "alive"]_vars
  <2> SUFFICES ASSUME TypeInv, StopInv, Next, waiter # "returned",
                      waiter' = "returned", NEW c \in Clients
               PROVE  slave[c] # "alive" /\ slave'[c] # "alive"
    BY DEF vars
  <2>1. RunWait \/ RunWake
    BY DEF Next, Handler, Accept, Drop, ClaimOnce, CountIn, Add, UpgradeOk,
       UpgradeFails, InitAccepted, InitRejected, TtyEnds, TtyCancelled,
       SlaveExits, CloseReturns, CountOut, Done, CancelOnce, Timer,
       TimerFires, TimerWatcher, TakeTick, Run, ServeReturns, ServeFails,
       GracefulShutdown, GracefulWatchEnds, RunServeErr, RunClose, RunCtxErr,
       RunReturns, Main, Signal, MainSignal, MainErr, counterVars
  <2>2. wg = 0 /\ UNCHANGED slave
    BY <2>1 DEF RunWait, Wait, RunWake, Wake
  <2>3. Counted = {}
    BY <2>2, CountedFinite DEF TypeInv, CounterExact
  <2>4. Owners \subseteq Counted
    BY DEF Owners, Counted
  <2> QED BY <2>2, <2>3, <2>4 DEF StopInv
<1> QED BY <1>1, TypeAndCount, StopInvariant, PTL
        DEF Spec, TypeInv, WaitEndsEmpty

-----------------------------------------------------------------------------
(* The exit code. *)

\* Until somebody cancels, Run and the goroutine of Serve take turns at err: the
\* goroutine has written it, and sent the same on srvErr, before Run does.
ErrInv ==
  ~cancelled =>
    /\ serving => runPc = "select"
    /\ runPc = "select" => err = srvErr /\ (serving <=> srvErr = "none")
    /\ runPc # "select" => runPc \in {"wait", "returned"} /\ err = "none"
    /\ errs \in {"empty", "none"}
    /\ mainPc # "failed"

\* A process fails only after a forced stop or a failure of its listener
\* (server.go:170-204).
THEOREM GracefulIsClean == Spec => []FailsOnlyCancelled
<1>1. Init => ErrInv
  BY DEF Init, ErrInv
<1>2. ErrInv /\ [Next]_vars => ErrInv'
  <2> SUFFICES ASSUME ErrInv, [Next]_vars, ~cancelled' PROVE ErrInv'
    BY DEF ErrInv
  <2>1. CASE UNCHANGED <<runVars, errs, mainPc, cancelled>>
    BY <2>1 DEF ErrInv, runVars
  <2>2. ~cancelled
    BY DEF Next, Handler, Accept, Drop, ClaimOnce, CountIn, UpgradeOk,
       UpgradeFails, InitAccepted, InitRejected, TtyEnds, TtyCancelled,
       SlaveExits, CloseReturns, CountOut, CancelOnce, Timer, TimerWatcher,
       Run, ServeReturns, ServeFails, GracefulShutdown, GracefulWatchEnds,
       RunServeErr, RunClose, RunCtxErr, RunWait, RunWake, RunReturns, Main,
       Signal, MainSignal, MainErr, vars
  <2>3. CASE (\E c \in Clients : Handler(c)) \/ Timer \/ TimerWatcher
    BY <2>1, <2>2, <2>3 DEF Handler, Accept, Drop, ClaimOnce, CountIn, UpgradeOk,
       UpgradeFails, InitAccepted, InitRejected, TtyEnds, TtyCancelled,
       SlaveExits, CloseReturns, CountOut, CancelOnce, Timer, TimerWatcher,
       mainVars
  <2>4. CASE ServeReturns \/ ServeFails
    BY <2>2, <2>4 DEF ErrInv, ServeReturns, ServeFails, mainVars
  <2>5. CASE \/ GracefulShutdown \/ GracefulWatchEnds \/ RunServeErr \/ RunClose
             \/ RunCtxErr
    BY <2>2, <2>5 DEF ErrInv, GracefulShutdown, GracefulWatchEnds, RunServeErr,
       RunClose, RunCtxErr, mainVars
  <2>6. CASE RunWait \/ RunWake \/ RunReturns
    BY <2>2, <2>6 DEF ErrInv, RunWait, RunWake, RunReturns, runVars, mainVars
  <2>7. CASE Main
    BY <2>2, <2>7 DEF ErrInv, Main, Signal, MainSignal, MainErr, runVars
  <2>8. CASE UNCHANGED vars
    BY <2>1, <2>8 DEF vars, mainVars
  <2> QED BY <2>3, <2>4, <2>5, <2>6, <2>7, <2>8 DEF Next, Run
<1>3. ErrInv => FailsOnlyCancelled
  BY DEF ErrInv, FailsOnlyCancelled
<1> QED BY <1>1, <1>2, <1>3, PTL DEF Spec

-----------------------------------------------------------------------------
(* The promise of Admission. *)

DoorVars ==
  <<options.max, options.once, ClientState, http = "closed",
    http = "closed" /\ waiter = "returned">>

\* What ClientState says of a handler that moves.
LEMMA ClientMoves ==
  ASSUME TypeOK, NEW c \in Clients, NEW from \in HandlerStates,
         NEW to \in HandlerStates, Goto(c, from, to)
  PROVE  /\ ClientState = [d \in Clients |-> ClientState[d]]
         /\ ClientState' = [ClientState EXCEPT ![c] = ClientState'[c]]
         /\ ClientState[c] =
              IF from \in {"none", "accepted", "refused"} THEN "out"
              ELSE IF from \in {"claimed", "upgrading"} THEN "waiting"
              ELSE IF from \in {"awaitInit", "running", "closingSlave"} THEN "in"
              ELSE "left"
         /\ ClientState'[c] =
              IF to \in {"none", "accepted", "refused"} THEN "out"
              ELSE IF to \in {"claimed", "upgrading"} THEN "waiting"
              ELSE IF to \in {"awaitInit", "running", "closingSlave"} THEN "in"
              ELSE "left"
<1>1. handler[c] = from /\ handler' = [handler EXCEPT ![c] = to]
  BY DEF Goto
<1>2. handler \in [Clients -> HandlerStates]
  BY DEF TypeOK
<1>3. \A d \in Clients : d # c => handler'[d] = handler[d]
  BY <1>1, <1>2
<1>4. \A d \in Clients \ {c} : ClientState'[d] = ClientState[d]
  BY <1>3 DEF ClientState, InSession
<1>5. handler'[c] = to
  BY <1>1, <1>2
<1>6. /\ ClientState[c] =
              IF from \in {"none", "accepted", "refused"} THEN "out"
              ELSE IF from \in {"claimed", "upgrading"} THEN "waiting"
              ELSE IF from \in {"awaitInit", "running", "closingSlave"} THEN "in"
              ELSE "left"
  BY <1>1 DEF ClientState, InSession
<1>7. ClientState'[c] =
              IF to \in {"none", "accepted", "refused"} THEN "out"
              ELSE IF to \in {"claimed", "upgrading"} THEN "waiting"
              ELSE IF to \in {"awaitInit", "running", "closingSlave"} THEN "in"
              ELSE "left"
  BY <1>5 DEF ClientState, InSession
<1>8. /\ ClientState = [d \in Clients |-> ClientState[d]]
      /\ ClientState' = [d \in Clients |-> ClientState'[d]]
  BY DEF ClientState
<1>9. ClientState' = [ClientState EXCEPT ![c] = ClientState'[c]]
  BY <1>4, <1>8
<1> QED BY <1>6, <1>7, <1>8, <1>9

\* The clients that are in are those with a session.
LEMMA InIsInSession == TypeOK => Door!In = InSession
BY DEF Door!In, ClientState, InSession, TypeOK, HandlerStates

\* Admission counts as FiniteSets does.
LEMMA SameSize == \A S : Door!Cardinality(S) = Cardinality(S)
BY DEF Door!Cardinality, Cardinality

\* Nobody but the caller is past the swap when it enters under --once, the limit
\* holds after the entry, and a closed server that is over has no session.
DoorInv == TypeInv /\ MaxRespected /\ OnceInv /\ StopInv

\* Entering keeps the limit: the one who enters was admitted already.
LEMMA RoomToEnter ==
  ASSUME DoorInv, NEW c \in Clients, handler[c] = "upgrading", options.max # 0
  PROVE  Cardinality(InSession) < options.max
<1>1. options.max \in Int
  BY ConfigsAssumption DEF DoorInv, TypeInv, TypeOK
<1>2. InSession \subseteq Admitted /\ c \in Admitted /\ c \notin InSession
  BY DEF InSession, Admitted
<1>3. IsFiniteSet(Admitted) /\ IsFiniteSet(InSession)
  BY ClientsAssumption, FS_Subset DEF Admitted, InSession
<1>4. InSession \cup {c} \subseteq Admitted
  BY <1>2
<1>5. /\ Cardinality(InSession \cup {c}) = Cardinality(InSession) + 1
      /\ IsFiniteSet(InSession \cup {c})
  BY <1>2, <1>3, FS_AddElement
<1>6. /\ Cardinality(InSession \cup {c}) <= Cardinality(Admitted)
      /\ Cardinality(Admitted) \in Nat /\ Cardinality(InSession) \in Nat
  BY <1>3, <1>4, FS_Subset, FS_CardinalityType
<1> QED BY <1>1, <1>5, <1>6 DEF DoorInv, MaxRespected

\* Every step of a handler is one of the door's, or none.
LEMMA HandlerAtDoor ==
  ASSUME DoorInv, NEW c \in Clients, Handler(c)
  PROVE  Door!Next \/ UNCHANGED DoorVars
<1> USE DEF DoorInv, TypeInv
<1>1. UNCHANGED options /\ UNCHANGED http
  BY DEF Handler, Accept, Drop, ClaimOnce, CountIn, UpgradeOk, UpgradeFails,
     InitAccepted, InitRejected, TtyEnds, TtyCancelled, SlaveExits,
     CloseReturns, CountOut, CancelOnce, runVars
<1>2. (waiter = "returned") = (waiter' = "returned")
  BY DEF Handler, Accept, Drop, ClaimOnce, CountIn, Add, UpgradeOk,
     UpgradeFails, InitAccepted, InitRejected, TtyEnds, TtyCancelled,
     SlaveExits, CloseReturns, CountOut, Done, CancelOnce, counterVars
<1>3. UNCHANGED <<options.max, options.once, http = "closed",
                  http = "closed" /\ waiter = "returned">>
  BY <1>1, <1>2
<1>4. ASSUME NEW from \in HandlerStates, NEW to \in HandlerStates,
             Goto(c, from, to),
             ClientState[c] = ClientState'[c]
      PROVE  UNCHANGED DoorVars
  <2>1. ClientState' = ClientState
    BY <1>4, ClientMoves
  <2> QED BY <1>3, <2>1 DEF DoorVars
<1>5. CASE Accept(c) \/ Drop(c) \/ InitAccepted(c) \/ TtyEnds(c)
             \/ TtyCancelled(c) \/ CancelOnce(c)
  <2>1. \E from, to \in HandlerStates :
          /\ Goto(c, from, to)
          /\ \/ from = "none" /\ to = "accepted"
             \/ from = "accepted" /\ to = "refused"
             \/ from = "awaitInit" /\ to = "running"
             \/ from = "running" /\ to = "closingSlave"
             \/ from = "cancelling" /\ to = "gone"
    BY <1>5 DEF Accept, Drop, InitAccepted, TtyEnds, TtyCancelled, CancelOnce,
       HandlerStates
  <2> QED BY <2>1, <1>4, ClientMoves
<1>6. CASE SlaveExits(c)
  <2>1. UNCHANGED handler
    BY <1>6 DEF SlaveExits
  <2> QED BY <2>1, <1>3 DEF DoorVars, ClientState, InSession
<1>7. CASE UpgradeOk(c)
  <2>1. Goto(c, "upgrading", "awaitInit") /\ http # "closed"
    BY <1>7 DEF UpgradeOk
  <2>2. Door!Move(c, "waiting", "in")
    BY <2>1, <1>3, ClientMoves DEF Door!Move, HandlerStates
  <2>3. options.max # 0 => Door!Cardinality(Door!In) < options.max
    BY <2>1, RoomToEnter, InIsInSession, SameSize DEF Goto
  <2>4. Door!Enter(c)
    BY <2>1, <2>2, <2>3 DEF Door!Enter
  <2> QED BY <2>4 DEF Door!Next
<1>8. CASE UpgradeFails(c) \/ InitRejected(c) \/ CloseReturns(c)
  <2>1. \/ Goto(c, "upgrading", "leaving") \/ Goto(c, "awaitInit", "leaving")
        \/ Goto(c, "closingSlave", "leaving")
    BY <1>8 DEF UpgradeFails, InitRejected, CloseReturns
  <2>2. Door!Move(c, "waiting", "left") \/ Door!Move(c, "in", "left")
    BY <2>1, <1>3, ClientMoves DEF Door!Move, HandlerStates
  <2> QED BY <2>2 DEF Door!Next, Door!Leave
<1>9. CASE CountOut(c)
  <2>1. Goto(c, "leaving", "cancelling") \/ Goto(c, "leaving", "gone")
    BY <1>9 DEF CountOut
  <2> QED BY <2>1, <1>4, ClientMoves DEF HandlerStates
<1>10. CASE ClaimOnce(c)
  <2>1. CASE once
    <3>1. Goto(c, "accepted", "refused")
      BY <1>10, <2>1 DEF ClaimOnce
    <3> QED BY <3>1, <1>4, ClientMoves DEF HandlerStates
  <2>2. CASE ~once
    <3>1. Goto(c, "accepted", "claimed") /\ options.once
      BY <1>10, <2>2 DEF ClaimOnce
    <3>2. Claimed = {}
      BY <2>2, <3>1 DEF OnceInv
    <3>3. \A d \in Clients : ClientState[d] = "out"
      BY <3>2 DEF Claimed, ClientState, InSession
    <3>4. Door!Move(c, "out", "waiting")
      BY <3>1, <1>3, ClientMoves DEF Door!Move, HandlerStates
    <3> QED BY <3>3, <3>4 DEF Door!Next, Door!Ask
  <2> QED BY <2>1, <2>2
<1>11. CASE CountIn(c)
  <2>1. CASE options.once
    <3>1. Goto(c, "claimed", "upgrading") \/ Goto(c, "claimed", "leaving")
      BY <1>11, <2>1 DEF CountIn
    <3>2. CASE Goto(c, "claimed", "upgrading")
      BY <3>2, <1>4, ClientMoves DEF HandlerStates
    <3>3. CASE Goto(c, "claimed", "leaving")
      <4>1. Door!Move(c, "waiting", "left")
        BY <3>3, <1>3, ClientMoves DEF Door!Move, HandlerStates
      <4> QED BY <4>1 DEF Door!Next, Door!Leave
    <3> QED BY <3>1, <3>2, <3>3
  <2>2. CASE ~options.once
    <3>1. Goto(c, "accepted", "upgrading") \/ Goto(c, "accepted", "leaving")
      BY <1>11, <2>2 DEF CountIn
    <3>2. Door!Move(c, "out", "waiting") \/ Door!Move(c, "out", "left")
      BY <3>1, <1>3, ClientMoves DEF Door!Move, HandlerStates
    <3> QED BY <2>2, <3>2 DEF Door!Next, Door!Ask, Door!Leave
  <2> QED BY <2>1, <2>2
<1> QED BY <1>5, <1>6, <1>7, <1>8, <1>9, <1>10, <1>11 DEF Handler

\* The server implements Admission for every finite set of clients and every
\* setting: each step is one of the door's or leaves it alone.
THEOREM KeepsTheDoor == Spec => KeepsDoor
<1>1. ASSUME Init PROVE Door!Init
  <2>1. options.max \in Int /\ options.once \in BOOLEAN
    BY <1>1, ConfigsAssumption DEF Init
  <2>2. ClientState = [c \in Clients |-> "out"]
    BY <1>1 DEF Init, ClientState, InSession
  <2> QED BY <1>1, <2>1, <2>2 DEF Init, Door!Init
<1>2. ASSUME DoorInv, DoorInv', [Next]_vars
      PROVE  [Door!Next]_DoorVars
  <2> USE <1>2
  <2>1. ASSUME NEW c \in Clients, Handler(c)
        PROVE  [Door!Next]_DoorVars
    BY <2>1, HandlerAtDoor
  <2>2. CASE Timer \/ TimerWatcher \/ Run \/ Main
    <3>1. UNCHANGED <<handler, options>>
      BY <2>2, OtherSteps DEF DoorInv
    <3>2. ClientState' = ClientState
      BY <3>1 DEF ClientState, InSession
    <3>3. CASE RunClose
      <4>1. http' = "closed" /\ UNCHANGED waiter /\ waiter = "idle"
        BY <3>3 DEF RunClose, counterVars, DoorInv, StopInv, TypeInv, TypeOK,
           CounterTypeOK
      <4>2. Door!Close
        BY <3>1, <3>2, <4>1 DEF Door!Close
      <4> QED BY <4>2 DEF Door!Next
    <3>4. CASE RunWait \/ RunWake
      <4>1. UNCHANGED http
        BY <3>4 DEF RunWait, RunWake, runVars
      <4>2. waiter # "returned"
        BY <3>4 DEF RunWait, Wait, RunWake, Wake
      <4>3. CASE http = "closed" /\ waiter' = "returned"
        <5>1. InSession' = {}
          BY <4>1, <4>3 DEF DoorInv, StopInv
        <5>2. Door!In = {}
          BY <5>1, <3>1, InIsInSession DEF InSession, DoorInv, TypeInv
        <5>3. Door!End
          BY <5>2, <3>1, <3>2, <4>1, <4>3 DEF Door!End
        <5> QED BY <5>3 DEF Door!Next
      <4>4. CASE ~(http = "closed" /\ waiter' = "returned")
        BY <3>1, <3>2, <4>1, <4>2, <4>4 DEF DoorVars
      <4> QED BY <4>3, <4>4
    <3>5. CASE ~RunClose /\ ~RunWait /\ ~RunWake
      <4>1. UNCHANGED waiter /\ (http' = "closed" <=> http = "closed")
        BY <2>2, <3>5 DEF Timer, TimerFires, TimerWatcher, TakeTick, Run,
           ServeReturns, ServeFails, GracefulShutdown, GracefulWatchEnds,
           RunServeErr, RunCtxErr, RunReturns, Main, Signal, MainSignal,
           MainErr, counterVars, runVars
      <4> QED BY <3>1, <3>2, <4>1 DEF DoorVars
    <3> QED BY <3>3, <3>4, <3>5
  <2>3. CASE UNCHANGED vars
    BY <2>3 DEF vars, DoorVars, ClientState, InSession, counterVars, runVars
  <2> QED BY <2>1, <2>2, <2>3 DEF Next
<1> QED BY <1>1, <1>2, TypeAndCount, MaxConnections, OnceInvariant,
           StopInvariant, PTL DEF Spec, KeepsDoor, Door!Spec, DoorInv, TypeInv,
           DoorVars

-----------------------------------------------------------------------------
(* The sessions of a server.  What it takes them to do is what Session     *)
(* promises, no less and no more: WebTTY keeps the promise, so that a      *)
(* handler of Server may stand for a session of WebTTY.                    *)

\* The session of a handler, which before its command runs is still to start.
LifeOf(c) ==
  IF slave[c] = "none" \/ handler[c] = "running" THEN "running"
  ELSE IF handler[c] = "closingSlave" THEN "closing"
  ELSE "over"

Life(c) ==
  INSTANCE Session
    WITH session <- LifeOf(c),
         command <- IF slave[c] = "dead" THEN "dead" ELSE "alive"

\* A handler has a command from its session on, and a command that lives has a
\* handler that will close it.
LifeInv ==
  \A c \in Clients :
    /\ slave[c] = "none" => handler[c] \notin {"running", "closingSlave"}
    /\ slave[c] # "none" =>
         handler[c] \in {"running", "closingSlave", "leaving", "cancelling", "gone"}
    /\ slave[c] = "alive" => handler[c] \in {"running", "closingSlave"}

\* A step is one of the handler, or leaves the handler and its command alone.
LEMMA LifeFrame ==
  ASSUME TypeOK, Next, NEW c \in Clients
  PROVE  /\ cancelled' = cancelled \/ cancelled' = TRUE
         /\ \/ Handler(c)
            \/ handler'[c] = handler[c] /\ slave'[c] = slave[c]
<1>1. ASSUME NEW d \in Clients, Handler(d)
      PROVE  /\ cancelled' = cancelled \/ cancelled' = TRUE
             /\ d # c => handler'[c] = handler[c] /\ slave'[c] = slave[c]
  BY <1>1 DEF Handler, Goto, TypeOK, Accept, Drop, ClaimOnce, CountIn, UpgradeOk,
     UpgradeFails, InitAccepted, InitRejected, TtyEnds, TtyCancelled,
     SlaveExits, CloseReturns, CountOut, CancelOnce
<1>2. CASE Timer \/ TimerWatcher \/ Run \/ Main
  BY <1>2 DEF Timer, TimerWatcher, Run, ServeReturns, ServeFails,
     GracefulShutdown, GracefulWatchEnds, RunServeErr, RunClose, RunCtxErr,
     RunWait, RunWake, RunReturns, Main, Signal, MainSignal, MainErr
<1> QED BY <1>1, <1>2 DEF Next

\* What a handler does is nothing to its session, or a step of it.
LEMMA HandlerLives ==
  ASSUME TypeOK, LifeInv, NEW c \in Clients, Handler(c)
  PROVE  /\ LifeInv'
         /\ \/ UNCHANGED <<LifeOf(c), slave[c] = "dead">>
            \/ UNCHANGED cancelled /\ (Life(c)!End \/ Life(c)!Die \/ Life(c)!Close)
<1> USE DEF TypeOK, LifeInv, LifeOf, Goto
<1>1. CASE \/ Accept(c) \/ Drop(c) \/ ClaimOnce(c) \/ CountIn(c)
           \/ UpgradeOk(c) \/ UpgradeFails(c) \/ InitRejected(c)
  BY <1>1 DEF Accept, Drop, ClaimOnce, CountIn, UpgradeOk, UpgradeFails,
     InitRejected
<1>2. CASE InitAccepted(c)
  BY <1>2 DEF InitAccepted
<1>3. CASE TtyEnds(c) \/ TtyCancelled(c)
  BY <1>3 DEF TtyEnds, TtyCancelled, Life!End
<1>4. CASE SlaveExits(c)
  BY <1>4 DEF SlaveExits, Life!Die
<1>5. CASE CloseReturns(c)
  BY <1>5 DEF CloseReturns, Life!Close
<1>6. CASE CountOut(c) \/ CancelOnce(c)
  BY <1>6 DEF CountOut, CancelOnce
<1> QED BY <1>1, <1>2, <1>3, <1>4, <1>5, <1>6 DEF Handler

LEMMA LifeStep ==
  ASSUME TypeOK, LifeInv, [Next]_vars
  PROVE  LifeInv' /\ \A c \in Clients : [Life(c)!Next]_(Life(c)!vars)
<1>1. CASE UNCHANGED vars
  BY <1>1 DEF vars, LifeInv, LifeOf, Life!vars
<1>2. ASSUME Next, NEW c \in Clients
      PROVE  [Life(c)!Next]_(Life(c)!vars)
  <2>1. CASE handler'[c] = handler[c] /\ slave'[c] = slave[c]
    <3>1. UNCHANGED <<LifeOf(c), slave[c] = "dead">>
      BY <2>1 DEF LifeOf
    <3>2. cancelled' = cancelled \/ (~cancelled /\ cancelled' = TRUE)
      BY <1>2, LifeFrame DEF TypeOK
    <3> QED BY <3>1, <3>2 DEF Life!Next, Life!Cancel, Life!vars
  <2>2. CASE Handler(c)
    <3>1. cancelled' = cancelled \/ (~cancelled /\ cancelled' = TRUE)
      BY <1>2, LifeFrame DEF TypeOK
    <3> QED BY <2>2, <3>1, HandlerLives DEF Life!Next, Life!Cancel, Life!vars
  <2> QED BY <1>2, <2>1, <2>2, LifeFrame
<1>3. ASSUME Next PROVE LifeInv'
  <2> SUFFICES ASSUME NEW c \in Clients
               PROVE  /\ slave'[c] = "none" =>
                           handler'[c] \notin {"running", "closingSlave"}
                      /\ slave'[c] # "none" =>
                           handler'[c] \in {"running", "closingSlave", "leaving",
                                           "cancelling", "gone"}
                      /\ slave'[c] = "alive" =>
                           handler'[c] \in {"running", "closingSlave"}
    BY DEF LifeInv
  <2>1. CASE handler'[c] = handler[c] /\ slave'[c] = slave[c]
    BY <2>1 DEF LifeInv
  <2>2. CASE Handler(c)
    BY <2>2, HandlerLives DEF LifeInv
  <2> QED BY <1>3, <2>1, <2>2, LifeFrame
<1> QED BY <1>1, <1>2, <1>3

\* What a server takes its sessions to do is no less than Session promises: seen
\* from outside, every handler with its command is a session that ends once,
\* and is over only with the command dead (handlers.go:151).
THEOREM ServerTakesSessions ==
  ASSUME NEW c \in Clients
  PROVE  Spec => Life(c)!Spec
<1>1. Init => LifeInv /\ Life(c)!Init
  BY DEF Init, LifeInv, LifeOf, Life!Init
<1>2. TypeOK /\ LifeInv /\ [Next]_vars => LifeInv' /\ [Life(c)!Next]_(Life(c)!vars)
  BY LifeStep
<1> QED BY <1>1, <1>2, ServerTypes, PTL DEF Spec, Life!Spec

\* And no more: whatever a session does, while it does, is an action of its
\* handler, so that Server loses nothing by having three actions for WebTTY
\* (handlers.go:81, 147-153).
THEOREM ServerTakesEverySession ==
  ASSUME TypeOK, LifeInv, NEW c \in Clients,
         NEW h \in {"running", "closingSlave", "leaving"},
         NEW s \in {"alive", "dead"},
         handler[c] \in {"running", "closingSlave"},
         handler' = [handler EXCEPT ![c] = h],
         slave' = [slave EXCEPT ![c] = s],
         UNCHANGED <<counterVars, options, once, cancelled, gracefulDone,
                     runVars, mainVars>>,
         Life(c)!Next
  PROVE  Handler(c)
<1> USE DEF TypeOK, LifeInv, LifeOf, Goto
<1>1. CASE Life(c)!Cancel
  BY <1>1 DEF Life!Cancel
<1>2. CASE Life(c)!End
  <2>1. handler[c] = "running" /\ h = "closingSlave" /\ s = slave[c]
    BY <1>2 DEF Life!End
  <2>2. slave' = slave
    BY <2>1
  <2> QED BY <2>1, <2>2 DEF TtyEnds, Handler
<1>3. CASE Life(c)!Die
  <2>1. slave[c] = "alive" /\ s = "dead" /\ h = handler[c]
    BY <1>3 DEF Life!Die
  <2>2. handler' = handler
    BY <2>1
  <2> QED BY <2>1, <2>2 DEF SlaveExits, Handler
<1>4. CASE Life(c)!Close
  <2>1. /\ handler[c] = "closingSlave" /\ h = "leaving"
        /\ slave[c] = "dead" /\ s = "dead"
    BY <1>4 DEF Life!Close
  <2>2. slave' = slave
    BY <2>1
  <2> QED BY <2>1, <2>2 DEF CloseReturns, Handler
<1> QED BY <1>1, <1>2, <1>3, <1>4 DEF Life!Next
=============================================================================
