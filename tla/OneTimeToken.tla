---------------------------- MODULE OneTimeToken ----------------------------
(***************************************************************************)
(* What the token API promises (README.md:124): a token opens at most one  *)
(* terminal, and one that is not used becomes invalid by itself.           *)
(***************************************************************************)
CONSTANTS Tokens, Conns

VARIABLES
  state,   \* of each token: "unused", "valid", "spent" or "invalid"
  holders  \* the connections that were given the parameters of each token

Init ==
  /\ state = [t \in Tokens |-> "unused"]
  /\ holders = [t \in Tokens |-> {}]

Move(t, from, to) ==
  /\ state[t] = from
  /\ state' = [state EXCEPT ![t] = to]

\* The API hands the token out, or answers with an error.
Grant(t) == Move(t, "unused", "valid") /\ UNCHANGED holders

Refuse(t) == Move(t, "unused", "invalid") /\ UNCHANGED holders

\* A connection opens a terminal with it.
Redeem(t, c) ==
  /\ Move(t, "valid", "spent")
  /\ holders' = [holders EXCEPT ![t] = {c}]

\* Tokens expire, or are lost with the process that kept them.
Invalidate(T) ==
  /\ \A t \in T : state[t] = "valid"
  /\ state' = [t \in Tokens |-> IF t \in T THEN "invalid" ELSE state[t]]
  /\ UNCHANGED holders

Next ==
  \/ \E t \in Tokens : Grant(t) \/ Refuse(t) \/ \E c \in Conns : Redeem(t, c)
  \/ \E T \in SUBSET Tokens : Invalidate(T)

Spec == Init /\ [][Next]_<<state, holders>>
=============================================================================
