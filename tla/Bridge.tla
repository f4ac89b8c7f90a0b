------------------------------- MODULE Bridge -------------------------------
(***************************************************************************)
(* What a terminal promises: the screen shows the output of the command in *)
(* order and without gaps, and the command receives input in the order it  *)
(* was typed, if the terminal may be written to at all.  Either stream may *)
(* stop at any point, and input may have gaps.                             *)
(***************************************************************************)
EXTENDS Integers

CONSTANT MaxOut, MaxIn

VARIABLES
  writable,  \* clients may write to the terminal
  produced,  \* the last chunk of output the command has written
  shown,     \* the last chunk of output on the screen
  typed,     \* the last unit of input typed
  fed        \* the last unit of input given to the command

vars == <<writable, produced, shown, typed, fed>>

Init ==
  /\ writable \in BOOLEAN
  /\ produced = 0
  /\ shown = 0
  /\ typed = 0
  /\ fed = 0

Produce ==
  /\ produced < MaxOut
  /\ produced' = produced + 1
  /\ UNCHANGED <<writable, shown, typed, fed>>

Show ==
  /\ shown < produced
  /\ shown' = shown + 1
  /\ UNCHANGED <<writable, produced, typed, fed>>

Type ==
  /\ typed' \in typed + 1 .. MaxIn
  /\ UNCHANGED <<writable, produced, shown, fed>>

Feed ==
  /\ writable
  /\ fed' \in fed + 1 .. typed
  /\ UNCHANGED <<writable, produced, shown, typed>>

Next == Produce \/ Show \/ Type \/ Feed

Spec == Init /\ [][Next]_vars
=============================================================================
