------------------------------ MODULE MCWebTTY ------------------------------
(* Small instances of WebTTY for TLC.                                       *)
EXTENDS WebTTY, TLC

Writable == {[permitWrite |-> TRUE, fixed |-> FALSE, messages |-> 1]}

\* And a terminal that clients only look at, of a fixed size.
WritableOrNot ==
  Writable \cup {[permitWrite |-> FALSE, fixed |-> TRUE, messages |-> 2]}
=============================================================================
