------------------------------ MODULE MCServer ------------------------------
(* Small instances of Server for TLC. *)
EXTENDS Server, TLC

\* No limit, or one of one or two, each with the idle timer off and on; a
\* negative limit and a negative timer; and --once with and without either.
SafetyConfigs ==
  [once : {FALSE}, max : {0, 1, 2}, timeout : {0, 1}]
    \cup {[once |-> FALSE, max |-> -1, timeout |-> 0],
          [once |-> FALSE, max |-> 0, timeout |-> -1]}
    \cup [once : {TRUE}, max : {0, 1}, timeout : {0, 1}]

\* One process of each kind that ends in a way of its own: by its idle timer,
\* by --once, by a signal only.
StopConfigs ==
  {[once |-> FALSE, max |-> 0, timeout |-> 1],
   [once |-> TRUE, max |-> 0, timeout |-> 0],
   [once |-> FALSE, max |-> 1, timeout |-> 0]}

PlainConfigs == {[once |-> FALSE, max |-> 0, timeout |-> 0]}

Symmetry == Permutations(Clients)
=============================================================================
