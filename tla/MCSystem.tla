------------------------------ MODULE MCSystem ------------------------------
(* A small instance of System for TLC. *)
EXTENDS System

\* A cache whose requests may fail and whose entries expire, and one that a
\* restart empties.
SystemSettings ==
  {[backend |-> "redis", ttl |-> 1], [backend |-> "mem", ttl |-> 1]}

\* No side fixed, one and both, with and without reconnect.
SystemOptions ==
  [fixed : {{}, {"columns"}}, reconnect : BOOLEAN]
    \cup [fixed : {Sides}, reconnect : {FALSE}]
=============================================================================
