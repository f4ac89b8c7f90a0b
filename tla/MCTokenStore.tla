---------------------------- MODULE MCTokenStore ----------------------------
(* Small instances of TokenStore for TLC. *)
EXTENDS TokenStore, TLC

CONSTANTS t1, t2, c1, c2, c3

\* Two connections race for one token; the third has one to itself.
Shared == c1 :> {t1} @@ c2 :> {t1} @@ c3 :> {t2}

\* Each cache, with a duration shorter than the default, with none and with a
\* negative one.
AllSettings == [backend : {"mem", "redis"}, ttl : {-2, 0, 1, 2}]

MemSettings == {[backend |-> "mem", ttl |-> 2]}
=============================================================================
