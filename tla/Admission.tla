----------------------------- MODULE Admission ------------------------------
(***************************************************************************)
(* What a server promises about whom it lets in: as many clients at a time *)
(* as --max-connection says, one in its life with --once, none once it has *)
(* been closed, and an end that waits for those who are in.                *)
(***************************************************************************)
EXTENDS Integers, FiniteSets

CONSTANT Clients

VARIABLES
  max,     \* --max-connection, 0 for no limit
  single,  \* --once
  client,  \* of each client: "out", "waiting" to get in, "in", or "left"
  closed,  \* nobody gets in any more
  over     \* the server waits for nobody any more

In == {c \in Clients : client[c] = "in"}

Init ==
  /\ max \in Int
  /\ single \in BOOLEAN
  /\ client = [c \in Clients |-> "out"]
  /\ closed = FALSE
  /\ over = FALSE

Move(c, from, to) ==
  /\ client[c] = from
  /\ client' = [client EXCEPT ![c] = to]
  /\ UNCHANGED <<max, single, closed, over>>

\* With --once the first to ask is the only one.
Ask(c) ==
  /\ single => \A d \in Clients : client[d] = "out"
  /\ Move(c, "out", "waiting")

Enter(c) ==
  /\ ~closed
  /\ max # 0 => Cardinality(In) < max
  /\ Move(c, "waiting", "in")

\* A client leaves, gives up waiting, or is turned away, with --once for good.
Leave(c) ==
  \/ Move(c, "in", "left")
  \/ Move(c, "waiting", "left")
  \/ ~single /\ Move(c, "out", "left")

Close ==
  /\ closed' = TRUE
  /\ UNCHANGED <<max, single, client, over>>

End ==
  /\ closed
  /\ In = {}
  /\ over' = TRUE
  /\ UNCHANGED <<max, single, client, closed>>

Next ==
  \/ \E c \in Clients : Ask(c) \/ Enter(c) \/ Leave(c)
  \/ Close
  \/ End

Spec == Init /\ [][Next]_<<max, single, client, closed, over>>
=============================================================================
