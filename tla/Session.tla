------------------------------ MODULE Session -------------------------------
(***************************************************************************)
(* What a server is promised of a session from the moment its command runs:*)
(* it may end at any time, it does end when the server cancels it, its     *)
(* command then dies, and only with the command dead is it over.           *)
(***************************************************************************)

VARIABLES
  session,   \* "running", "closing" or "over"
  command,   \* "alive", or "dead" and waited for
  cancelled  \* the server wants its sessions to end

vars == <<session, command, cancelled>>

Init ==
  /\ session = "running"
  /\ command = "alive"
  /\ cancelled \in BOOLEAN

\* The server, or another of its sessions.
Cancel ==
  /\ ~cancelled
  /\ cancelled' = TRUE
  /\ UNCHANGED <<session, command>>

\* Whatever the reason.
End ==
  /\ session = "running"
  /\ session' = "closing"
  /\ UNCHANGED <<command, cancelled>>

Obey == cancelled /\ End

\* By itself, or because it is made to.
Die ==
  /\ command = "alive"
  /\ command' = "dead"
  /\ UNCHANGED <<session, cancelled>>

Close ==
  /\ session = "closing"
  /\ command = "dead"
  /\ session' = "over"
  /\ UNCHANGED <<command, cancelled>>

Next == Cancel \/ End \/ Die \/ Close

Spec == Init /\ [][Next]_vars

\* A session that runs owes nothing until it is cancelled; each step of its end
\* waits for the one before.
Fairness == WF_vars(Obey \/ (session = "closing" /\ Die) \/ Close)

FairSpec == Spec /\ Fairness
=============================================================================
