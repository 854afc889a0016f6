-------------------------- MODULE GracefulShutdown --------------------------
(***************************************************************************)
(* What a graceful shutdown promises: requests are admitted and answered   *)
(* one by one; the server is stopped only at a moment when none is in      *)
(* flight, and admits none afterwards.                                     *)
(***************************************************************************)
CONSTANT Reqs

VARIABLES
  inflight,  \* admitted and not answered yet
  answered,
  stopped

vars == <<inflight, answered, stopped>>

Init == inflight = {} /\ answered = {} /\ stopped = FALSE

Admit(r) ==
  /\ ~stopped
  /\ r \notin inflight \cup answered
  /\ inflight' = inflight \cup {r}
  /\ UNCHANGED <<answered, stopped>>

Finish(r) ==
  /\ r \in inflight
  /\ inflight' = inflight \ {r}
  /\ answered' = answered \cup {r}
  /\ UNCHANGED stopped

Stop ==
  /\ inflight = {}
  /\ stopped' = TRUE
  /\ UNCHANGED <<inflight, answered>>

Next == Stop \/ \E r \in Reqs : Admit(r) \/ Finish(r)

Spec == Init /\ [][Next]_vars
=============================================================================
