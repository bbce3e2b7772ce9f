------------------------------ MODULE TaskPool ------------------------------
(***************************************************************************)
(* What the worker pool promises its callers, without queues, counters or  *)
(* threads: an offered task is accepted or rejected once, an accepted task *)
(* runs at most once, at most MaxRunning tasks run together, and nothing   *)
(* runs after the pool is closed.  It does not promise that an accepted    *)
(* task runs: one accepted while the pool closes may be left behind.       *)
(***************************************************************************)
EXTENDS Naturals, FiniteSets

CONSTANTS Tasks, MaxRunning

VARIABLES status, closed

Status == {"offered", "accepted", "running", "done", "rejected"}
Having(s) == {t \in Tasks : status[t] = s}

Init == status = [t \in Tasks |-> "offered"] /\ closed = FALSE

Move(S, from, to) ==
    /\ S # {} /\ S \subseteq Having(from)
    /\ status' = [t \in Tasks |-> IF t \in S THEN to ELSE status[t]]
    /\ UNCHANGED closed

Accept(t) == Move({t}, "offered", "accepted")
Reject(S) == Move(S, "offered", "rejected")
Begin(t)  == /\ ~closed
             /\ Cardinality(Having("running")) < MaxRunning
             /\ Move({t}, "accepted", "running")
End(t)    == Move({t}, "running", "done")
Close     == /\ Having("running") = {}
             /\ closed' = TRUE
             /\ UNCHANGED status

Next ==
    \/ \E t \in Tasks : Accept(t) \/ Begin(t) \/ End(t)
    \/ \E S \in SUBSET Tasks : Reject(S)
    \/ Close

Spec == Init /\ [][Next]_<<status, closed>>
=============================================================================
