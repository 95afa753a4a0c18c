------------------------- MODULE ExpansionPromise --------------------------
(***************************************************************************)
(* What ExpansionPool promises its callers (src/src/ical-worker-pool.ts,   *)
(* the comments of runOn, runOnEach and close), whatever workers do: every *)
(* object of a request gets one outcome and keeps it, and a closed pool    *)
(* owes nobody anything and accepts nothing.                               *)
(***************************************************************************)
CONSTANT Task
VARIABLES outcome, closed

Settled == {"resolved", "failed", "timedOut", "poolClosed"}

\* What one step may do to the outcome of a task.
Allowed(t) ==
  \/ outcome'[t] = outcome[t]
  \/ outcome[t] = "unsent" /\ outcome'[t] = "pending" /\ ~closed'
  \/ /\ outcome[t] \in {"unsent", "pending"}
     /\ outcome'[t] \in Settled
     /\ outcome'[t] = "poolClosed" <=> closed'

Init ==
  /\ outcome = [t \in Task |-> "unsent"]
  /\ closed = FALSE

Next ==
  /\ closed => closed'
  /\ outcome' \in [Task -> {"unsent", "pending"} \cup Settled]
  /\ \A t \in Task : Allowed(t)
  /\ closed' => \A t \in Task : outcome'[t] # "pending"

Safety == Init /\ [][Next]_<<outcome, closed>>

\* Every object handed to the pool is settled: as an outcome is kept, and there are
\* finitely many, it is the same that again and again nobody waits for one.
Answered == []<>(\A t \in Task : outcome[t] # "pending")

Spec == Safety /\ Answered
=============================================================================
