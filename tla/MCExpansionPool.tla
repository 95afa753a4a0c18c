-------------------------- MODULE MCExpansionPool --------------------------
(***************************************************************************)
(* ExpansionPool for TLC: requests and objects chosen so that two requests *)
(* hold the same object, one request has more objects than there are       *)
(* workers, and one more thread than slots exists, so that a terminated    *)
(* worker may still answer while its replacement works.                    *)
(***************************************************************************)
EXTENDS ExpansionPool, TLC

CONSTANTS a, b

\* A request that names an object twice, and another that shares it.
TwoRequests == "p" :> <<a, b, b>> @@ "q" :> <<b>>

(***************************************************************************)
(* Fairness: node delivers a worker's messages and exit, timers fire, and  *)
(* a worker that loads becomes ready or exits.  No worker need ever answer *)
(* and no request need be made.                                            *)
(***************************************************************************)
Loaded(w) == pool.slot[w] = "loading" /\ (ReadyStep(w) \/ ExitStep(w))

Fairness ==
  /\ \A r \in Requests : WF_vars(Submitting(r) /\ SubmitStep(r))
  /\ \A w \in Workers : WF_vars(TimeoutStep(w)) /\ WF_vars(Loaded(w))

FairSpec == Spec /\ Fairness

\* Every object handed to the pool is settled, though no worker ever answers.
EveryTaskSettles == Promise!Answered
=============================================================================
