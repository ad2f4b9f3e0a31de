----------------------------- MODULE MCExecutor -----------------------------
(* Instances of Executor for TLC. *)
EXTENDS Executor, TLC

CONSTANTS a, b, q1, q2, q3

\* A primary account and one to fall back to.
MCPlan == <<a, b>>

Started == {q \in Requests : pc[q] # "new"}

\* One request, or q1 and q2 at their first attempt, competing for a slot.
MCFewRequests ==
    \/ Cardinality(Started) <= 1
    \/ /\ Cardinality(Started) = 2 /\ q3 \notin Started /\ faults = 0
       /\ \A q \in Requests : at[q] = 1 /\ ~gone[q] /\ allowed[q]

\* A fault in the first attempts.
MCEarlyFaults == faults = 0 \/ \A q \in Started : at[q] <= 4

\* A request with an idempotency key runs without a fault, and its client stays.
MCKeyedRuns ==
    q3 \in Started => faults = 0 /\ ~gone[q3] /\ allowed[q3]
=============================================================================
