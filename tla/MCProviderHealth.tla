-------------------------- MODULE MCProviderHealth --------------------------
(* Instances of ProviderHealth for TLC. *)
EXTENDS ProviderHealth, TLC

\* Replicas are interchangeable.
MCReplicas == Permutations(Replicas)

EventsSoFar ==
    used["results"] + used["probes"] + used["resets"] + used["configs"]
        + used["faults"] + (IF row = None THEN 1 ELSE 0)

\* Any two results, probes, resets, changes, failures and deletions, or a
\* result, a reset and a failure.
MCFewEvents ==
    \/ EventsSoFar <= 2
    \/ /\ EventsSoFar <= 3
       /\ used["results"] <= 1 /\ used["probes"] = 0 /\ used["configs"] = 0
       /\ row # None
=============================================================================
