--------------------------- MODULE MCTokenBudget ----------------------------
(* An instance of TokenBudget for TLC. *)
EXTENDS TokenBudget, TLC

CONSTANTS a, b, t

\* Two attempts of one request.
MCRetried == (a :> t) @@ (b :> t)

MCPredicted == (a :> 2) @@ (b :> 1)

\* The second attempt begins once the first is no longer generating, and not
\* beside faults.
MCSecondAfterFirst ==
    phase[b] = "new" \/ (faults = 0 /\ phase[a] \notin {"new", "armed"})
=============================================================================
