---------------------------- MODULE MCNodeTasks ----------------------------
(* Small instances of NodeTasks for TLC.                                   *)
EXTENDS NodeTasks, TLC

CONSTANTS t1, t2, n1, n2, s1, s2, l1, l2, l3, a1

\* t1 is a chat task, which may be requeued; t2 a managed native one, which
\* may be cancelled while it is leased. Every session serves both.
MCKind == [t \in Tasks |-> IF t = t1 THEN "chat" ELSE "managed"]

MCServes == [s \in Sessions |-> Tasks]

\* One task of either kind: the two are explored one after the other, not
\* interleaved (they share no row but the node's and the session's).
OneTask == Cardinality({t \in Tasks : task[t] # NoTask}) <= 1

\* The identities of leases, nodes and sessions are interchangeable.
Symm ==
    Permutations(Leases) \cup Permutations(Nodes) \cup Permutations(Sessions)
=============================================================================
