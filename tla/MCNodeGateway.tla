--------------------------- MODULE MCNodeGateway ---------------------------
(* Small instances of NodeGateway for TLC.                                 *)
EXTENDS NodeGateway, TLC

CONSTANTS t1, t2, n1, s1, s2, l1, l2, a1

\* t1 is a chat task, t2 a managed native one; every session serves both.
MCKind == [t \in Tasks |-> IF t = t1 THEN "chat" ELSE "managed"]

MCServes == [s \in Sessions |-> Tasks]

\* One worker.
MCHome == [s \in Sessions |-> n1]

\* One task of either kind: the two are explored one after the other.
OneTask == Cardinality({t \in Tasks : task[t] # NoTask}) <= 1

\* The first claim draws l1: lease identities are interchangeable, and this
\* says so where liveness rules out symmetry.
LeasesInOrder == grant[l2] # NoGrant => grant[l1] # NoGrant
=============================================================================
