-------------------------- MODULE MCRequestWindow ---------------------------
(* Instances of RequestWindow for TLC. *)
EXTENDS RequestWindow, TLC

CONSTANTS t1, t2, t3

\* Threads are interchangeable.
MCThreads == Permutations({t1, t2, t3})
=============================================================================
