-------------------------------- MODULE Sums --------------------------------
(***************************************************************************)
(* Sums over the rows of a table whose keys are numbered.                  *)
(***************************************************************************)
EXTENDS Integers

\* SUM(weight[i]) for i from 1 to n.
Sum(weight, n) ==
    LET upTo[i \in 0..n] == IF i = 0 THEN 0 ELSE upTo[i - 1] + weight[i]
    IN  upTo[n]
=============================================================================
