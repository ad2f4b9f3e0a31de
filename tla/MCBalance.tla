----------------------------- MODULE MCBalance -----------------------------
(***************************************************************************)
(* Small instances of Balance for TLC.                                     *)
(***************************************************************************)
EXTENDS Balance, TLC

CONSTANTS o1, o2, o3

MCOwners == {o1, o2, o3}

MCAmounts == 0..2

\* The tokens of attempts are interchangeable.
MCSymmetry == Permutations(Owners)
=============================================================================
