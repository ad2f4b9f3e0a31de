---------------------------- MODULE MCSettlement ---------------------------
(***************************************************************************)
(* Small instances of Settlement for TLC: one billing request, whose two   *)
(* attempts settle in the two ways there are.                              *)
(***************************************************************************)
EXTENDS Settlement

CONSTANTS o1, o2, w1, w2, l1, l2

MCOwners == {o1, o2}

MCAmounts == 0..1

MCRequestOf == [o \in Owners |-> 1]

MCPath == [o \in Owners |-> IF o = o1 THEN "immediate" ELSE "responses"]

MCTwoWorkers == {w1, w2}

MCTwoLeases == {l1, l2}

\* Usage costs something; free usage is among the amounts of MCBalance.
MCUsageCosts == \A x \in Actors : job[x].amount # 0

\* A second worker works on what one attempt left behind, or a second
\* attempt of the request runs beside one worker and no administrator.
MCFewActors ==
    \/ job[o1].pc = "idle"
    \/ job[w2].pc = "idle" /\ ~resv[1].administrative
=============================================================================
