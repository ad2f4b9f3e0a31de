---------------------------- MODULE MCAdmission -----------------------------
(* An instance of Admission for TLC. *)
EXTENDS Admission, TLC

CONSTANTS a1, a2, b1, c1, ka, kb, kc

\* Two callers of one tenant and one each of two others.
MCKey == (a1 :> ka) @@ (a2 :> ka) @@ (b1 :> kb) @@ (c1 :> kc)

\* The third tenant competes for capacity, while no deadline passes and the
\* controller stays open.
MCThirdCompetes == pc[c1] = "idle" \/ (~closed /\ \A c \in Callers : ~expired[c])
=============================================================================
