----------------------------- MODULE MCPayments -----------------------------
(***************************************************************************)
(* A small instance of Payments for TLC.                                   *)
(***************************************************************************)
EXTENDS Payments, FiniteSets

CONSTANTS k1, k2, k3, p1, p2

\* A redirect to Alipay, a code of Alipay and a code of WeChat.
MCOrders == {k1, k2, k3}

MCRedirect == {k1}

MCWechat == {k3}

MCHandlers == {p1, p2}

Touched ==
    {k \in Orders : order[k] # "absent"
                     \/ \E p \in Handlers : proc[p].order = k}

\* One order of either kind, and changes of its method's configuration: the
\* three are explored one after the other.
MCOneOrder ==
    /\ Cardinality(Touched) <= 1
    /\ \A k \in Touched, m \in Methods : m # Method(k) => config[m] = 0

\* Two calls fail while the configuration stays, one where it changes.
MCChangeOrFaults ==
    (\E m \in Methods : config[m] > 0) => faults <= 1
=============================================================================
