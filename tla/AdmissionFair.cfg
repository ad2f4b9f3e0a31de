SPECIFICATION AdmissionFairSpec
CONSTANTS
    a1 = a1
    a2 = a2
    b1 = b1
    c1 = c1
    ka = ka
    kb = kb
    kc = kc
    Callers = {a1, a2, b1, c1}
    Key <- MCKey
    None = None
    Total = 2
    PerKey = 1
    QueueLimit = 2
    QueuePerKey = 2
CONSTRAINT MCThirdCompetes
INVARIANT AdmissionInvariant
PROPERTY QueuedIsServed
