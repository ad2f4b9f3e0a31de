SPECIFICATION ExecutorSpec
CONSTANTS
    a = a
    b = b
    q1 = q1
    q2 = q2
    q3 = q3
    Requests = {q1}
    Plan <- MCPlan
    Retries = 1
    OpenAi = {}
    Native = {q1}
    Idempotent = {q1}
    SlotLimit = 1
    MaxFaults = 0
INVARIANTS KeyStaysWithAccount
CHECK_DEADLOCK FALSE
