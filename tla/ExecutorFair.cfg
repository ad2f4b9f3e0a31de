SPECIFICATION ExecutorFairSpec
CONSTANTS
    a = a
    b = b
    q1 = q1
    q2 = q2
    q3 = q3
    Requests = {q1, q2, q3}
    Plan <- MCPlan
    Retries = 1
    OpenAi = {a}
    Native = {q2, q3}
    Idempotent = {q3}
    SlotLimit = 1
    MaxFaults = 1
CONSTRAINTS MCFewRequests MCEarlyFaults MCKeyedRuns
INVARIANTS
    NotSentTwice
    OneAnswer
    AccountsTreatedFairly
PROPERTIES
    RequestsEnd
    SlotsReturn
CHECK_DEADLOCK FALSE
