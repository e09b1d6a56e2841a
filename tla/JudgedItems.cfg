\* A run ends when it is reported, a client after its calls.
SPECIFICATION MCSpec
CONSTANTS
    LastQuery = 2
    LastJudge = 2
    Primary = 2
    MaxFaults = 3
    Adapters = {"answerer", "locomo", "longmemeval", "memoryagentbench", "beam"}
    MaxRetries = 2
    MaxResponseRetries = 1
    Interval = 3
    Criteria = 2
    MaxCalls = 2
INVARIANTS
    ReportedAsJudged
    NeverFlattered
    RequestsSpaced
PROPERTIES
    VerdictStands
    AllJudged
CHECK_DEADLOCK FALSE
