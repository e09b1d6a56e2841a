\* The judge of locomo.
SPECIFICATION CallSpec
CONSTANTS
    Adapters = {"locomo"}
    MaxRetries = 1
    MaxResponseRetries = 1
    Interval = 2
    Criteria = 2
    MaxCalls = 1
INVARIANT
    VerdictAsGiven
CHECK_DEADLOCK FALSE
