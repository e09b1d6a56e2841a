\* The operator may leave the batch alone, and does not start more workers.
SPECIFICATION MCSpec
CONSTANTS
    w1 = w1
    w2 = w2
    Workers = {w1, w2}
    NoWorker = none
    Last = 2
    Versions = {1, 2}
    Modes = {"full", "predict"}
    MaxFaults = 2
INVARIANTS
    OrderKept
    SuccessMeansDone
    OneAttemptAtATime
PROPERTIES
    RunsAsPrepared
    BatchEnds
CHECK_DEADLOCK FALSE
