\* Each part ends with its result.
SPECIFICATION MCSpec
CONSTANTS
    Requests = {"fetch", "a", "b", "fetchall"}
    Runs = {"a", "b"}
    Samplings = {"all", "fifth", "half"}
    Declarations <- MCDeclarations
    MaxFaults = 2
    RunIds = {1, 2, 3}
    Queries = {1, 2, 3}
    Frameworks = {"dmf", "full-context"}
    Experiments <- MCExperiments
    Publications <- MCPublications
    Comparisons <- BothWays
    CellPlans <- MCCellPlans
INVARIANTS
    ReadsWhatItNames
    SampleIsAsRecorded
    UsageIsWhatWasSpent
    AnalysisAccepts
    ComparedAsJudged
    FrontierDominates
    TestsAsDefined
PROPERTY
    EventuallyLoaded
CHECK_DEADLOCK FALSE
