\* A run ends when it is predicted, and the packing with its context.
SPECIFICATION MCSpec
CONSTANTS
    LastUnit = 2
    LastQuery = 2
    Kinds = {"index", "stateless", "external"}
    MaxFaults = 2
    Retrievals <- MCRetrievals
    Budgets = {0, 1, 3}
INVARIANTS
    CommittedFromOneIngestion
    BudgetHeld
    LargestPrefix
PROPERTIES
    CommittedStay
    AllPredicted
CHECK_DEADLOCK FALSE
