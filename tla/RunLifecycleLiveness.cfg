SPECIFICATION FairSpec
CONSTANTS
    u1 = u1
    u2 = u2
    a1 = a1
    a2 = a2
    NoAnswer = NoAnswer
    Units <- TwoUnits
    Answers <- OneAnswer
    Damageable <- Recoverable
    MaxAttempts = 4
    MaxFaults = 2
PROPERTY
    EventuallyCompleted
