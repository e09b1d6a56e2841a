SPECIFICATION Spec
CONSTANTS
    u1 = u1
    u2 = u2
    a1 = a1
    a2 = a2
    NoAnswer = NoAnswer
    Units <- OneUnit
    Answers <- TwoAnswers
    Damageable <- NoDamage
    MaxAttempts = 2
    MaxFaults = 1
INVARIANT
    InterruptRecorded
CHECK_DEADLOCK FALSE
