SPECIFICATION Spec
CONSTANTS
    u1 = u1
    u2 = u2
    a1 = a1
    a2 = a2
    NoAnswer = NoAnswer
    Units <- OneUnit
    Answers <- TwoAnswers
    Damageable <- FileDamage
    MaxAttempts = 4
    MaxFaults = 3
INVARIANT
    PlanIsCurrent
CHECK_DEADLOCK FALSE
