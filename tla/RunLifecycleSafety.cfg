SPECIFICATION Spec
CONSTANTS
    u1 = u1
    u2 = u2
    a1 = a1
    a2 = a2
    NoAnswer = NoAnswer
    Units <- TwoUnits
    Answers <- TwoAnswers
    Damageable <- AnyDamage
    MaxAttempts = 5
    MaxFaults = 3
SYMMETRY Symmetry
INVARIANTS
    TypeOK
    PublishedConsistent
    StatusAgreesWithMarker
    PhasesBuildOnCurrentWork
PROPERTIES
    PublishesCurrentWork
    OnePublication
    CommittedWorkKept
CHECK_DEADLOCK FALSE
