\* Every part ends once its units are done.
SPECIFICATION MCSpec
CONSTANTS
    Runs = {"r1", "r2"}
    LastUnit = 2
    LastBatch = 2
    LastQuestion = 1
    Window = 1
    Frameworks = {"dmf", "mem0"}
    Schemas = {2, 3}
    MaxFaults = 3
    LightMemEvents = 2
    LightMemEntries = 4
    LightMemFaults = 2
    AMemEvents = 3
    DirectResults = 2
    LinkedResults = 1
    MaxResults = 3
    AMemFaults = 1
INVARIANTS
    AnsweredFromWholeMemory
    OriginsAreExact
    RetentionHonoured
    KeptMemoryStays
PROPERTY
    EveryUnitIsDone
CHECK_DEADLOCK FALSE
