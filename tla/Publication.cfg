\* A kill may leave a directory without a manifest: nothing happens to it.
SPECIFICATION MCSpec
CONSTANTS
    Files = {"evaluations", "reports"}
    d1 = d1
    d2 = d2
    x1 = x1
    x2 = x2
    Derivers = {d1, d2}
    Exporters = {x1, x2}
    MaxFaults = 4
    MaxReruns = 1
PROPERTIES
    OnePublishedContent
    SumsAreOfTheArchive
    MarkerIsLast
    EventuallyPublished
CHECK_DEADLOCK FALSE
