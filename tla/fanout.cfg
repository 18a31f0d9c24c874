SPECIFICATION Spec
CONSTANTS
    Callers = {c1, c2, c3}
    Questions = {p, q}
    OpenModes = {"record", "record_new", "replay", "off"}
    MaxCalls = 3
    MaxRuns = 2
    MaxFaults = 1
    None = None
SYMMETRY Interchangeable
INVARIANTS
    TypeOK
    DistinctOrdinals
    AnsweredIsTaped
    AnswerIsForThisQuestion
    OneAnswerPerRecording
    NoNeedlessRefusal
    OrderAddresses
    UnplayedExact
    DiscardLeavesNothing
PROPERTIES
    ReplayIsOffline
    ImplementsPlayback
CHECK_DEADLOCK FALSE
