SPECIFICATION Spec
CONSTANTS
    Callers = {c1, c2}
    Questions = {p, q}
    OpenModes = {"record", "replay_or_record"}
    MaxCalls = 2
    MaxRuns = 2
    MaxFaults = 0
    None = None
SYMMETRY Interchangeable
INVARIANT
    DistinctOrdinals
CHECK_DEADLOCK FALSE
