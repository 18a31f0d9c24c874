SPECIFICATION FairSpec
CONSTANTS
    Callers = {c1, c2}
    Questions = {p, q}
    OpenModes = {"record_new", "replay_or_record"}
    MaxCalls = 2
    MaxRuns = 2
    MaxFaults = 1
    None = None
PROPERTY
    EveryCallEnds
CHECK_DEADLOCK FALSE
