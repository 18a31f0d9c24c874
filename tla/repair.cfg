SPECIFICATION Spec
CONSTANTS
    Callers = {c1}
    Questions = {p, q}
    OpenModes = {"record", "replay", "replay_or_record"}
    MaxCalls = 3
    MaxRuns = 3
    MaxFaults = 2
    None = None
SYMMETRY InterchangeableQuestions
INVARIANTS
    ServedOnce
    DistinctOrdinals
    AnswerIsForThisQuestion
    HeadIsKept
    HeadIsCutOnce
    StaleTailIsGone
    NothingDroppedSilently
    CacheMirrorsStore
CHECK_DEADLOCK FALSE
