SPECIFICATION Spec
CONSTANTS
    Workers = {w1}
    Coroutines = {k1, k2}
    OpenModes = {"record", "replay", "replay_or_record"}
    MaxCalls = 4
SYMMETRY Interchangeable
INVARIANTS
    TypeOK
    MarkerHasOneHolder
    WorkersAreRecorded
    LayersRecordedOnce
