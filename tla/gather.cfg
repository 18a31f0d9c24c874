SPECIFICATION Spec
CONSTANTS
    Workers = {}
    Coroutines = {k1, k2}
    OpenModes = {"replay"}
    MaxCalls = 2
INVARIANT
    ReplayNeverAsks
