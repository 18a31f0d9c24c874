SPECIFICATION Spec
CONSTANTS
    plain = plain
    marked = marked
    MarkedMode = "record"
    Tests <- MCTests
    Marker <- MCMarker
    SessionModes = {"record", "record_new", "replay", "replay_or_record", "off"}
    Hosts = {local, api, other}
    Loopback = {local}
    AllowedHosts = {api}
    Original = Original
    Calls = 3
    MaxLate = 1
    MaxGuards = 2
    Absent = Absent
    None = None
INVARIANTS
    TypeOK
    
    
    NetworkFollowsTheMode
