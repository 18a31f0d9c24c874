SPECIFICATION Spec
CONSTANTS
    Lines = {l1, l2}
    Absent = Absent
    Torn = Torn
    Piece = Piece
    MaxFrames = 4
    MaxFaults = 3
INVARIANTS
    TypeOK
    GivenIsKept
PROPERTY
    KeepsContract
