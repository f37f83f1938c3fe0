CONSTANTS
    a1 = a1
    a2 = a2
    Admin = {a1, a2}
    Founders <- MCFounders
    PathWidth = 4
    MaxId = 5
    MaxMoves = 1
SPECIFICATION Spec
SYMMETRY Symmetry
INVARIANT PathsAreSound
