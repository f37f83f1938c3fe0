CONSTANTS
    a1 = a1
    a2 = a2
    Admin = {a1}
    Founders <- MCFounders
    PathWidth = 4
    MaxId = 5
    MaxMoves = 2
SPECIFICATION Spec
INVARIANT MovesKeepTheTree
