CONSTANTS
    a1 = a1
    a2 = a2
    Admin = {a1, a2}
    Username = {"alice", "bob"}
    Password = {"old", "new"}
    MaxId = 2
    MaxSalt = 4
SPECIFICATION Spec
SYMMETRY Symmetry
INVARIANTS
    TypeOK
    SaltBelongsToHash
    LastEditHolds
    LastPasswordLogsIn
