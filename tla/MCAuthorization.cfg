CONSTANTS
    a1 = a1
    a2 = a2
    u1 = u1
    u2 = u2
    r1 = r1
    r2 = r2
    Admin = {a1, a2}
    User = {u1, u2}
    App = {"app"}
    Role = {r1, r2}
    FormRoles <- MCFormRoles
    ColumnWidth = 2
    MaxId = 2
SPECIFICATION Spec
SYMMETRY Symmetry
INVARIANTS
    TypeOK
    OneRowPerPair
    GrantsWereSubmitted
PROPERTIES
    MergeKeepsWhatItRead
    RowsVanishByDeleteOnly
