CONSTANTS
    n1 = n1
    n2 = n2
    n3 = n3
    n4 = n4
    None = None
    Node = {n1, n2, n3, n4}
    FirstRows <- PageRows
    Branches = {}
    Expandable = TRUE
    InitialState = "collapsed"
    MaxLoad = 1
    MaxEdits = 3
SPECIFICATION Spec
INVARIANTS
    ChildrenNameTheirParent
    TableIsSound
    RowsShowTheTree
PROPERTIES
    ImplementsForest
