CONSTANTS
    r1 = r1
    r2 = r2
    s1 = s1
    s2 = s2
    p1 = p1
    p2 = p2
    Username = {"alice", "bob"}
    UserId = {1, 2}
    AppKey = {"server", "other"}
    AppId = {1}
    Role = {r1, r2}
    Resource = {s1, s2}
    Permission = {p1, p2}
    NoPermission = "none"
    ServerKey = "server"
    RoleLists <- MCRoleLists
    Databases <- MCDatabases
    MaxEdits = 3
SPECIFICATION Spec
INVARIANTS
    AnswersAreSound
    NothingHeldIsMissed
    FailuresAreExplained
PROPERTY LookupEnds
