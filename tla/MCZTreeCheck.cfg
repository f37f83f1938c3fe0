CONSTANTS
    hidden = hidden
    MaxNode = 4
    Settings <- PageSettings
    Start <- Starts
    Unlisted = {hidden}
    MaxEdits = 1
SPECIFICATION Spec
INVARIANTS
    ChecksAreSound
PROPERTIES
    DisabledKeepTheirMark
    ClickChangesOneGrant
    ClickKeepsHierarchy
CHECK_DEADLOCK FALSE
