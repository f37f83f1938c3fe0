CONSTANTS
    name = name
    mail = mail
    box = box
    DependsOn <- MailOnBox
    Field = {name, mail, box}
    Required = {name, mail, box}
    Remote = {name, mail}
    Checkable = {box}
    Value = {empty, short, free, taken}
    Empty = empty
    Bad = {short}
    Taken = {taken}
    None = None
    MaxChanges = 4
    MaxPresses = 2
SPECIFICATION Spec
INVARIANTS
    ValidatorIsSound
    FormsSentAreRight
    FormsAreSubmitted
PROPERTIES
    PressIsDecided
CHECK_DEADLOCK FALSE
