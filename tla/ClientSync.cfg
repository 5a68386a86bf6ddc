SPECIFICATION LiveSpec
CONSTANTS
    Conversations = {mine, foreign}
    Visible = {mine}
    Connections = {n1, n2}
    MaxMessages = 3
INVARIANTS
    TypeOK
    NoDuplicates
    KnownIsShown
    OnlyOvertakenMissed
    ShownInServerOrder
PROPERTIES
    EventuallyShown
