SPECIFICATION Spec
CONSTANTS
    Conversations = {mine, foreign}
    Visible = {mine}
    Connections = {n1, n2}
    MaxMessages = 3
INVARIANTS
    NothingMissed
