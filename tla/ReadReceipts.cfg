SPECIFICATION Spec
CONSTANTS
    ann = ann
    bob = bob
    room = room
    Users = {ann, bob}
    NoUser = NoUser
    Conversations = {room, talk}
    NoConversation = NoConversation
    Members <- MCMembers
    Connections = {n1}
    MaxMessages = 2
INVARIANTS
    TypeOK
    OpenIsRead
    ReadStaysRead
    TicksMatchMarkers
    TicksAreTrue
    MarkSentOrKnown
    MarksCoverOnlySeen
