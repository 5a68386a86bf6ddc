SPECIFICATION LiveSpec
CONSTANTS
    Senders = {t1, t2}
    HttpSenders = {t1}
    Pulls = {p1}
    Conversations = {c1, c2}
    Markers = {1}
    Filters = {{c1}}
    Capacity = 1
    MaxMessages = 3
INVARIANTS
    TypeOK
    SendNeverWaits
    NothingLost
PROPERTIES
    ImplementsFeed
    WantedIsDelivered
\* The server may die of a panic, and the bounds run out.
CHECK_DEADLOCK FALSE
