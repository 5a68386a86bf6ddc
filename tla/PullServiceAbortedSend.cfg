SPECIFICATION Spec
CONSTANTS
    Senders = {t1}
    HttpSenders = {t1}
    Pulls = {p1}
    Conversations = {c1, c2}
    Markers = {0}
    Filters = {{c1}, {c1, c2}}
    Capacity = 1
    MaxMessages = 1
INVARIANTS
    StoredSendReturns
\* The server may die of a panic, and the bounds run out.
CHECK_DEADLOCK FALSE
