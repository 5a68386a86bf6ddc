SPECIFICATION Spec
CONSTANTS
    Senders = {t1, t2}
    HttpSenders = {t1, t2}
    Pulls = {p1}
    Conversations = {c1, c2}
    Markers = {0}
    Filters = {{c1}, {c1, c2}}
    Capacity = 3
    MaxMessages = 3
INVARIANTS
    NothingSkipped
\* The server may die of a panic, and the bounds run out.
CHECK_DEADLOCK FALSE
