SPECIFICATION LiveSpec
CONSTANTS
    Users = {alice, bob}
    NoUser = NoUser
    MaxDepth = 2
PROPERTIES
    ResetHolds
