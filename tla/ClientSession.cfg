SPECIFICATION LiveSpec
CONSTANTS
    Users = {alice, bob}
    NoUser = NoUser
    MaxDepth = 3
INVARIANTS
    TypeOK
    OneAuthAtATime
    QuietWithoutProfile
    SavedProfileIsShown
    CredentialsMatchFile
PROPERTIES
    FormComesBack
