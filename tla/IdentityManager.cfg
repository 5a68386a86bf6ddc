SPECIFICATION Spec
SYMMETRY Renamings
CONSTANTS
    Handlers = {h1, h2}
    Folds = {{alice, Alice}, {bob}}
    Passwords = {w1, w2}
    LooksHashed = {w2}
    Certs = {d1, d2}
    NoCert = NoCert
    Tokens = {k1, k2}
    MaxUserID = 2
    Found <- MCFound
    FaultyDisk = TRUE
INVARIANTS
    TypeOK
    AccountsDistinct
    MemoryMatchesFile
    SessionsNameAccounts
    NoPlainPasswords
PROPERTIES
    ImplementsBook
