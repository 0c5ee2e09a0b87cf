SPECIFICATION Spec
CONSTANTS
    Users = {u1}
    Passwords = {p1, p2}
    Calls = {c1, c2, c3, c4}
    None = None
    Life = 2
    MaxTime = 2
    MaxFaults = 1
SYMMETRY Symmetry
INVARIANTS
    TypeOK
    PasswordEndsSessions
    DeletionEndsSessions
    OneSessionPerLogin
PROPERTIES
    UsedTokenStaysOut
CHECK_DEADLOCK FALSE
