SPECIFICATION Spec
CONSTANTS
    None = None
    Users = {u1}
    ActiveUsers = {u1}
    Passwords = {p1}
    Requests = {r1, r2}
    RefreshTTL = 0
    ResetTTL = 0
    MaxTokens = 3
    MaxResets = 0
    MaxTime = 0
SYMMETRY Symmetry
PROPERTIES
    RotatedTokenIsNotRotated
