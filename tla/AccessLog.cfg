SPECIFICATION Spec
CONSTANTS
    None = None
    Users = {u1, u2}
    Workspaces = {w1}
    Requests = {r1, r2}
INVARIANTS
    AccessLogNamesUser
