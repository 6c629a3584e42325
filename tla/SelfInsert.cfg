SPECIFICATION Spec
CONSTANTS
    None = None
    Blank = Blank
    Users = {u1, u2}
    Workspaces = {w1}
    Requests = {r1}
    Connections = {c1}
    Roles = {"bound"}
INVARIANTS
    OwnMembershipIsAdmitted
