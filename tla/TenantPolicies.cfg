SPECIFICATION Spec
CONSTANTS
    None = None
    Blank = Blank
    Users = {u1, u2}
    Workspaces = {w1}
    Requests = {r1, r2}
    Connections = {c1, c2}
    Roles = {"owner", "bound"}
SYMMETRY Symmetry
INVARIANTS
    TypeOK
    PoliciesConfine
    BindingEndsWithTransaction
