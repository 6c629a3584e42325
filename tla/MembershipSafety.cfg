SPECIFICATION Spec
CONSTANTS
    None = None
    Users = {u1, u2}
    Workspaces = {w1, w2}
    Requests = {r1, r2}
    PayloadRoles = {"owner", "agent"}
    InvitationTTL = 0
    MaxMembers = 3
    MaxInvitations = 2
    MaxTime = 0
SYMMETRY Symmetry
INVARIANTS
    TypeOK
    MembersAreInvited
PROPERTIES
    RowsChangeAsRead
CHECK_DEADLOCK FALSE
