SPECIFICATION Spec
CONSTANTS
    None = None
    Users = {u1, u2}
    Workspaces = {w1}
    Requests = {r1}
    PayloadRoles = {"owner", "agent"}
    InvitationTTL = 0
    MaxMembers = 3
    MaxInvitations = 1
    MaxTime = 0
INVARIANTS
    CreatorStays
CHECK_DEADLOCK FALSE
