SPECIFICATION Spec
CONSTANTS
    None = None
    Users = {u1, u2}
    Workspaces = {w1}
    Requests = {r1}
    PayloadRoles = {"owner", "admin", "agent"}
    InvitationTTL = 0
    MaxMembers = 3
    MaxInvitations = 2
    MaxTime = 1
PROPERTIES
    ImplementsWorkspaceRoster
    InvitationJoinsOnce
CHECK_DEADLOCK FALSE
