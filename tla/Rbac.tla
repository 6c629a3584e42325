-------------------------------- MODULE Rbac --------------------------------
(***************************************************************************)
(* Roles and permissions of app/core/rbac.py.                              *)
(***************************************************************************)

WorkspaceRole == {"owner", "admin", "manager", "agent", "viewer"}

ROLE_PERMISSIONS ==
    [role \in WorkspaceRole |->
        {"view"} \cup
        (IF role \in {"owner", "admin"}
            THEN {"edit_settings", "manage_members"} ELSE {}) \cup
        (IF role = "owner" THEN {"delete"} ELSE {})]

(* A caller without a membership row has no role, and no permission.       *)
role_has_permission(role, permission) ==
    role \in WorkspaceRole /\ permission \in ROLE_PERMISSIONS[role]
=============================================================================
