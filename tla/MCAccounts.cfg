SYMMETRY Symmetry
SPECIFICATION Spec
CONSTANTS
    Users = {u1, u2}
    Orgs = {o1, o2, o3}
    Invites = {i1}
    Requests = {r1, r2}
    InvitedRoles = {"OPERATOR"}
    None = None
INVARIANTS ActiveIsMembership OneDefault OwnerKeepsOrganization
CHECK_DEADLOCK FALSE
