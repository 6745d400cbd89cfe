CONSTANTS
    Requests = {r1, r2}
    OldRows = {o1, o2}
    o1 = o1
    o2 = o2
    First = First
    Users = {u1, u2}
    u1 = u1
    u2 = u2
    None = None
    RoleSets <- Roles
    CustomRoles = {"helper"}
    PermissionSets <- Allowed
    MembershipLimit = 3
    InvitationLimit = 2
    MaximumTeams = 2
    MaximumRoles = 2
    OrganizationLimit = 2
    MaximumTeamMembers = 1
    Adapters = {"memory", "sql"}
    Configs <- OptionPairs
    Beginnings <- FourBeginnings
SYMMETRY Symmetry
SPECIFICATION Spec
CHECK_DEADLOCK FALSE
INVARIANTS MemberOnce DeletedLeavesNothing
PROPERTIES OwnerRemains OwnershipGranted DeclinedStays
