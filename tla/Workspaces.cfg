SPECIFICATION Spec
CONSTANTS
    u1 = u1  u2 = u2  u3 = u3
    w1 = w1  w2 = w2  w3 = w3
    r1 = r1  r2 = r2  none = none
    Users <- ThreeUsers
    Workspaces <- ThreeWorkspaces
    Managed <- OneWorkspace
    Grants <- AskedRoles
    Requests <- TwoRequests
    MaxJoins = 2
    None = none
SYMMETRY Symmetry
INVARIANTS OwnerStays SignupWhole
PROPERTIES Authorised
