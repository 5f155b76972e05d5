SPECIFICATION Spec
CONSTANTS
    Versions = {v1, v2}
    Generations = {g1, g2}
    AclJobs = {j1, j2}
    AclValues = {acl0, acl1}
    DefaultAcl = acl0
    DeleteJobs = {}
    FirstDelete = None
    MaxFaults = 2
    None = None
CONSTRAINT FaultsApart
SYMMETRY Symmetry
INVARIANTS
    LifecycleInv
    PointsAccounted
    ServedPointsVisible
PROPERTY ServedAclKept
CHECK_DEADLOCK FALSE
