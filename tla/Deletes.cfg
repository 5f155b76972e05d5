SPECIFICATION Spec
CONSTANTS
    Versions = {v1, v2}
    Generations = {g1, g2}
    AclJobs = {}
    AclValues = {acl0}
    DefaultAcl = acl0
    DeleteJobs = {d1, d2, d3}
    FirstDelete = d1
    MaxFaults = 1
    None = None
INVARIANTS
    DeletedLeavesNothing
CONSTRAINT AtMostThree
SYMMETRY Symmetry
CHECK_DEADLOCK FALSE
