SPECIFICATION Spec
CONSTANTS
    Versions = {v1, v2}
    Generations = {g1, g2}
    AclJobs = {j1}
    AclValues = {acl0, acl1}
    DefaultAcl = acl0
    DeleteJobs = {}
    FirstDelete = None
    MaxFaults = 0
    None = None
INVARIANT FailedReplacementKeepsServing
CHECK_DEADLOCK FALSE
