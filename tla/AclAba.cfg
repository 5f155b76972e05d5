SPECIFICATION Spec
CONSTANTS
    Versions = {v1}
    Generations = {g1}
    AclJobs = {j1, j2}
    AclValues = {acl0, acl1}
    DefaultAcl = acl0
    DeleteJobs = {}
    FirstDelete = None
    MaxFaults = 1
    None = None
INVARIANT ServedAclCurrent
CHECK_DEADLOCK FALSE
