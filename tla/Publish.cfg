SPECIFICATION Spec
CONSTANTS
    Versions = {v1, v2, v3}
    Generations = {g1, g2, g3}
    AclJobs = {}
    AclValues = {acl0}
    DefaultAcl = acl0
    DeleteJobs = {}
    FirstDelete = None
    MaxFaults = 0
    None = None
SYMMETRY Symmetry
PROPERTIES
    PublishedOnlyByDesired
    ImplementsPublished
CHECK_DEADLOCK FALSE
