SPECIFICATION LiveSpec
CONSTANTS
    Versions = {v1}
    Generations = {g1, g2}
    AclJobs = {}
    AclValues = {acl0}
    DefaultAcl = acl0
    DeleteJobs = {d1}
    FirstDelete = d1
    MaxFaults = 1
    None = None
    FirstVersion = v1
    FirstGeneration = g1
PROPERTIES
    IngestEnds
    DeleteEnds
CHECK_DEADLOCK FALSE
