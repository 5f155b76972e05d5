SPECIFICATION ControlSpec
CONSTANTS
    MaxJobs = 1
    DispatchLimit = 1
    ReconcileLimit = 1
    MaxCancels = 0
    Malformed = {}
    MaxFaults = 1
PROPERTY LostIsRepaired
CHECK_DEADLOCK FALSE
