SPECIFICATION LibrarySpec
CONSTANTS
    Docs = {d1}
    Refreshers = {f1}
    MaxDeletes = 1
    MaxLibraryFaults = 0
PROPERTY DeletionWins
CHECK_DEADLOCK FALSE
