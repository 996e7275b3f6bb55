\* A deactivation beside a repair.
SPECIFICATION Spec
CONSTANTS
    Versions = {v1}
    FileVersions = {}
    Viewless = {}
    Procs = {p1, p2}
    Attempts = 2
    Failing = {}
    MaxRuns = 3
    None = None
PROPERTY RepairDoesNotResurrect
CHECK_DEADLOCK FALSE
