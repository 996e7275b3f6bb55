\* Two processes, two versions sharing the view and a file without one, failures and deaths.
SPECIFICATION FairSpec
CONSTANTS
    Versions = {v1, v2, v3}
    FileVersions = {v3}
    Viewless = {v3}
    Procs = {p1, p2}
    Attempts = 2
    Failing <- MCFailing
    MaxRuns = 3
    None = None
INVARIANTS InstalledIsPublished ViewIsPublished NoLostCommit
PROPERTIES CommandsReturn
CHECK_DEADLOCK FALSE
