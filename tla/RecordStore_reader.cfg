\* A lock-free reader beside an editor; calls return under weak fairness.
SPECIFICATION FairSpec
CONSTANTS
    empty = empty
    small = small
    big = big
    Names = {n1}
    Payloads = {empty, big}
    Size <- MCSize
    Limits = {1, 2}
    Procs = {p1}
    Readers = {r1}
    Missing = Missing
    Other = Other
    NoProc = NoProc
    NoData = NoData
INVARIANTS ReadLinearizable
PROPERTIES CallsReturn
