\* Two editors of two records, payloads at and above the limit.
SPECIFICATION Spec
CONSTANTS
    empty = empty
    small = small
    big = big
    Names = {n1, n2}
    Payloads = {small, big}
    Size <- MCSize
    Limits = {1}
    Procs = {p1, p2}
    Readers = {}
    Missing = Missing
    Other = Other
    NoProc = NoProc
    NoData = NoData
SYMMETRY MCSymmetry
INVARIANTS NoTornRecord SessionIsolated OutcomeTruthful
PROPERTIES ConfirmedSurvives AtomicSpec
