\* A child, a descendant, a cap of one byte below what is written.
SPECIFICATION FairSpec
CONSTANTS
    c = c
    k1 = k1
    Child = c
    Kids = {k1}
    MaxBytes = 2
    PipeSize = 1
    Caps = {0, 1}
    Declared <- MCDeclared
INVARIANTS RunTruthful StoppedTreeIsGone CustodyTruthful SignalsOwnTree DiagnosticsTruthful
CHECK_DEADLOCK FALSE
PROPERTIES CallsEnd
