\* A descendant holds the pipe of an asynchronous run after the child has ended.
SPECIFICATION FairSpec
CONSTANTS
    c = c
    k1 = k1
    Child = c
    Kids = {k1}
    MaxBytes = 2
    PipeSize = 1
    Caps = {0, 1}
    Declared <- MCDeclared
CHECK_DEADLOCK FALSE
PROPERTIES BoundedRunEnds
