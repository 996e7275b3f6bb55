\* A range that is ignored, restarted, cut and asked for again.
SPECIFICATION Spec
CONSTANTS
    r1 = r1
    r2 = r2
    Reps = {r1, r2}
    Size <- MCSize
    Budgets = {0, 1, 2}
    Limits = {NoLimit}
    NoLimit = NoLimit
    NoRep = NoRep
    Zero = Zero
INVARIANTS ResumesValidatorBound
CHECK_DEADLOCK FALSE
