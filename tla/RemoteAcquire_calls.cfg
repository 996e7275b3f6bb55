\* A resource that changes between two representations, limits at and below them.
SPECIFICATION FairSpec
CONSTANTS
    r1 = r1
    r2 = r2
    Reps = {r1, r2}
    Size <- MCSize
    Budgets = {0, 1, 2}
    Limits = {1, 2, NoLimit}
    NoLimit = NoLimit
    NoRep = NoRep
    Zero = Zero
INVARIANTS OneRepresentation WithinLimit AttemptsAccounted ResumeEvidenceTruthful
PROPERTIES AcquireReturns Shrinks
CHECK_DEADLOCK FALSE
