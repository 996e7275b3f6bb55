\* Both platforms, two releases, any of them readable beforehand.
SPECIFICATION Spec
CONSTANTS
    Releases = {r1, r2}
    Decl = Decl
    None = None
SYMMETRY MCSymmetry
INVARIANTS RunsWhatIsBound RemovedLeavesNothing
PROPERTIES GrantsAccounted
