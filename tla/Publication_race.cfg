\* Three publishers of different kinds race with two removals.
SPECIFICATION Spec
CONSTANTS
    p0 = p0
    p1 = p1
    p2 = p2
    p3 = p3
    p4 = p4
    a = a
    b = b
    Publishers = {p1, p2, p3}
    Removers = {r1, r2}
    Items = {a, b}
    Source <- MCSource
    Flat = {p3}
    Elsewhere = {p2}
    None = None
SYMMETRY MCSymmetry
INVARIANTS WholeUntilRemoved PublishTruthful NoResidue RemovalTruthful
PROPERTIES AtomicTargetSpec
CHECK_DEADLOCK FALSE
