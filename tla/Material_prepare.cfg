\* Containers of up to two entries, every policy, whatever the caller does to its path.
SPECIFICATION Spec
CONSTANTS
    a = a
    A = A
    up = up
    plain = plain
    packed = packed
    Names = {a, A}
    Up = up
    Fold <- MCFold
    Entries <- MCEntries
    Policies <- MCPolicies
    None = None
    U64 = 8
    Header = 1
    MaxEntries = 2
    Contents = {plain, packed}
    Packed = {packed}
INVARIANTS TreeIsArchive LimitsHold RootReclaimed VerifiedIsPrepared
CHECK_DEADLOCK FALSE
