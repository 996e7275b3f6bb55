----------------------------- MODULE MCMaterial -----------------------------
(* Small containers for TLC: names that differ in case, nested paths, an   *)
(* escaping path, a link, sizes at and around the limits, lying sizes.     *)
EXTENDS MaterialProps, TLC

CONSTANTS a, A, up, plain, packed

MCFold == (a :> a) @@ (A :> a)

Entry(path, kind, declared, data) ==
    [path |-> path, kind |-> kind, declared |-> declared, data |-> data]

MCEntries ==
    {Entry(<<a>>, "file", 1, 1), Entry(<<A>>, "dir", 0, 0), Entry(<<A, a>>, "file", 1, 1),
     Entry(<<a, a>>, "file", 1, 2), Entry(<<a, A>>, "file", 2, 2), Entry(<<a, a>>, "file", 0, 0),
     Entry(<<A>>, "file", 2, 1), Entry(<<a, up>>, "file", 0, 0), Entry(<<a>>, "link", 0, 0),
     Entry(<<A, A>>, "other", 0, 0), Entry(<<A, a>>, "file", 8, 1)}

Policy(strip, entries, entry, total, decoded) ==
    [strip |-> strip, entries |-> entries, entry |-> entry, total |-> total, decoded |-> decoded]

MCPolicies ==
    {Policy(0, None, None, None, None), Policy(0, 2, 1, None, None), Policy(0, None, None, 2, None),
     Policy(0, None, None, 2, 1), Policy(0, None, None, None, 4), Policy(1, 1, 2, 3, 5)}
=============================================================================
