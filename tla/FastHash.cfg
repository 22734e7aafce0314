SPECIFICATION Spec
CONSTANTS
    k1 = k1
    k2 = k2
    k3 = k3
    Keys = {k1, k2, k3}
    Hash <- MCHash
    Values = {v1, v2}
    FSize = 3
    TSize = 2
    Junk = Junk
SYMMETRY HashSymmetry
INVARIANT NodesAccounted
INVARIANT EnumerationIsExact
PROPERTY ImplementsMultimap
