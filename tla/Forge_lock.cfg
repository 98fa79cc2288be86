SPECIFICATION Spec
CONSTANTS
    h1 = h1
    None = None
    Pipelines = {p1, p2, p3}
    Hashes = {h1}
    HashOf <- AllSame
    Cpp = {}
    GoodCode = {h1}
    MaxCrashes = 1
    MaxUnwritten = 1
SYMMETRY Interchangeable
INVARIANTS
    MutualExclusion
    JobsHaveSo
PROPERTY RowHasOneWriter
