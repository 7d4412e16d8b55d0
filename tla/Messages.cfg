SPECIFICATION MCSpec
CONSTANTS
    Scripts <- MCScripts
    Hosted <- MCHosted
    Inside <- MCInside
    Objects = {o1, o2}
    Responses = {r1, r2}
    Conns = {1, 2}
    IntBits = 3
    None = None
    Instances = {i, j}
    Links = {1, 2}
    MaxChanges = 2
    MaxSubscribes = 2
SYMMETRY Alike
INVARIANTS
    HandledAsSent
    HandledInOrder
    PoolsBlank
    ResultFits
    ListFollows
    NewsIsNew
CHECK_DEADLOCK FALSE
