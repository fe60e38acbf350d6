SPECIFICATION Spec
CONSTANTS
    a = a
    b = b
    s1 = s1
    w1 = w1
    m1 = m1
    m2 = m2
    Worker = {w1, w2, w3}
    Hash = {a, b}
    Shard = {s1}
    ShardOf <- OneShard
    Sync = {m1, m2}
    SyncOf <- TwoTables
    MaxKnown = 1
    None = None
INVARIANTS
    IndInv
    RowsSurvive
    ResultsSurvive
    OneNewPerObject
