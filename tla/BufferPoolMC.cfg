SPECIFICATION Spec
CONSTANTS
    Threads = {t1, t2, t3}
    Refs = {r1, r2, r3, r4}
    Bufs = {b1, b2, b3, b4}
    Blocks = {d1, d2, d3}
    Null = Null
SYMMETRY Symmetry
INVARIANTS
    TypeOK
    RefcountExact
    OneOwner
    PoolLives
    NothingLeaks
    WriterAlone
