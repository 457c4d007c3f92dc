CONSTANTS
    Task = {t1, t2}
    Key = {k1, k2}
    NoKey = NoKey
    MaxWrites = 3
    MaxRequests = 3
SPECIFICATION Spec
SYMMETRY Symmetry
INVARIANTS
    TypeOK
    CachedClientIsCurrent
    StampDescribesRead
    ServedIsFresh
    CaptureInvariant
