CONSTANTS
    Task = {t1}
    Key = {k1, k2}
    NoKey = NoKey
    MaxWrites = 3
    MaxRequests = 3
SPECIFICATION Spec
INVARIANT NoClientOutlivesKeys
