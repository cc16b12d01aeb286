\* One key and two concurrent readers: an older load, an invalidation and a
\* newer load fit, as does a third load after the older one ended.
CONSTANTS
    Key = {k1}
    Caller = {c1, c2}
    Value <- MCValue
    NoValue = NoValue
    Nobody = Nobody
    MaxAge = 2
    LoadTimeout = 1
    Family <- MCFamily
    MaxVersion = 2
    MaxLag = 4
SPECIFICATION Spec
INVARIANTS InvalidationIsABarrier
