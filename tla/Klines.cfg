CONSTANTS
    Mids = {1, 2, 3}
    BucketLen = 3
    FlushEvery = 3
    MaxErrors = 1
    Old = 4
    NoBucket = NoBucket
    NoRow = NoRow
SPECIFICATION Spec
INVARIANTS KlinesKeepUp
PROPERTIES ClosedBucketComplete
