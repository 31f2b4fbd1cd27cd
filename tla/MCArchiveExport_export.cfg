CONSTANTS
    MaxLives = 3
    MaxResults = 3
SPECIFICATION Spec
INVARIANTS
    TypeOK
    PublishedIsWhole
    ManifestVouches
    NotVouchedForHalfway
CHECK_DEADLOCK FALSE
