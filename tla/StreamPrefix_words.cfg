\* Words of three values, two of them altered
CONSTANTS
    M = 3
    PREFIX_MAGIC = 2
    MaxMs = 4
    MaxDamage = 2
SPECIFICATION Spec
CHECK_DEADLOCK FALSE
INVARIANTS
    TypeOK
    RoundTrip
    ExpirationNotLonger
    OneWordDamageSeen
