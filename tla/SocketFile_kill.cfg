\* Two servers on one file, killed at any point
CONSTANTS
    Servers = {s1, s2}
    NoFile = NoFile
    Stale = Stale
    MaxErrors = 1
    MaxFailures = 1
SPECIFICATION FairSpec
INVARIANTS
    TypeOK
    FileIsOwn
PROPERTIES
    StartsOverStaleFile
