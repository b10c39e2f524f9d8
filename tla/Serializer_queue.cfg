\* Writers that cannot extend the storage, or are Reset and keep it
CONSTANTS
    Base = 2
    Items <- SomeItems
    Asked <- SomeTypes
    MaxItems = 2
    Faults = {"ALLOC", "REUSE"}
SPECIFICATION Spec
INVARIANTS
    TypeOK
    ImportMeansAll
    ReuseIsNoticed
PROPERTIES
    KeepsTheQueue
