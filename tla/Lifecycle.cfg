SPECIFICATION Spec
CONSTANTS
    Starts = {s1, s2}
    Ids = {i1}
    none = none
SYMMETRY Symmetry
CHECK_DEADLOCK FALSE
INVARIANTS
    TypeOK
    NoResidue
    Paired
    RegistryKept
    FactoryDrains
PROPERTY
    DisposedLast
