SPECIFICATION Spec
CONSTANTS
    Values = {v1, v2}
    Garbage = {g1, g2}
    Absent = Absent
INVARIANTS
    TypeOK
    CorruptIsPreserved
PROPERTIES
    ImplementsRegister
