SPECIFICATION Spec
CONSTANTS
    Keys = {k1, k2}
    Values = {x, y}
    Tombstone = Tombstone
    Absent = Absent
    Writers = {w1}
    Readers = {r1}
    MaxVersion = 3
SYMMETRY KeyValueSymmetry
INVARIANTS
    TypeOK
    ReadsWereCurrent
    ClearedStaysCleared
PROPERTY ImplementsVersionedMap
