\* A reader that dumps, among writers, a crash and a garbage-collection pass.
CONSTANTS
    k1 = k1
    k2 = k2
    Key = {k1}
    KeyRange <- NoRange
    Tx = {t1, t2}
    Reader = {r1}
    Wall = {2}
    MaxGc = 1
    MaxCrash = 1
    Faulty = FALSE
    NoTx = NoTx
SPECIFICATION Spec
SYMMETRY TxSymmetry
INVARIANTS
    DumpFloorCovers
    TrackerHonoursCounts
PROPERTIES
    ProtectedCommit
