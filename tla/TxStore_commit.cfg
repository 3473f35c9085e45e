\* Conflicts, scans, kills, power cuts and failing journal writes, before the
\* tracker's first garbage-collection pass.
CONSTANTS
    k1 = k1
    k2 = k2
    Key = {k1, k2}
    KeyRange <- WholeRange
    Tx = {t1, t2}
    Reader = {}
    Wall = {0}
    MaxGc = 0
    MaxCrash = 1
    Faulty = TRUE
    NoTx = NoTx
SPECIFICATION Spec
SYMMETRY TxKeySymmetry
INVARIANTS
    TypeOK
    StampOrder
    NoStampReused
    AcknowledgedSurvives
    NoLostUpdate
PROPERTIES
    Serializable
