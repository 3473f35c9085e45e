\* A journal write that fails in the middle of a batch.
CONSTANTS
    k1 = k1
    k2 = k2
    Key = {k1}
    KeyRange <- NoRange
    Tx = {t1, t2}
    Reader = {}
    Wall = {0, 3}
    MaxGc = 0
    MaxCrash = 1
    Faulty = TRUE
    NoTx = NoTx
SPECIFICATION Spec
SYMMETRY TxSymmetry
INVARIANTS
    DurableSurvives
