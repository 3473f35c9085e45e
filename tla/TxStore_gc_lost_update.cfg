\* Conflict detection once the tracker has collected garbage.
CONSTANTS
    k1 = k1
    k2 = k2
    Key = {k1}
    KeyRange <- NoRange
    Tx = {t1, t2, t3}
    Reader = {}
    Wall = {0}
    MaxGc = 1
    MaxCrash = 0
    Faulty = FALSE
    NoTx = NoTx
SPECIFICATION Spec
SYMMETRY TxSymmetry
INVARIANTS
    NoLostUpdate
