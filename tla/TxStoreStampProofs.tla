------------------------- MODULE TxStoreStampProofs -------------------------
(***************************************************************************)
(* The theorems of TxStore about system stamps.                            *)
(***************************************************************************)
EXTENDS TxStoreTypeProofs

(***************************************************************************)
(* Stamps.  StampOrder and NoStampReused are not inductive.  What makes    *)
(* them so is the life of a stamp: it exceeds every stamp in the journal   *)
(* when it is minted; its watermark is in the journal, above every earlier *)
(* watermark, before its transaction can commit a row; so in every prefix  *)
(* that a crash can leave, the last watermark bounds every stamp.          *)
(***************************************************************************)
Begun   == {"snap", "minted", "open"}
Stamped == {"minted", "open"}

\* The clock has passed every stamp there is.
ClockAhead ==
    /\ \A n \in DOMAIN journal : journal[n].stamp <= clock
    /\ \A t \in Tx : pc[t] \in Stamped => stamp[t] <= clock

MarksIncrease ==
    \A m, n \in DOMAIN journal :
        m < n /\ ~IsData(m) /\ ~IsData(n) => journal[m].stamp < journal[n].stamp

\* Every row is preceded by the watermark of its stamp.
RowsMarked ==
    \A n \in DOMAIN journal : IsData(n) =>
        \E m \in DOMAIN journal :
            m < n /\ ~IsData(m) /\ journal[m].stamp = journal[n].stamp

\* A stamp still to be persisted is above every watermark, and a persisted
\* one is in the journal.
StampsMarked ==
    \A t \in Tx :
        /\ pc[t] = "minted" =>
             \A n \in DOMAIN journal : ~IsData(n) => journal[n].stamp < stamp[t]
        /\ pc[t] = "open" =>
             \E n \in DOMAIN journal : ~IsData(n) /\ journal[n].stamp = stamp[t]

StampsDistinct ==
    \A t \in Tx : pc[t] \in Stamped =>
        /\ \A u \in Tx : pc[u] \in Stamped /\ u # t => stamp[u] # stamp[t]
        /\ \A n \in DOMAIN journal : IsData(n) => journal[n].stamp # stamp[t]

SnapshotsPast ==
    /\ \A t \in Tx : pc[t] \in Begun =>
         instant[t] > 0 /\ instant[t] <= visible + 1
    /\ \A n \in DOMAIN journal : IsData(n) =>
         journal[n].snap > 0 /\ journal[n].snap <= n

StampInv ==
    /\ ClockAhead /\ MarksIncrease /\ RowsMarked /\ StampsMarked
    /\ StampsDistinct /\ SnapshotsPast /\ StampOrder /\ NoStampReused

LEMMA JournalFacts ==
    ASSUME TypeInv
    PROVE  /\ Len(journal) \in Nat /\ DOMAIN journal = 1..Len(journal)
           /\ visible \in Nat /\ visible <= Len(journal) /\ clock \in Nat
           /\ \A n \in DOMAIN journal :
                journal[n].stamp \in Nat /\ journal[n].snap \in Nat
           /\ \A t \in Tx : stamp[t] \in Nat /\ instant[t] \in Nat
<1>1. \A n \in DOMAIN journal : journal[n] \in Batch
    BY DEF TypeInv, TypeOK
<1>2. \A n \in DOMAIN journal :
        journal[n].stamp \in Nat /\ journal[n].snap \in Nat
    BY <1>1 DEF Batch
<1> QED
    BY <1>2 DEF TypeInv, TypeOK

\* The step touches no transaction but t, or no transaction that remains.
Others(t) ==
    \A u \in Tx \ {t} :
        pc'[u] = pc[u] /\ instant'[u] = instant[u] /\ stamp'[u] = stamp[u]

Leaves(t) == Others(t) /\ pc'[t] \notin Begun

LEMMA StampSame ==
    ASSUME StampInv, UNCHANGED <<journal, visible, clock, pc, instant, stamp>>
    PROVE  StampInv'
    BY
    DEF StampInv, ClockAhead, MarksIncrease, RowsMarked, StampsMarked,
        StampsDistinct, SnapshotsPast, StampOrder, NoStampReused, IsData

LEMMA StampLeave ==
    ASSUME StampInv, NEW t \in Tx, Leaves(t),
           UNCHANGED <<journal, visible, clock>>
    PROVE  StampInv'
<1> USE DEF Begun, Stamped
<1>1. \A u \in Tx : pc'[u] \in Begun =>
        pc[u] = pc'[u] /\ instant[u] = instant'[u] /\ stamp[u] = stamp'[u]
    BY DEF Leaves, Others
<1>2. ClockAhead' /\ MarksIncrease' /\ RowsMarked'
    BY <1>1 DEF StampInv, ClockAhead, MarksIncrease, RowsMarked, IsData
<1>3. StampsMarked'
    BY <1>1 DEF StampInv, StampsMarked, IsData
<1>4. StampsDistinct'
    BY <1>1 DEF StampInv, StampsDistinct, IsData
<1>5. SnapshotsPast' /\ StampOrder' /\ NoStampReused'
    BY <1>1 DEF StampInv, SnapshotsPast, StampOrder, NoStampReused, IsData
<1> QED
    BY <1>2, <1>3, <1>4, <1>5 DEF StampInv

\* t's rows reach the journal, and t is over.
LEMMA StampRows ==
    ASSUME TypeInv, StampInv, NEW t \in Tx, pc[t] = "open", Leaves(t),
           journal' = Append(journal, BatchOf(t)), UNCHANGED clock,
           visible' \in Nat, visible <= visible'
    PROVE  StampInv'
<1> USE DEF Begun, Stamped
<1> DEFINE L == Len(journal)
<1>1. /\ DOMAIN journal' = 1..(L + 1)
      /\ \A n \in 1..L : journal'[n] = journal[n]
      /\ journal'[L + 1] = BatchOf(t)
    BY BatchType, AppendFacts DEF TypeInv, TypeOK
<1>2. /\ L \in Nat /\ DOMAIN journal = 1..L
      /\ visible \in Nat /\ visible <= L /\ clock \in Nat
      /\ \A n \in DOMAIN journal :
            journal[n].stamp \in Nat /\ journal[n].snap \in Nat
      /\ \A u \in Tx : stamp[u] \in Nat /\ instant[u] \in Nat
    BY JournalFacts
<1>3. /\ journal'[L + 1].tx = t /\ t # NoTx
      /\ journal'[L + 1].stamp = stamp[t]
      /\ journal'[L + 1].snap = instant[t]
    BY <1>1, TxStoreAssumption DEF BatchOf
<1>4. \A u \in Tx : pc'[u] \in Begun =>
        /\ u # t
        /\ pc[u] = pc'[u] /\ instant[u] = instant'[u] /\ stamp[u] = stamp'[u]
    BY DEF Leaves, Others
<1> HIDE DEF L
<1>5. ClockAhead'
    BY <1>1, <1>2, <1>3, <1>4 DEF StampInv, ClockAhead
<1>6. MarksIncrease'
    BY <1>1, <1>2, <1>3 DEF StampInv, MarksIncrease, IsData
<1>7. RowsMarked'
    <2> SUFFICES ASSUME NEW n \in DOMAIN journal', journal'[n].tx # NoTx
                 PROVE  \E m \in DOMAIN journal' :
                            /\ m < n /\ journal'[m].tx = NoTx
                            /\ journal'[m].stamp = journal'[n].stamp
        BY DEF RowsMarked, IsData
    <2>1. CASE n = L + 1
        <3>1. PICK m \in DOMAIN journal :
                journal[m].tx = NoTx /\ journal[m].stamp = stamp[t]
            BY DEF StampInv, StampsMarked, IsData
        <3> QED
            BY <1>1, <1>2, <1>3, <2>1, <3>1
    <2>2. CASE n # L + 1
        BY <1>1, <1>2, <2>2 DEF StampInv, RowsMarked, IsData
    <2> QED
        BY <2>1, <2>2
<1>8. StampsMarked'
    <2> SUFFICES ASSUME NEW u \in Tx
                 PROVE  /\ pc'[u] = "minted" =>
                             \A n \in DOMAIN journal' : journal'[n].tx = NoTx
                                => journal'[n].stamp < stamp'[u]
                        /\ pc'[u] = "open" =>
                             \E n \in DOMAIN journal' : journal'[n].tx = NoTx
                                /\ journal'[n].stamp = stamp'[u]
        BY DEF StampsMarked, IsData
    <2>1. CASE pc'[u] = "minted"
        <3>1. pc[u] = "minted" /\ stamp'[u] = stamp[u]
            BY <1>4, <2>1
        <3>2. \A n \in DOMAIN journal' : journal'[n].tx = NoTx =>
                n \in DOMAIN journal /\ journal'[n] = journal[n]
            BY <1>1, <1>2, <1>3
        <3> QED
            BY <2>1, <3>1, <3>2 DEF StampInv, StampsMarked, IsData
    <2>2. CASE pc'[u] = "open"
        <3>1. PICK m \in DOMAIN journal :
                journal[m].tx = NoTx /\ journal[m].stamp = stamp[u]
            BY <1>4, <2>2 DEF StampInv, StampsMarked, IsData
        <3> QED
            BY <1>1, <1>2, <1>4, <2>2, <3>1
    <2> QED
        BY <2>1, <2>2
<1>9. StampsDistinct'
    <2>1. StampsDistinct
        BY DEF StampInv
    <2>2. ASSUME NEW u \in Tx, pc'[u] \in Stamped, NEW v \in Tx,
                 pc'[v] \in Stamped, v # u
          PROVE  stamp'[v] # stamp'[u]
        BY <1>4, <2>1, <2>2 DEF StampsDistinct
    <2>3. ASSUME NEW u \in Tx, pc'[u] \in Stamped,
                 NEW n \in DOMAIN journal', journal'[n].tx # NoTx
          PROVE  journal'[n].stamp # stamp'[u]
        <3>1. /\ pc[u] \in Stamped /\ stamp'[u] = stamp[u] /\ u # t
              /\ pc[t] \in Stamped
            BY <1>4, <2>3
        <3>2. CASE n = L + 1
            BY <1>3, <2>1, <3>1, <3>2, Zenon DEF StampsDistinct
        <3>3. CASE n # L + 1
            <4>1. n \in DOMAIN journal /\ journal'[n] = journal[n]
                BY <1>1, <1>2, <3>3
            <4> QED
                BY <2>1, <2>3, <3>1, <4>1, Zenon DEF StampsDistinct, IsData
        <3> QED
            BY <3>2, <3>3, Zenon
    <2> QED
        BY <2>2, <2>3, Zenon DEF StampsDistinct, IsData
<1>10. SnapshotsPast'
    <2>1. SnapshotsPast
        BY DEF StampInv
    <2>2. ASSUME NEW u \in Tx, pc'[u] \in Begun
          PROVE  instant'[u] > 0 /\ instant'[u] <= visible' + 1
        <3>1. pc[u] \in Begun /\ instant'[u] = instant[u]
            BY <1>4, <2>2, Zenon
        <3>2. instant[u] > 0 /\ instant[u] <= visible + 1
            BY <2>1, <3>1, Zenon DEF SnapshotsPast
        <3> QED
            BY <1>2, <3>1, <3>2
    <2>3. ASSUME NEW n \in DOMAIN journal', journal'[n].tx # NoTx
          PROVE  journal'[n].snap > 0 /\ journal'[n].snap <= n
        <3>1. CASE n = L + 1
            <4>1. instant[t] > 0 /\ instant[t] <= visible + 1
                BY <2>1 DEF SnapshotsPast
            <4> QED
                BY <1>2, <1>3, <3>1, <4>1
        <3>2. CASE n # L + 1
            <4>1. n \in DOMAIN journal /\ journal'[n] = journal[n]
                BY <1>1, <1>2, <3>2
            <4> QED
                BY <2>1, <2>3, <4>1, Zenon DEF SnapshotsPast, IsData
        <3> QED
            BY <3>1, <3>2, Zenon
    <2> QED
        BY <2>2, <2>3, Zenon DEF SnapshotsPast, IsData
<1>11. StampOrder'
    <2>1. ASSUME NEW u \in Tx, pc'[u] \in Stamped,
                 NEW n \in 1..(instant'[u] - 1), journal'[n].tx # NoTx
          PROVE  journal'[n].stamp < stamp'[u]
        <3>1. /\ pc[u] \in Stamped /\ pc[u] \in Begun
              /\ instant[u] = instant'[u] /\ stamp[u] = stamp'[u]
            BY <1>4, <2>1
        <3>2. n \in 1..L /\ n \in 1..(instant[u] - 1)
            BY <1>2, <3>1 DEF StampInv, SnapshotsPast
        <3>3. journal'[n] = journal[n]
            BY <1>1, <3>2, Zenon
        <3> QED
            BY <2>1, <3>1, <3>2, <3>3
            DEF StampInv, StampOrder, IsData
    <2>2. ASSUME NEW n \in DOMAIN journal', journal'[n].tx # NoTx,
                 NEW m \in 1..(journal'[n].snap - 1), journal'[m].tx # NoTx
          PROVE  journal'[m].stamp < journal'[n].stamp
        <3>1. CASE n = L + 1
            BY <1>1, <1>2, <1>3, <2>2, <3>1
            DEF StampInv, StampOrder, SnapshotsPast, IsData
        <3>2. CASE n # L + 1
            BY <1>1, <1>2, <2>2, <3>2
            DEF StampInv, StampOrder, SnapshotsPast, IsData
        <3> QED
            BY <3>1, <3>2, Zenon
    <2> QED
        BY <2>1, <2>2, Zenon DEF StampOrder, IsData
<1>12. NoStampReused'
    BY <1>1, <1>2, <1>3
    DEF StampInv, NoStampReused, StampsDistinct, IsData
<1> QED
    BY <1>5, <1>6, <1>7, <1>8, <1>9, <1>10, <1>11, <1>12 DEF StampInv

\* A watermark appended behind the L batches of the journal, the transactions
\* that go on keeping their snapshot and stamp.
LEMMA MarkAppended ==
    ASSUME StampInv, NEW t \in Tx, pc[t] = "minted", NEW L \in Nat,
           DOMAIN journal = 1..L, DOMAIN journal' = 1..(L + 1),
           \A n \in 1..L : journal'[n] = journal[n],
           journal'[L + 1].tx = NoTx, journal'[L + 1].stamp = stamp[t],
           UNCHANGED clock, clock \in Nat, visible \in Nat, visible <= L,
           visible' \in Nat, visible <= visible',
           \A n \in 1..L : journal[n].stamp \in Nat /\ journal[n].snap \in Nat,
           \A u \in Tx : stamp[u] \in Nat /\ instant[u] \in Nat,
           \A u \in Tx : pc'[u] \in Begun =>
             /\ u # t => pc[u] = pc'[u]
             /\ u = t => pc'[u] = "open"
             /\ pc[u] \in Begun /\ (pc'[u] \in Stamped => pc[u] \in Stamped)
             /\ instant[u] = instant'[u] /\ stamp[u] = stamp'[u],
           \A u \in Tx : pc'[u] # "minted"
    PROVE  StampInv'
<1> USE DEF Begun, Stamped
<1>1. ClockAhead'
    BY DEF StampInv, ClockAhead
<1>2. MarksIncrease'
    <2> SUFFICES ASSUME NEW m \in DOMAIN journal', NEW n \in DOMAIN journal',
                        m < n, journal'[m].tx = NoTx, journal'[n].tx = NoTx
                 PROVE  journal'[m].stamp < journal'[n].stamp
        BY Zenon DEF MarksIncrease, IsData
    <2>1. m \in 1..L /\ journal'[m] = journal[m]
        OBVIOUS
    <2>2. CASE n = L + 1
        BY <2>1, <2>2 DEF StampInv, StampsMarked, IsData
    <2>3. CASE n \in 1..L
        BY <2>1, <2>3 DEF StampInv, MarksIncrease, IsData
    <2> QED
        BY <2>2, <2>3
<1>3. RowsMarked'
    <2> SUFFICES ASSUME NEW n \in DOMAIN journal', journal'[n].tx # NoTx
                 PROVE  \E m \in DOMAIN journal' :
                            /\ m < n /\ journal'[m].tx = NoTx
                            /\ journal'[m].stamp = journal'[n].stamp
        BY DEF RowsMarked, IsData
    <2>1. n \in DOMAIN journal /\ journal'[n] = journal[n]
        OBVIOUS
    <2>2. PICK m \in DOMAIN journal :
            m < n /\ journal[m].tx = NoTx /\ journal[m].stamp = journal[n].stamp
        BY <2>1 DEF StampInv, RowsMarked, IsData
    <2>3. m \in DOMAIN journal' /\ journal'[m] = journal[m]
        BY <2>2
    <2> QED
        BY <2>1, <2>2, <2>3, Zenon
<1>4. StampsMarked'
    <2> SUFFICES ASSUME NEW u \in Tx, pc'[u] = "open"
                 PROVE  \E n \in DOMAIN journal' : journal'[n].tx = NoTx
                            /\ journal'[n].stamp = stamp'[u]
        BY DEF StampsMarked, IsData
    <2>1. CASE u = t
        <3>1. L + 1 \in DOMAIN journal'
            OBVIOUS
        <3> QED
            BY <2>1, <3>1, Zenon
    <2>2. CASE u # t
        <3>1. PICK m \in DOMAIN journal :
                journal[m].tx = NoTx /\ journal[m].stamp = stamp[u]
            BY <2>2 DEF StampInv, StampsMarked, IsData
        <3>2. m \in DOMAIN journal' /\ journal'[m] = journal[m]
            BY <3>1
        <3> QED
            BY <3>1, <3>2, Zenon
    <2> QED
        BY <2>1, <2>2
<1>5. StampsDistinct'
    <2>1. StampsDistinct
        BY DEF StampInv
    <2>2. \A u \in Tx : pc'[u] \in Stamped =>
            pc[u] \in Stamped /\ stamp[u] = stamp'[u]
        BY Zenon
    <2>3. \A n \in DOMAIN journal' : journal'[n].tx # NoTx =>
            n \in DOMAIN journal /\ journal'[n] = journal[n]
        OBVIOUS
    <2>4. ASSUME NEW u \in Tx, pc'[u] \in Stamped, NEW v \in Tx,
                 pc'[v] \in Stamped, v # u
          PROVE  stamp'[v] # stamp'[u]
        <3>1. pc[u] \in Stamped /\ pc[v] \in Stamped
              /\ stamp[u] = stamp'[u] /\ stamp[v] = stamp'[v]
            BY <2>2, <2>4
        <3> QED
            BY <2>1, <2>4, <3>1 DEF StampsDistinct
    <2>5. ASSUME NEW u \in Tx, pc'[u] \in Stamped,
                 NEW n \in DOMAIN journal', journal'[n].tx # NoTx
          PROVE  journal'[n].stamp # stamp'[u]
        BY <2>1, <2>2, <2>3, <2>5 DEF StampsDistinct, IsData
    <2> QED
        BY <2>4, <2>5, Zenon DEF StampsDistinct, IsData
<1>6. SnapshotsPast'
    <2>1. SnapshotsPast
        BY DEF StampInv
    <2>2. ASSUME NEW u \in Tx, pc'[u] \in Begun
          PROVE  instant'[u] > 0 /\ instant'[u] <= visible' + 1
        <3>1. pc[u] \in Begun /\ instant[u] = instant'[u]
            BY <2>2, Zenon
        <3>2. instant[u] > 0 /\ instant[u] <= visible + 1
            BY <2>1, <3>1, Zenon DEF SnapshotsPast
        <3> QED
            BY <3>1, <3>2
    <2>3. ASSUME NEW n \in DOMAIN journal', journal'[n].tx # NoTx
          PROVE  journal'[n].snap > 0 /\ journal'[n].snap <= n
        <3>1. n \in 1..L /\ journal'[n] = journal[n]
            BY <2>3
        <3> QED
            BY <2>1, <2>3, <3>1, Zenon DEF SnapshotsPast, IsData
    <2> QED
        BY <2>2, <2>3, Zenon DEF SnapshotsPast, IsData
<1>7. StampOrder'
    <2>1. ASSUME NEW u \in Tx, pc'[u] \in Stamped,
                 NEW n \in 1..(instant'[u] - 1), journal'[n].tx # NoTx
          PROVE  journal'[n].stamp < stamp'[u]
        <3>1. /\ pc[u] \in Stamped /\ pc[u] \in Begun
              /\ instant[u] = instant'[u] /\ stamp[u] = stamp'[u]
            BY <2>1
        <3>2. n \in 1..L /\ n \in 1..(instant[u] - 1)
            BY <3>1 DEF StampInv, SnapshotsPast
        <3>3. journal'[n] = journal[n]
            BY <3>2, Zenon
        <3> QED
            BY <2>1, <3>1, <3>2, <3>3
            DEF StampInv, StampOrder, IsData
    <2>2. \A n \in DOMAIN journal' : journal'[n].tx # NoTx =>
            \A m \in 1..(journal'[n].snap - 1) :
                journal'[m].tx # NoTx => journal'[m].stamp < journal'[n].stamp
        BY DEF StampInv, StampOrder, SnapshotsPast, IsData
    <2> QED
        BY <2>1, <2>2, Zenon DEF StampOrder, IsData
<1>8. NoStampReused'
    BY DEF StampInv, NoStampReused, IsData
<1> QED
    BY <1>1, <1>2, <1>3, <1>4, <1>5, <1>6, <1>7, <1>8
    DEF StampInv

\* t's watermark reaches the journal, whether t goes on or fails.
LEMMA StampMark ==
    ASSUME TypeInv, StampInv, NEW t \in Tx, pc[t] = "minted", Others(t),
           \/ pc'[t] = "open" /\ instant'[t] = instant[t] /\ stamp'[t] = stamp[t]
           \/ pc'[t] \notin Begun,
           journal' = Append(journal, Mark(stamp[t])), UNCHANGED clock,
           visible' \in Nat, visible <= visible'
    PROVE  StampInv'
<1> USE DEF Begun, Stamped
<1> DEFINE L == Len(journal)
<1>1. /\ DOMAIN journal' = 1..(L + 1)
      /\ \A n \in 1..L : journal'[n] = journal[n]
      /\ journal'[L + 1] = Mark(stamp[t])
    BY BatchType, AppendFacts DEF TypeInv, TypeOK
<1>2. /\ L \in Nat /\ DOMAIN journal = 1..L
      /\ visible \in Nat /\ visible <= L /\ clock \in Nat
      /\ \A n \in 1..L :
            journal[n].stamp \in Nat /\ journal[n].snap \in Nat
      /\ \A u \in Tx : stamp[u] \in Nat /\ instant[u] \in Nat
    BY JournalFacts
<1>3. journal'[L + 1].tx = NoTx /\ journal'[L + 1].stamp = stamp[t]
    <2>1. Mark(stamp[t]).tx = NoTx /\ Mark(stamp[t]).stamp = stamp[t]
        BY Zenon DEF Mark
    <2> QED
        BY <1>1, <2>1, Zenon
<1>4. \A u \in Tx : pc'[u] \in Begun =>
        /\ u # t => pc[u] = pc'[u]
        /\ u = t => pc'[u] = "open"
        /\ pc[u] \in Begun /\ (pc'[u] \in Stamped => pc[u] \in Stamped)
        /\ instant[u] = instant'[u] /\ stamp[u] = stamp'[u]
    BY Zenon DEF Others
<1>5. \A u \in Tx : pc'[u] # "minted"
    BY <1>4, Zenon DEF TypeInv, TypeOK
<1> HIDE DEF L
<1> QED
    BY <1>1, <1>2, <1>3, <1>4, <1>5, MarkAppended, Zenon

LEMMA StampOpenSnapshot ==
    ASSUME TypeInv, StampInv, NEW t \in Tx, OpenSnapshot(t)
    PROVE  StampInv'
<1> USE DEF Begun, Stamped
<1>1. /\ UNCHANGED <<journal, visible, clock, stamp>>
      /\ pc'[t] = "snap" /\ instant'[t] = visible + 1
      /\ \A u \in Tx \ {t} : pc'[u] = pc[u] /\ instant'[u] = instant[u]
    BY DEF OpenSnapshot, Seqno, TypeInv, TypeOK, jvars, cvars
<1>2. ClockAhead' /\ MarksIncrease' /\ RowsMarked' /\ StampsMarked'
    BY <1>1
    DEF StampInv, ClockAhead, MarksIncrease, RowsMarked, StampsMarked,
        IsData
<1>3. StampsDistinct' /\ NoStampReused'
    BY <1>1 DEF StampInv, StampsDistinct, NoStampReused, IsData
<1>4. SnapshotsPast'
    BY <1>1, JournalFacts DEF StampInv, SnapshotsPast, IsData
<1>5. StampOrder'
    BY <1>1 DEF StampInv, StampOrder, IsData
<1> QED
    BY <1>2, <1>3, <1>4, <1>5 DEF StampInv

LEMMA StampMint ==
    ASSUME TypeInv, StampInv, NEW t \in Tx, MintStamp(t)
    PROVE  StampInv'
<1> USE DEF Begun, Stamped
<1>1. clock' \in Nat /\ clock < clock'
    BY JournalFacts, TxStoreAssumption DEF MintStamp, Max
<1>2. /\ UNCHANGED <<journal, visible, instant>>
      /\ pc[t] = "snap" /\ pc'[t] = "minted" /\ stamp'[t] = clock'
      /\ \A u \in Tx \ {t} : pc'[u] = pc[u] /\ stamp'[u] = stamp[u]
    BY DEF MintStamp, TypeInv, TypeOK, jvars
<1>3. /\ clock \in Nat /\ Len(journal) \in Nat /\ DOMAIN journal = 1..Len(journal)
      /\ visible \in Nat /\ visible <= Len(journal)
      /\ \A n \in DOMAIN journal : journal[n].stamp \in Nat
      /\ \A u \in Tx : stamp[u] \in Nat /\ instant[u] \in Nat
    BY JournalFacts
<1>4. /\ \A n \in DOMAIN journal : journal[n].stamp < clock'
      /\ \A u \in Tx \ {t} : pc[u] \in Stamped => stamp[u] < clock'
    BY <1>1, <1>3 DEF StampInv, ClockAhead
<1>5. ClockAhead'
    BY <1>1, <1>2, <1>3, <1>4 DEF ClockAhead
<1>6. MarksIncrease' /\ RowsMarked'
    BY <1>2 DEF StampInv, MarksIncrease, RowsMarked, IsData
<1>7. StampsMarked'
    BY <1>2, <1>4 DEF StampInv, StampsMarked, IsData
<1>8. StampsDistinct'
    BY <1>1, <1>2, <1>3, <1>4 DEF StampInv, StampsDistinct, IsData
<1>9. SnapshotsPast' /\ NoStampReused'
    BY <1>2 DEF StampInv, SnapshotsPast, NoStampReused, IsData
<1>10. StampOrder'
    BY <1>2, <1>3, <1>4
    DEF StampInv, StampOrder, SnapshotsPast, IsData
<1> QED
    BY <1>5, <1>6, <1>7, <1>8, <1>9, <1>10 DEF StampInv

\* A crash leaves a prefix, and the last watermark of it bounds its stamps.
LEMMA StampRecovered ==
    ASSUME TypeInv, StampInv, NEW n \in 0..Len(journal), Recovered(n)
    PROVE  StampInv'
<1> USE DEF Begun, Stamped
<1>1. /\ DOMAIN journal' = 1..n
      /\ \A i \in 1..n : journal'[i] = journal[i]
    BY PrefixFacts DEF Recovered, TypeInv, TypeOK
<1>2. /\ Len(journal) \in Nat /\ DOMAIN journal = 1..Len(journal)
      /\ \A i \in DOMAIN journal :
            journal[i].stamp \in Nat /\ journal[i].snap \in Nat
    BY JournalFacts
<1>3. \A t \in Tx : pc'[t] \notin Begun
    BY DEF Recovered, TypeInv, TypeOK, Live
<1>4. ASSUME NEW i \in 1..n
      PROVE  journal[i].stamp <= clock'
    <2>1. PICK now \in Wall : Seeded(now, n)
        BY DEF Recovered
    <2>2. PICK w \in 0..n :
            /\ \/ w = 0 /\ clock' = now
               \/ w # 0 /\ journal[w].tx = NoTx
                        /\ clock' = Max(now, journal[w].stamp)
            /\ \A m \in (w + 1)..n : journal[m].tx # NoTx
        BY <2>1 DEF Seeded, IsData
    \* the watermark of batch i
    <2>3. PICK m \in 1..i :
            journal[m].tx = NoTx /\ journal[m].stamp = journal[i].stamp
        <3>1. CASE journal[i].tx = NoTx
            BY <3>1
        <3>2. CASE journal[i].tx # NoTx
            <4>1. i \in DOMAIN journal
                BY <1>2
            <4>2. \E m \in DOMAIN journal : m < i /\ journal[m].tx = NoTx
                        /\ journal[m].stamp = journal[i].stamp
                BY <3>2, <4>1, Zenon DEF StampInv, RowsMarked, IsData
            <4> QED
                BY <1>2, <4>2
        <3> QED
            BY <3>1, <3>2
    <2>4. m <= w
        BY <2>2, <2>3
    <2>5. journal[m].stamp <= journal[w].stamp
        BY <1>2, <2>2, <2>3, <2>4 DEF StampInv, MarksIncrease, IsData
    <2>6. now \in Nat /\ journal[w].stamp \in Nat
        BY <1>2, <2>3, <2>4, TxStoreAssumption
    <2> QED
        BY <1>2, <2>2, <2>3, <2>4, <2>5, <2>6 DEF Max
<1>5. ClockAhead'
    BY <1>1, <1>3, <1>4 DEF ClockAhead
<1>6. MarksIncrease' /\ RowsMarked'
    <2>1. MarksIncrease'
        BY <1>1, <1>2 DEF StampInv, MarksIncrease, IsData
    <2>2. ASSUME NEW i \in DOMAIN journal', journal'[i].tx # NoTx
          PROVE  \E m \in DOMAIN journal' :
                    /\ m < i /\ journal'[m].tx = NoTx
                    /\ journal'[m].stamp = journal'[i].stamp
        <3>1. i \in DOMAIN journal /\ journal'[i] = journal[i]
            BY <1>1, <1>2
        <3>2. PICK m \in DOMAIN journal :
                /\ m < i /\ journal[m].tx = NoTx
                /\ journal[m].stamp = journal[i].stamp
            BY <2>2, <3>1, Zenon DEF StampInv, RowsMarked, IsData
        <3>3. m \in DOMAIN journal' /\ journal'[m] = journal[m]
            BY <1>1, <1>2, <3>2
        <3> QED
            BY <3>1, <3>2, <3>3, Zenon
    <2>3. RowsMarked'
        BY <2>2, Zenon DEF RowsMarked, IsData
    <2> QED
        BY <2>1, <2>3
<1>7. StampsMarked' /\ StampsDistinct'
    BY <1>3 DEF StampsMarked, StampsDistinct
<1>8. SnapshotsPast' /\ StampOrder'
    <2>1. SnapshotsPast'
        BY <1>1, <1>2, <1>3 DEF StampInv, SnapshotsPast, IsData
    <2>2. StampOrder'
        BY <1>1, <1>2, <1>3 DEF StampInv, SnapshotsPast, StampOrder, IsData
    <2> QED
        BY <2>1, <2>2
<1>9. NoStampReused'
    BY <1>1, <1>2 DEF StampInv, NoStampReused, IsData
<1> QED
    BY <1>5, <1>6, <1>7, <1>8, <1>9 DEF StampInv

LEMMA SpendLeaves ==
    ASSUME TypeInv, NEW t \in Tx, NEW next \in {"committed", "syncing",
           "conflict", "aborted", "failed"}, Spend(t, next)
    PROVE  Leaves(t)
    BY DEF Spend, Leaves, Others, Begun, TypeInv, TypeOK

LEMMA StampStep ==
    ASSUME TypeInv, StampInv, [Next]_vars
    PROVE  StampInv'
<1>1. ASSUME NEW t \in Tx, PersistWatermark(t)
      PROVE  StampInv'
    <2>1. pc[t] = "minted" /\ UNCHANGED clock
        BY <1>1, Zenon DEF PersistWatermark
    <2>2. CASE /\ Publish(Mark(stamp[t]), {})
               /\ pc' = [pc EXCEPT ![t] = "open"]
               /\ UNCHANGED <<instant, stamp>>
        <3>1. Others(t) /\ pc'[t] = "open"
            BY <2>2 DEF Others, TypeInv, TypeOK
        <3>2. /\ journal' = Append(journal, Mark(stamp[t]))
              /\ visible' \in Nat /\ visible <= visible'
            <4>1. journal' = Append(journal, Mark(stamp[t])) /\ visible' = visible + 1
                BY <2>2, Zenon DEF Publish
            <4>2. visible + 1 \in Nat /\ visible <= visible + 1
                BY JournalFacts
            <4> QED
                BY <4>1, <4>2, Zenon
        <3> QED
            BY <2>1, <2>2, <3>1, <3>2, StampMark
    <2>3. CASE FlushFails(Mark(stamp[t])) /\ Spend(t, "failed")
        <3>1. Others(t) /\ pc'[t] \notin Begun
            BY <2>3, SpendLeaves DEF Leaves
        <3>2. /\ journal' = Append(journal, Mark(stamp[t]))
              /\ visible' \in Nat /\ visible <= visible'
            BY <2>3, JournalFacts DEF FlushFails
        <3> QED
            BY <2>1, <3>1, <3>2, StampMark
    <2>4. CASE Refused /\ Spend(t, "failed")
        BY <2>1, <2>4, SpendLeaves, StampLeave DEF Refused, jvars
    <2> QED
        BY <1>1, <2>2, <2>3, <2>4 DEF PersistWatermark
<1>2. ASSUME NEW t \in Tx, NEW l, NEW m, NEW p, NEW d, Access(t, l, m, p, d)
      PROVE  StampInv'
    BY <1>2, StampSame DEF Access, jvars, cvars
<1>3. ASSUME NEW t \in Tx, Abort(t)
      PROVE  StampInv'
    BY <1>3, SpendLeaves, StampLeave DEF Abort, jvars, cvars
<1>4. ASSUME NEW t \in Tx, Commit(t) \/ CommitDurable(t)
      PROVE  StampInv'
    <2>1. PICK next \in {"committed", "syncing"} :
            /\ CommitEmpty(t, next) \/ CommitWrites(t, next)
            /\ UNCHANGED <<cvars, freed, rvars, gcs, crashes, cut>>
        BY <1>4 DEF Commit, CommitDurable
    <2>2. pc[t] = "open" /\ UNCHANGED clock /\ Leaves(t)
        BY <2>1, SpendLeaves DEF CommitEmpty, CommitWrites, cvars
    <2>3. CASE UNCHANGED jvars
        BY <2>2, <2>3, StampLeave DEF jvars
    <2>4. CASE Publish(BatchOf(t), WriteSet(t)) \/ FlushFails(BatchOf(t))
        <3>1. /\ journal' = Append(journal, BatchOf(t))
              /\ visible' \in Nat /\ visible <= visible'
            BY <2>4, JournalFacts DEF Publish, FlushFails
        <3> QED
            BY <2>2, <3>1, StampRows
    <2> QED
        BY <2>1, <2>3, <2>4 DEF CommitEmpty, CommitWrites, Refused
<1>5. ASSUME NEW t \in Tx, PersistCommit(t)
      PROVE  StampInv'
    <2>1. Leaves(t)
        BY <1>5
        DEF PersistCommit, Leaves, Others, Begun, TypeInv, TypeOK
    <2> QED
        BY <1>5, <2>1, StampLeave DEF PersistCommit, Persisted, PersistFails,
            cvars
<1>6. ASSUME NEW t \in Tx, Step(t)
      PROVE  StampInv'
    <2>1. CASE \E k \in Key : Get(t, k) \/ Put(t, k) \/ Del(t, k)
        BY <1>2, <2>1 DEF Get, Put, Del
    <2>2. CASE \E r \in KeyRange : RangeScan(t, r) \/ DelRange(t, r)
        BY <1>2, <2>2 DEF RangeScan, DelRange
    <2> QED
        BY <1>1, <1>3, <1>4, <1>5, <1>6, <2>1, <2>2, StampOpenSnapshot,
           StampMint DEF Step
<1>7. CASE \E r \in Reader : OpenReader(r) \/ ReadFloor(r) \/ CloseReader(r)
    BY <1>7, StampSame
    DEF OpenReader, ReadFloor, CloseReader, jvars, cvars,
        tvars
<1>8. CASE Sync
    BY <1>8, StampSame DEF Sync, Persisted, PersistFails, cvars, tvars
<1>9. CASE Gc
    BY <1>9, StampSame DEF Gc, jvars, cvars, tvars
<1>10. CASE Kill \/ PowerCut
    <2>1. PICK n \in 0..Len(journal) : Recovered(n)
        BY <1>10, CrashPrefix, Zenon
    <2> QED
        BY <2>1, StampRecovered
<1>11. CASE UNCHANGED vars
    BY <1>11, StampSame DEF vars, jvars, cvars, tvars
<1> QED
    BY <1>6, <1>7, <1>8, <1>9, <1>10, <1>11 DEF Next

LEMMA StampInit == Init => StampInv
    BY
    DEF Init, StampInv, ClockAhead, MarksIncrease, RowsMarked, StampsMarked,
        StampsDistinct, SnapshotsPast, StampOrder, NoStampReused, Begun,
        Stamped

LEMMA StampInvariant == Spec => [](TypeInv /\ StampInv)
<1>1. Init => TypeInv /\ StampInv
    BY TypeInit, StampInit
<1>2. TypeInv /\ StampInv /\ [Next]_vars => (TypeInv /\ StampInv)'
    BY TypeStep, StampStep
<1> QED
    BY <1>1, <1>2, PTL DEF Spec

\* Snapshot before stamp, in write_tx, makes reads-from order agree with stamp
\* order for every interleaving of writers, and the persisted watermark keeps
\* it so across any number of crashes, with a wall clock that may go back.
THEOREM StampOrderHolds == Spec => []StampOrder
<1>1. TypeInv /\ StampInv => StampOrder
    BY DEF StampInv
<1> QED
    BY <1>1, StampInvariant, PTL

\* No two surviving transactions carry the same system stamp: the watermark of
\* a stamp is in the journal before any row that carries it.
THEOREM NoStampReusedHolds == Spec => []NoStampReused
<1>1. TypeInv /\ StampInv => NoStampReused
    BY DEF StampInv
<1> QED
    BY <1>1, StampInvariant, PTL

=============================================================================
