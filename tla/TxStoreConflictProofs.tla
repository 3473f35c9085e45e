----------------------- MODULE TxStoreConflictProofs ------------------------
(***************************************************************************)
(* The theorems of TxStore about conflicts: first committer wins.          *)
(***************************************************************************)
EXTENDS TxStoreStampProofs

(***************************************************************************)
(* Conflicts.  Every batch published since an open transaction's snapshot  *)
(* is in the oracle with the keys it wrote, and whatever a transaction has *)
(* read or written is on its read side.  The first half survives the       *)
(* oracle's retain as long as the tracker has not freed the snapshot, and  *)
(* what is freed stays freed while a transaction is open.                  *)
(***************************************************************************)
WindowKept ==
    \A t \in Tx : pc[t] \in Begun /\ freed < instant[t] =>
        \A n \in instant[t]..visible :
            n + 1 \in DOMAIN committed /\ committed[n + 1] = Written(n)

Validated ==
    \A t \in Tx : looked[t] \cup puts[t] \cup dels[t] \subseteq reads[t]

ConflictInv == WindowKept /\ Validated

\* Nothing but t's own accesses and the tracker changes.
LEMMA ConflictSame ==
    ASSUME ConflictInv, Validated',
           freed \in Nat, freed' \in Nat, freed <= freed',
           \A t \in Tx : instant[t] \in Nat,
           UNCHANGED <<journal, visible, committed, pc, instant>>
    PROVE  ConflictInv'
    BY DEF ConflictInv, WindowKept, Written

\* retain keeps the window of every open transaction that is not freed.
LEMMA WindowRetained ==
    ASSUME TypeInv, WindowKept,
           NEW t \in Tx, pc[t] \in Begun, freed < instant[t], NEW n \in instant[t]..visible
    PROVE  /\ n + 1 \in DOMAIN Retained(committed)
           /\ Retained(committed)[n + 1] = Written(n)
<1>1. freed < instant[t] /\ freed \in Nat /\ instant[t] \in Nat
    BY DEF TypeInv, TypeOK
<1>2. n + 1 \in DOMAIN committed /\ committed[n + 1] = Written(n) /\ n + 1 > freed
    BY <1>1 DEF WindowKept
<1> QED
    BY <1>2 DEF Retained

\* A transaction leaves without publishing anything.
LEMMA ConflictLeave ==
    ASSUME TypeInv, ConflictInv, NEW t \in Tx, Leaves(t),
           Validated', UNCHANGED <<journal, visible, freed>>,
           committed' = committed \/ committed' = Retained(committed)
    PROVE  ConflictInv'
<1>2. ASSUME NEW u \in Tx, pc'[u] \in Begun, freed' < instant'[u], NEW n \in instant'[u]..visible'
      PROVE  n + 1 \in DOMAIN committed' /\ committed'[n + 1] = Written(n)'
    <2>1. pc[u] \in Begun /\ freed < instant[u] /\ n \in instant[u]..visible
        BY <1>2 DEF Leaves, Others
    <2>2. /\ n + 1 \in DOMAIN committed' /\ committed'[n + 1] = Written(n)
        BY <2>1, WindowRetained DEF ConflictInv, WindowKept
    <2> QED
        BY <2>2 DEF Written
<1> QED
    BY <1>2 DEF ConflictInv, WindowKept

\* A batch b that wrote keys is appended, and published unless its flush
\* failed.
LEMMA ConflictAppend ==
    ASSUME TypeInv, StampInv, ConflictInv, NEW t \in Tx,
           pc[t] \in Begun, Others(t), Validated', UNCHANGED freed,
           pc'[t] \notin Begun \/ instant'[t] = instant[t],
           NEW b \in Batch, NEW keys, keys = b.puts \cup b.dels,
           Publish(b, keys) \/ FlushFails(b)
    PROVE  ConflictInv'
<1> DEFINE L == Len(journal)
<1>1. /\ journal' = Append(journal, b) /\ L \in Nat /\ visible = L
      /\ DOMAIN journal' = 1..(L + 1) /\ DOMAIN journal = 1..L
      /\ \A n \in 1..L : journal'[n] = journal[n]
      /\ journal'[L + 1] = b
    <2>1. journal' = Append(journal, b) /\ ~poisoned
        BY Zenon DEF Publish, FlushFails
    <2>2. journal \in Seq(Batch) /\ visible = L
        BY <2>1, Zenon DEF TypeInv, TypeOK, JournalInv
    <2> QED
        BY <2>1, <2>2, AppendFacts, JournalFacts
<1> HIDE DEF L
<1>2. \A n \in 1..L : Written(n)' = Written(n)
    BY <1>1, Zenon DEF Written
<1>3. \A n : n = L + 1 => Written(n)' = keys
    BY <1>1, Zenon DEF Written
<1>5. ASSUME NEW u \in Tx, pc'[u] \in Begun, freed' < instant'[u],
             NEW n \in instant'[u]..visible'
      PROVE  n + 1 \in DOMAIN committed' /\ committed'[n + 1] = Written(n)'
    <2>1. /\ pc[u] \in Begun /\ instant'[u] = instant[u]
          /\ instant[u] > 0 /\ instant[u] <= visible + 1
          /\ freed < instant[u]
        BY <1>5 DEF Others, StampInv, SnapshotsPast
    <2>2. CASE n = visible + 1
        <3>1. Publish(b, keys)
            BY <1>1, <1>5, <2>2 DEF FlushFails
        <3>2. n + 1 = visible + 2 /\ n = L + 1
            BY <1>1, <2>2
        <3>3. committed' = Noted(Retained(committed), visible + 2, keys)
            BY <3>1 DEF Publish
        <3>4. /\ visible + 2 \in DOMAIN committed'
              /\ committed'[visible + 2] = keys
            BY <3>3 DEF Noted
        <3> QED
            BY <1>3, <3>2, <3>4, Zenon
    <2>3. CASE n # visible + 1
        <3>1. n \in instant[u]..visible /\ n \in 1..L
            BY <1>1, <1>5, <2>1, <2>3, JournalFacts
            DEF Publish, FlushFails
        <3>2. /\ n + 1 \in DOMAIN Retained(committed)
              /\ Retained(committed)[n + 1] = Written(n)
            BY <2>1, <3>1, WindowRetained, Zenon DEF ConflictInv
        <3>3. n + 1 \in DOMAIN committed' /\ committed'[n + 1] = Written(n)
            BY <1>1, <3>1, <3>2 DEF Publish, FlushFails, Noted
        <3> QED
            BY <1>2, <3>1, <3>3
    <2> QED
        BY <2>2, <2>3
<1> QED
    BY <1>5 DEF ConflictInv, WindowKept

LEMMA SpendValidated ==
    ASSUME TypeInv, Validated, NEW t \in Tx, NEW next, Spend(t, next)
    PROVE  Validated'
    BY DEF Validated, Spend, TypeInv, TypeOK

LEMMA AccessValidated ==
    ASSUME TypeInv, Validated, NEW t \in Tx, NEW l, NEW m, NEW p, NEW d,
           Access(t, l, m, p, d), l \cup p \cup d \subseteq m
    PROVE  Validated'
    BY DEF Validated, Access, TypeInv, TypeOK

\* A pass of the tracker never takes back what it freed.
LEMMA GcFreesMore ==
    ASSUME TypeInv, Gc
    PROVE  freed' \in Nat /\ freed <= freed'
<1> DEFINE kept == {i \in DOMAIN snaps : snaps[i] > 0 \/ i >= Seqno}
<1>1. kept \in SUBSET (Nat \ {0}) /\ visible \in Nat /\ freed \in Nat
    BY DEF TypeInv, TypeOK
<1>2. PICK f : f = FreedBelow(kept) /\ f \in Nat
    BY <1>1, FreedBelowKept, Zenon
<1>3. freed' = Max(freed, f)
    BY <1>2, Zenon DEF Gc
<1> HIDE DEF kept
<1> QED
    BY <1>1, <1>2, <1>3 DEF Max

LEMMA ConflictStep ==
    ASSUME TypeInv, StampInv, ConflictInv, [Next]_vars
    PROVE  ConflictInv'
<1> USE DEF ConflictInv
<1>0. /\ freed \in Nat /\ \A t \in Tx : instant[t] \in Nat
    BY DEF TypeInv, TypeOK
<1>0a. ASSUME Validated',
              UNCHANGED <<journal, visible, committed, freed, pc, instant>>
       PROVE  ConflictInv'
    <2>1. freed' \in Nat /\ freed <= freed'
        BY <1>0, <1>0a
    <2> QED
        BY <1>0, <1>0a, <2>1, ConflictSame, Zenon
<1>1. ASSUME NEW t \in Tx, OpenSnapshot(t)
      PROVE  ConflictInv'
    <2>1. /\ UNCHANGED <<journal, visible, committed, freed, looked, puts, dels,
                         reads>>
          /\ instant'[t] = visible + 1
          /\ \A u \in Tx \ {t} : pc'[u] = pc[u] /\ instant'[u] = instant[u]
        BY <1>1 DEF OpenSnapshot, Seqno, TypeInv, TypeOK, jvars
    <2>2. ASSUME NEW u \in Tx, pc'[u] \in Begun, freed' < instant'[u],
                 NEW n \in instant'[u]..visible'
          PROVE  n + 1 \in DOMAIN committed' /\ committed'[n + 1] = Written(n)'
        <3>1. u # t
            BY <2>1, <2>2, JournalFacts
        <3> QED
            BY <2>1, <2>2, <3>1, Zenon DEF WindowKept, Written
    <2> QED
        BY <2>1, <2>2, Zenon DEF WindowKept, Validated, Written
<1>2. ASSUME NEW t \in Tx, MintStamp(t)
      PROVE  ConflictInv'
    <2>1. /\ UNCHANGED <<journal, visible, committed, freed, instant, looked,
                         puts, dels, reads>>
          /\ \A u \in Tx : pc'[u] \in Begun => pc[u] \in Begun
        BY <1>2 DEF MintStamp, TypeInv, TypeOK, jvars, Begun
    <2>2. WindowKept'
        BY <2>1, Zenon DEF WindowKept, Written
    <2> QED
        BY <2>1, <2>2, Zenon DEF Validated
<1>3. ASSUME NEW t \in Tx, PersistWatermark(t)
      PROVE  ConflictInv'
    <2> DEFINE b == Mark(stamp[t])
    <2>1. /\ b \in Batch /\ {} = b.puts \cup b.dels
          /\ pc[t] \in Begun /\ UNCHANGED freed
        BY <1>3, BatchType, Zenon DEF Mark, PersistWatermark, Begun
    <2>2. CASE /\ Publish(b, {})
               /\ pc' = [pc EXCEPT ![t] = "open"]
               /\ UNCHANGED <<instant, stamp, reads, puts, dels, looked>>
        <3>1. Others(t) /\ Validated'
            BY <2>2 DEF Others, TypeInv, TypeOK, Validated
        <3> HIDE DEF b
        <3> QED
            BY <2>1, <2>2, <3>1, ConflictAppend, Zenon
    <2>3. CASE FlushFails(b) /\ Spend(t, "failed")
        <3>1. Others(t) /\ pc'[t] \notin Begun /\ Validated'
            BY <2>3, SpendLeaves, SpendValidated DEF Leaves
        <3> HIDE DEF b
        <3> QED
            BY <2>1, <2>3, <3>1, ConflictAppend, Zenon
    <2>4. CASE Refused /\ Spend(t, "failed")
        <3>1. /\ Leaves(t) /\ Validated' /\ UNCHANGED <<journal, visible, freed>>
              /\ committed' = Retained(committed)
            BY <2>1, <2>4, SpendLeaves, SpendValidated, Zenon
            DEF Refused, jvars
        <3> QED
            BY <3>1, ConflictLeave, Zenon
    <2> QED
        BY <1>3, <2>2, <2>3, <2>4, Zenon DEF PersistWatermark
<1>4. ASSUME NEW t \in Tx, NEW l, NEW m, NEW p, NEW d,
             Access(t, l, m, p, d), l \cup p \cup d \subseteq m
      PROVE  ConflictInv'
    <2>1. Validated'
        BY <1>4, AccessValidated
    <2> QED
        BY <1>0a, <1>4, <2>1, Zenon DEF Access, jvars
<1>5. ASSUME NEW t \in Tx, Abort(t)
      PROVE  ConflictInv'
    <2>1. /\ Leaves(t) /\ Validated' /\ UNCHANGED <<journal, visible, freed>>
          /\ UNCHANGED committed
        BY <1>5, SpendLeaves, SpendValidated, Zenon DEF Abort, jvars
    <2> QED
        BY <2>1, ConflictLeave, Zenon
<1>6. ASSUME NEW t \in Tx, Commit(t) \/ CommitDurable(t)
      PROVE  ConflictInv'
    <2>1. PICK next \in {"committed", "syncing"} :
            CommitEmpty(t, next) \/ CommitWrites(t, next)
        BY <1>6 DEF Commit, CommitDurable
    <2>2. /\ pc[t] \in Begun /\ Leaves(t) /\ Validated'
          /\ UNCHANGED freed
        BY <1>6, <2>1, SpendLeaves, SpendValidated, Zenon
        DEF CommitEmpty, CommitWrites, Begun, Commit, CommitDurable
    <2>3. CASE /\ UNCHANGED jvars
               /\ committed' = committed \/ committed' = Retained(committed)
        BY <2>2, <2>3, ConflictLeave DEF jvars
    <2>4. CASE Publish(BatchOf(t), WriteSet(t)) \/ FlushFails(BatchOf(t))
        <3>1. PICK b \in Batch : b = BatchOf(t)
            BY BatchType, Zenon
        <3>2. PICK keys : keys = WriteSet(t)
            BY Zenon
        <3>3. /\ keys = b.puts \cup b.dels
              /\ Publish(b, keys) \/ FlushFails(b)
            BY <2>4, <3>1, <3>2, Zenon DEF BatchOf, WriteSet
        <3>4. Others(t) /\ pc'[t] \notin Begun
            BY <2>2 DEF Leaves
        <3> QED
            BY <2>2, <3>3, <3>4, ConflictAppend, Zenon
    <2> QED
        BY <2>1, <2>3, <2>4 DEF CommitEmpty, CommitWrites, Refused
<1>7. ASSUME NEW t \in Tx, PersistCommit(t)
      PROVE  ConflictInv'
    <2>1. Leaves(t) /\ Validated'
        BY <1>7
        DEF PersistCommit, Leaves, Others, Begun, TypeInv, TypeOK,
            Validated
    <2> QED
        BY <1>7, <2>1, ConflictLeave DEF PersistCommit, Persisted, PersistFails
<1>8. ASSUME NEW t \in Tx, Step(t)
      PROVE  ConflictInv'
    <2>1. CASE \E k \in Key : Get(t, k) \/ Put(t, k) \/ Del(t, k)
        BY <1>4, <2>1 DEF Get, Put, Del
    <2>2. CASE \E r \in KeyRange : RangeScan(t, r) \/ DelRange(t, r)
        <3>1. PICK r \in KeyRange : RangeScan(t, r) \/ DelRange(t, r)
            BY <2>2
        <3>2. /\ r \cup {} \cup {} \subseteq r
              /\ r \cup {} \cup (r \cap View(t)) \subseteq r
            OBVIOUS
        <3> QED
            BY <1>4, <3>1, <3>2 DEF RangeScan, DelRange
    <2> QED
        BY <1>1, <1>2, <1>3, <1>5, <1>6, <1>7, <1>8, <2>1, <2>2 DEF Step
<1>9. CASE \E r \in Reader : OpenReader(r) \/ ReadFloor(r) \/ CloseReader(r)
    <2>1. UNCHANGED <<jvars, freed, committed, tvars>>
        BY <1>9 DEF OpenReader, ReadFloor, CloseReader
    <2> QED
        BY <1>0a, <2>1, Zenon DEF jvars, tvars, Validated
<1>10. CASE Sync
    <2>1. UNCHANGED <<journal, visible, freed, committed, tvars>>
        BY <1>10 DEF Sync, Persisted, PersistFails
    <2> QED
        BY <1>0a, <2>1, Zenon DEF tvars, Validated
<1>11. CASE Gc
    <2>1. UNCHANGED <<journal, visible, committed, tvars>>
        BY <1>11 DEF Gc, jvars
    <2>2. freed' \in Nat /\ freed <= freed'
        BY <1>0, <1>11, GcFreesMore
    <2> QED
        BY <1>0, <2>1, <2>2, ConflictSame, Zenon DEF tvars, Validated
<1>12. CASE Kill \/ PowerCut
    <2>1. PICK n \in 0..Len(journal) : Recovered(n)
        BY <1>12, CrashPrefix, Zenon
    <2>2. \A t \in Tx : pc'[t] \notin Begun
        BY <2>1 DEF Recovered, Begun, Live, TypeInv, TypeOK
    <2>3. Validated'
        BY <2>1, Zenon DEF Recovered, Validated
    <2> QED
        BY <2>2, <2>3, Zenon DEF WindowKept
<1>13. CASE UNCHANGED vars
    BY <1>0a, <1>13, Zenon DEF vars, jvars, tvars, Validated
<1> QED
    BY <1>8, <1>9, <1>10, <1>11, <1>12, <1>13, Zenon DEF Next

LEMMA ConflictInvariant == Spec => [](TypeInv /\ StampInv /\ ConflictInv)
<1>1. Init => ConflictInv
    BY DEF Init, ConflictInv, WindowKept, Validated, Begun
<1>2. TypeInv /\ StampInv /\ ConflictInv /\ [Next]_vars => ConflictInv'
    BY ConflictStep
<1> QED
    BY <1>1, <1>2, StampInvariant, PTL DEF Spec

(***************************************************************************)
(* What a step does to the journal.                                        *)
(***************************************************************************)
Adds(t) ==
    /\ pc[t] \in Begun /\ ~poisoned
    /\ \/ journal' = Append(journal, Mark(stamp[t]))
       \/ ~Conflicted(t) /\ journal' = Append(journal, BatchOf(t))

LEMMA JournalMoves ==
    ASSUME TypeInv, [Next]_vars
    PROVE  \/ UNCHANGED journal
           \/ \E n \in 0..Len(journal) : Recovered(n)
           \/ \E t \in Tx : Adds(t)
<1>1. ASSUME NEW t \in Tx, PersistWatermark(t)
      PROVE  UNCHANGED journal \/ Adds(t)
    BY <1>1, Zenon DEF PersistWatermark, Publish, FlushFails, Refused, jvars,
        Adds, Begun
<1>2. ASSUME NEW t \in Tx, Commit(t) \/ CommitDurable(t)
      PROVE  UNCHANGED journal \/ Adds(t)
    BY <1>2, Zenon DEF Commit, CommitDurable, CommitEmpty, CommitWrites,
        Publish, FlushFails, Refused, jvars, Adds, Begun
<1>3. ASSUME NEW t \in Tx, Step(t)
      PROVE  UNCHANGED journal \/ Adds(t)
    BY <1>1, <1>2, <1>3, Zenon
    DEF Step, OpenSnapshot, MintStamp, Get, Put, Del, RangeScan, DelRange,
        Access, Abort, PersistCommit, Persisted, PersistFails, jvars
<1>4. CASE \E t \in Tx : Step(t)
    BY <1>3, <1>4, Zenon
<1>5. CASE \E r \in Reader : OpenReader(r) \/ ReadFloor(r) \/ CloseReader(r)
    BY <1>5, Zenon DEF OpenReader, ReadFloor, CloseReader, jvars
<1>6. CASE Sync \/ Gc
    BY <1>6, Zenon DEF Sync, Gc, Persisted, PersistFails, jvars
<1>7. CASE Kill \/ PowerCut
    BY <1>7, CrashPrefix, Zenon
<1>8. CASE UNCHANGED vars
    BY <1>8, Zenon DEF vars, jvars
<1> QED
    BY <1>4, <1>5, <1>6, <1>7, <1>8, Zenon DEF Next

LEMMA MarkIsNoData == \A s : Mark(s).tx = NoTx
    BY Zenon DEF Mark

\* The batch a step adds is the last one.
LEMMA Added ==
    ASSUME TypeInv, NEW t \in Tx, Adds(t)
    PROVE  \E L \in Nat : \E b \in Batch :
             /\ L = visible /\ DOMAIN journal = 1..L
             /\ DOMAIN journal' = 1..(L + 1)
             /\ \A n \in 1..L : journal'[n] = journal[n]
             /\ journal'[L + 1] = b
             /\ b = Mark(stamp[t]) \/ (~Conflicted(t) /\ b = BatchOf(t))
<1>1. PICK b \in Batch : /\ journal' = Append(journal, b)
                         /\ b = Mark(stamp[t]) \/ (~Conflicted(t) /\ b = BatchOf(t))
    BY BatchType, Zenon DEF Adds
<1>2. journal \in Seq(Batch) /\ visible = Len(journal)
    BY Zenon DEF Adds, TypeInv, TypeOK, JournalInv
<1>3. /\ Len(journal) \in Nat /\ DOMAIN journal = 1..Len(journal)
    BY JournalFacts, Zenon
<1>4. /\ DOMAIN journal' = 1..(Len(journal) + 1)
      /\ \A n \in 1..Len(journal) : journal'[n] = journal[n]
      /\ journal'[Len(journal) + 1] = b
    BY <1>1, <1>2, AppendFacts
<1> QED
    BY <1>1, <1>2, <1>3, <1>4, Zenon

\* A transaction that passes the conflict check while its snapshot is not
\* freed has no write of its window among its reads and writes.
LEMMA WindowChecked ==
    ASSUME TypeInv, StampInv, ConflictInv, NEW t \in Tx, pc[t] \in Begun,
           ~Conflicted(t), freed < instant[t],
           NEW m \in instant[t]..visible
    PROVE  Written(m) \cap (looked[t] \cup puts[t] \cup dels[t]) = {}
<1>1. m + 1 \in DOMAIN committed /\ committed[m + 1] = Written(m)
    BY DEF ConflictInv, WindowKept
<1>2. m + 1 > instant[t]
    BY JournalFacts
<1>3. committed[m + 1] \cap reads[t] = {}
    BY <1>1, <1>2, Zenon DEF Conflicted
<1>4. looked[t] \cup puts[t] \cup dels[t] \subseteq reads[t]
    BY Zenon DEF ConflictInv, Validated
<1> QED
    BY <1>1, <1>3, <1>4, Zenon

ProtectedStep ==
    \A n \in DOMAIN journal' \ DOMAIN journal :
        journal'[n].tx # NoTx /\ freed < journal'[n].snap =>
            \A m \in journal'[n].snap..(n - 1) :
                Written(m) \cap (journal'[n].reads \cup journal'[n].puts
                                    \cup journal'[n].dels) = {}

LEMMA ProtectedNext ==
    ASSUME TypeInv, StampInv, ConflictInv, [Next]_vars
    PROVE  ProtectedStep
<1>1. CASE UNCHANGED journal
    BY <1>1, Zenon DEF ProtectedStep
<1>2. ASSUME NEW k \in 0..Len(journal), Recovered(k)
      PROVE  ProtectedStep
    <2>1. DOMAIN journal' = 1..k
        BY <1>2, PrefixFacts, Zenon DEF Recovered, TypeInv, TypeOK
    <2>2. DOMAIN journal' \subseteq DOMAIN journal
        BY <2>1, JournalFacts
    <2> QED
        BY <2>2, Zenon DEF ProtectedStep
<1>3. ASSUME NEW t \in Tx, Adds(t)
      PROVE  ProtectedStep
    <2>1. PICK L \in Nat : \E b \in Batch :
             /\ L = visible /\ DOMAIN journal = 1..L
             /\ DOMAIN journal' = 1..(L + 1)
             /\ \A n \in 1..L : journal'[n] = journal[n]
             /\ journal'[L + 1] = b
             /\ b = Mark(stamp[t]) \/ (~Conflicted(t) /\ b = BatchOf(t))
        BY <1>3, Added, Zenon
    <2>2. PICK b \in Batch :
             /\ L = visible /\ DOMAIN journal = 1..L
             /\ DOMAIN journal' = 1..(L + 1)
             /\ journal'[L + 1] = b
             /\ b = Mark(stamp[t]) \/ (~Conflicted(t) /\ b = BatchOf(t))
        BY <2>1, Zenon
    <2> SUFFICES ASSUME NEW n \in DOMAIN journal' \ DOMAIN journal,
                        journal'[n].tx # NoTx, freed < journal'[n].snap,
                        NEW m \in journal'[n].snap..(n - 1)
                 PROVE  Written(m) \cap (journal'[n].reads \cup journal'[n].puts
                                            \cup journal'[n].dels) = {}
        BY Zenon DEF ProtectedStep
    <2>3. n = L + 1 /\ n - 1 = visible
        BY <2>2
    <2>4. journal'[n] = b /\ b.tx # NoTx
        BY <2>2, <2>3, Zenon
    <2>5. ~Conflicted(t) /\ b = BatchOf(t)
        BY <2>2, <2>4, MarkIsNoData, Zenon
    <2>6. /\ b.snap = instant[t] /\ b.reads = looked[t]
          /\ b.puts = puts[t] /\ b.dels = dels[t]
        BY <2>5, Zenon DEF BatchOf
    <2>7. m \in instant[t]..visible /\ freed < instant[t]
        BY <2>3, <2>4, <2>6, Zenon
    <2>8. pc[t] \in Begun
        BY <1>3, Zenon DEF Adds
    <2>9. Written(m) \cap (looked[t] \cup puts[t] \cup dels[t]) = {}
        BY <2>5, <2>7, <2>8, WindowChecked, Zenon
    <2> QED
        BY <2>4, <2>6, <2>9, Zenon
<1> QED
    BY <1>1, <1>2, <1>3, JournalMoves, Zenon

\* First committer wins, transaction by transaction, with any number of
\* garbage-collection passes, crashes and failed flushes: a commit whose own
\* snapshot is not freed overwrites and misses nothing.  Nothing is assumed of
\* the snapshots of others.
THEOREM ProtectedCommitHolds == Spec => ProtectedCommit
<1>1. TypeInv /\ StampInv /\ ConflictInv /\ [Next]_vars => [ProtectedStep]_vars
    BY ProtectedNext, Zenon
<1>2. Spec => [][ProtectedStep]_vars
    BY <1>1, ConflictInvariant, PTL DEF Spec
<1> QED
    BY <1>2, Zenon DEF ProtectedCommit, ProtectedStep

(***************************************************************************)
(* The history as a whole, while no open snapshot is freed.                *)
(***************************************************************************)
LEMMA LostUpdateStep ==
    ASSUME TypeInv, StampInv, ConflictInv, SnapshotsProtected, NoLostUpdate,
           [Next]_vars
    PROVE  NoLostUpdate'
<1>1. CASE UNCHANGED journal
    BY <1>1, Zenon DEF NoLostUpdate, Written, IsData
<1>2. ASSUME NEW L, NEW L1, DOMAIN journal = 1..L, DOMAIN journal' = 1..L1,
             L \in Nat, L1 \in Nat,
             \A n \in 1..L : n <= L1 => journal'[n] = journal[n],
             NEW n \in 1..L1, n <= L, journal'[n].tx # NoTx,
             NEW m \in journal'[n].snap..(n - 1)
      PROVE  Written(m)' \cap (journal'[n].reads \cup Written(n)') = {}
    <2>1. n \in DOMAIN journal /\ n \in 1..L /\ journal'[n] = journal[n]
        BY <1>2
    <2>2. journal[n].snap > 0 /\ journal[n].snap \in Nat
        BY <1>2, <2>1, JournalFacts, Zenon DEF StampInv, SnapshotsPast, IsData
    <2>3. m \in journal[n].snap..(n - 1)
        BY <1>2, <2>1, Zenon
    <2>4. m \in 1..L /\ m <= L1
        BY <1>2, <2>1, <2>2, <2>3
    <2>5. journal'[m] = journal[m]
        BY <1>2, <2>4, Zenon
    <2>6. Written(m) \cap (journal[n].reads \cup Written(n)) = {}
        BY <1>2, <2>1, <2>3, Zenon DEF NoLostUpdate, IsData
    <2> QED
        BY <2>1, <2>5, <2>6, Zenon DEF Written
<1>3. ASSUME NEW k \in 0..Len(journal), Recovered(k)
      PROVE  NoLostUpdate'
    <2>1. /\ DOMAIN journal' = 1..k
          /\ \A i \in 1..k : journal'[i] = journal[i]
        BY <1>3, PrefixFacts, Zenon DEF Recovered, TypeInv, TypeOK
    <2>2. /\ DOMAIN journal = 1..Len(journal) /\ Len(journal) \in Nat
          /\ k \in Nat /\ \A n \in 1..k : n <= Len(journal)
          /\ \A n \in 1..Len(journal) : n <= k => n \in 1..k
        BY JournalFacts
    <2>3. ASSUME NEW n \in DOMAIN journal', journal'[n].tx # NoTx,
                 NEW m \in journal'[n].snap..(n - 1)
          PROVE  Written(m)' \cap (journal'[n].reads \cup Written(n)') = {}
        BY <1>2, <2>1, <2>2, <2>3, Zenon
    <2> QED
        BY <2>3, Zenon DEF NoLostUpdate, IsData, Written
<1>4. ASSUME NEW t \in Tx, Adds(t)
      PROVE  NoLostUpdate'
    <2>1. PICK L \in Nat : \E b \in Batch :
             /\ L = visible /\ DOMAIN journal = 1..L
             /\ DOMAIN journal' = 1..(L + 1)
             /\ \A n \in 1..L : journal'[n] = journal[n]
             /\ journal'[L + 1] = b
             /\ b = Mark(stamp[t]) \/ (~Conflicted(t) /\ b = BatchOf(t))
        BY <1>4, Added, Zenon
    <2>2. ASSUME NEW n \in DOMAIN journal', journal'[n].tx # NoTx,
                 NEW m \in journal'[n].snap..(n - 1)
          PROVE  Written(m)' \cap (journal'[n].reads \cup Written(n)') = {}
        <3>1. CASE n # L + 1
            <4>1. n \in 1..(L + 1) /\ n <= L /\ L + 1 \in Nat
                BY <2>1, <3>1
            <4> QED
                BY <1>2, <2>1, <2>2, <4>1, Zenon
        <3>2. CASE n = L + 1
            <4>1. journal'[n].snap = instant[t] /\ pc[t] \in Begun
                <5>1. journal'[n] = Mark(stamp[t]) \/ journal'[n] = BatchOf(t)
                    BY <2>1, <3>2, Zenon
                <5>2. journal'[n] = BatchOf(t)
                    BY <2>2, <5>1, MarkIsNoData, Zenon
                <5>3. BatchOf(t).snap = instant[t] /\ pc[t] \in Begun
                    BY <1>4, Zenon DEF Adds, BatchOf
                <5> QED
                    BY <5>2, <5>3, Zenon
            <4>2. freed < instant[t]
                BY <4>1, Zenon DEF SnapshotsProtected, Begun
            <4>3. n \in DOMAIN journal' \ DOMAIN journal
                BY <2>1, <3>2
            <4>4. Written(m) \cap (journal'[n].reads \cup journal'[n].puts
                                    \cup journal'[n].dels) = {}
                BY <2>2, <4>1, <4>2, <4>3, ProtectedNext, Zenon
                DEF ProtectedStep
            <4>5. instant[t] > 0 /\ instant[t] \in Nat
                BY <4>1, JournalFacts, Zenon DEF StampInv, SnapshotsPast
            <4>6. m \in 1..L
                BY <2>2, <3>2, <4>1, <4>5
            <4>7. journal'[m] = journal[m]
                BY <2>1, <4>6, Zenon
            <4> QED
                BY <4>4, <4>7, Zenon DEF Written
        <3> QED
            BY <3>1, <3>2, Zenon
    <2> QED
        BY <2>2, Zenon DEF NoLostUpdate, IsData, Written
<1> QED
    BY <1>1, <1>3, <1>4, JournalMoves, Zenon

\* As long as the tracker frees no snapshot that is open, no transaction of
\* the whole history has overwritten or missed a write between its snapshot
\* and its commit: an update can be lost only after the tracker freed an open
\* snapshot, which is what the double close of a commit lets it do.
THEOREM NoLostUpdateIfProtected ==
    Spec /\ []SnapshotsProtected => []NoLostUpdate
<1>1. Init => NoLostUpdate
    BY DEF Init, NoLostUpdate
<1>2. TypeInv /\ StampInv /\ ConflictInv /\ SnapshotsProtected /\ NoLostUpdate
        /\ [Next]_vars => NoLostUpdate'
    BY LostUpdateStep
<1> QED
    BY <1>1, <1>2, ConflictInvariant, PTL DEF Spec

=============================================================================
