----------------------- MODULE TxStoreSnapshotProofs ------------------------
(***************************************************************************)
(* The theorems of TxStore about open snapshots: the tracker and dumps.    *)
(***************************************************************************)
EXTENDS TxStoreStampProofs

(***************************************************************************)
(* The snapshot tracker.                                                   *)
(***************************************************************************)
TrackerInv ==
    /\ freed <= visible
    /\ \A i \in DOMAIN snaps : i <= visible + 1
    /\ TrackerHonoursCounts

\* The counts after a step come from the counts before it by closing, and by
\* opening the current instant.
CountsMove ==
    /\ DOMAIN snaps' \subseteq Nat
    /\ \A i \in DOMAIN snaps' :
          \/ i = visible + 1
          \/ i \in DOMAIN snaps /\ (snaps'[i] > 0 => snaps[i] > 0)

LEMMA TrackerCounts ==
    ASSUME TypeInv, TrackerInv, UNCHANGED freed, CountsMove,
           visible' \in Nat, visible <= visible'
    PROVE  TrackerInv'
<1>1. visible \in Nat /\ freed \in Nat /\ freed <= visible
    BY DEF TrackerInv, TypeInv, TypeOK
<1>2. visible + 1 <= visible' + 1 /\ freed' < visible + 1 /\ freed' <= visible'
    <2>1. \A a, b, c \in Nat :
            a <= b /\ c <= a => a + 1 <= b + 1 /\ c < a + 1 /\ c <= b
        OBVIOUS
    <2> QED
        BY <1>1, <2>1, Zenon
<1>3. ASSUME NEW i \in DOMAIN snaps'
      PROVE  i <= visible' + 1 /\ (snaps'[i] > 0 => freed' < i)
    <2>1. i \in Nat
        BY <1>3 DEF CountsMove
    <2>2. CASE i = visible + 1
        BY <1>2, <2>2
    <2>3. CASE i \in DOMAIN snaps /\ (snaps'[i] > 0 => snaps[i] > 0)
        <3>1. i <= visible + 1 /\ (snaps[i] > 0 => freed < i)
            BY <2>3 DEF TrackerInv, TrackerHonoursCounts
        <3> QED
            BY <1>1, <1>2, <2>1, <2>3, <3>1
    <2> QED
        BY <1>3, <2>2, <2>3 DEF CountsMove
<1> QED
    BY <1>2, <1>3 DEF TrackerInv, TrackerHonoursCounts

LEMMA ClosedCounts ==
    ASSUME NEW s, DOMAIN s \subseteq Nat \ {0}, s \in [DOMAIN s -> Nat],
           NEW i \in Nat
    PROVE  /\ DOMAIN Closed(s, i) = DOMAIN s
           /\ \A j \in DOMAIN s : Closed(s, i)[j] > 0 => s[j] > 0
           /\ DOMAIN ClosedByCommit(s, i) = DOMAIN s
           /\ \A j \in DOMAIN s : ClosedByCommit(s, i)[j] > 0 => s[j] > 0
<1>1. /\ DOMAIN Closed(s, i) = DOMAIN s
      /\ \A j \in DOMAIN s : Closed(s, i)[j] > 0 => s[j] > 0
      /\ \A j \in DOMAIN s : Closed(s, i)[j] \in Nat
    BY DEF Closed
<1>2. /\ DOMAIN Closed(Closed(s, i), i) = DOMAIN s
      /\ \A j \in DOMAIN s :
            Closed(Closed(s, i), i)[j] > 0 => Closed(s, i)[j] > 0
    BY <1>1 DEF Closed
<1> QED
    BY <1>1, <1>2 DEF ClosedByCommit

LEMMA TrackerGc ==
    ASSUME TypeInv, TrackerInv, Gc
    PROVE  TrackerInv'
<1> DEFINE kept == {i \in DOMAIN snaps : snaps[i] > 0 \/ i >= Seqno}
<1>1. kept \in SUBSET (Nat \ {0}) /\ visible \in Nat /\ freed \in Nat
    BY DEF TypeInv, TypeOK
<1>2. FreedBelow(kept) \in Nat /\ \A j \in kept : FreedBelow(kept) < j
    BY <1>1, FreedBelowKept
<1>3. FreedBelow(kept) <= visible
    <2>1. CASE kept = {}
        BY <1>1, <2>1 DEF FreedBelow
    <2>2. CASE kept # {}
        <3>1. PICK j \in kept : j <= visible + 1
            BY <2>2 DEF TrackerInv
        <3> QED
            BY <1>1, <1>2, <3>1
    <2> QED
        BY <2>1, <2>2
<1>4. /\ snaps' = [i \in kept |-> snaps[i]] /\ UNCHANGED visible
      /\ freed' = Max(freed, FreedBelow(kept))
    BY DEF Gc, jvars
<1>5. freed' <= visible /\ \A i \in kept : snaps[i] > 0 => freed' < i
    BY <1>1, <1>2, <1>3, <1>4
    DEF Max, TrackerInv, TrackerHonoursCounts
<1> QED
    BY <1>4, <1>5 DEF TrackerInv, TrackerHonoursCounts

LEMMA TrackerStep ==
    ASSUME TypeInv, TrackerInv, [Next]_vars
    PROVE  TrackerInv'
<1> DEFINE Shrinks == DOMAIN snaps' = DOMAIN snaps
                      /\ \A i \in DOMAIN snaps : snaps'[i] > 0 => snaps[i] > 0
<1>1. /\ DOMAIN snaps \subseteq Nat \ {0} /\ snaps \in [DOMAIN snaps -> Nat]
      /\ visible \in Nat /\ wsnap \in Nat
      /\ \A t \in Tx : instant[t] \in Nat
      /\ \A r \in Reader : rsnap[r] \in Nat
    BY DEF TypeInv, TypeOK
<1>2. ASSUME UNCHANGED freed, visible' \in Nat, visible <= visible', Shrinks
      PROVE  TrackerInv'
    BY <1>1, <1>2, TrackerCounts DEF CountsMove
<1>3. ASSUME UNCHANGED <<freed, visible>>, snaps' = Opened(snaps, Seqno)
      PROVE  TrackerInv'
    <2>1. /\ DOMAIN snaps' = DOMAIN snaps \cup {visible + 1}
          /\ \A i \in DOMAIN snaps : i # visible + 1 => snaps'[i] = snaps[i]
        BY <1>3 DEF Opened, Seqno
    <2> QED
        BY <1>1, <1>3, <2>1, TrackerCounts DEF CountsMove
<1>4. ASSUME NEW t \in Tx, PersistWatermark(t)
      PROVE  TrackerInv'
    <2> DEFINE s == ClosedByCommit(snaps, wsnap)
    <2>1. /\ DOMAIN s = DOMAIN snaps
          /\ \A j \in DOMAIN snaps : s[j] > 0 => snaps[j] > 0
          /\ DOMAIN s \subseteq Nat \ {0} /\ s \in [DOMAIN s -> Nat]
        BY <1>1, ClosedCounts, ClosedByCommitType
    <2>2. snaps' = s \/ snaps' = Closed(s, instant[t])
        BY <1>4 DEF PersistWatermark
    <2> HIDE DEF s
    <2>3. Shrinks
        BY <1>1, <2>1, <2>2, ClosedCounts
    <2>4. UNCHANGED freed /\ visible' \in Nat /\ visible <= visible'
        BY <1>1, <1>4
        DEF PersistWatermark, Publish, FlushFails, Refused, jvars
    <2> QED
        BY <1>2, <2>3, <2>4
<1>5. ASSUME NEW t \in Tx, Commit(t) \/ CommitDurable(t)
      PROVE  TrackerInv'
    <2>1. \/ snaps' = Closed(snaps, instant[t])
          \/ snaps' = ClosedByCommit(snaps, instant[t])
        BY <1>5, Zenon DEF Commit, CommitDurable, CommitEmpty, CommitWrites
    <2>2. Shrinks
        BY <1>1, <2>1, ClosedCounts
    <2>3. UNCHANGED freed
        BY <1>5 DEF Commit, CommitDurable
    <2>4. visible' = visible \/ visible' = visible + 1
        BY <1>5, Zenon
        DEF Commit, CommitDurable, CommitEmpty, CommitWrites, Publish,
            FlushFails, Refused, jvars
    <2> QED
        BY <1>1, <1>2, <2>2, <2>3, <2>4
<1>6. ASSUME NEW t \in Tx, Step(t)
      PROVE  TrackerInv'
    <2>1. CASE OpenSnapshot(t) \/ MintStamp(t)
        BY <1>3, <2>1 DEF OpenSnapshot, MintStamp, jvars
    <2>2. CASE Abort(t)
        BY <1>1, <1>2, <2>2, ClosedCounts DEF Abort, jvars
    <2>3. CASE PersistCommit(t)
        BY <1>1, <1>2, <2>3 DEF PersistCommit, Persisted, PersistFails
    <2>4. CASE \E l, m, p, d : Access(t, l, m, p, d)
        BY <1>1, <1>2, <2>4 DEF Access, jvars
    <2> QED
        BY <1>4, <1>5, <1>6, <2>1, <2>2, <2>3, <2>4, Zenon
        DEF Step, Get, Put, Del, RangeScan, DelRange
<1>7. ASSUME NEW r \in Reader, OpenReader(r) \/ ReadFloor(r) \/ CloseReader(r)
      PROVE  TrackerInv'
    <2>1. CASE OpenReader(r)
        BY <1>3, <2>1 DEF OpenReader, jvars
    <2>2. CASE ReadFloor(r)
        BY <1>1, <1>2, <2>2 DEF ReadFloor, jvars
    <2>3. CASE CloseReader(r)
        BY <1>1, <1>2, <2>3, ClosedCounts DEF CloseReader, jvars
    <2> QED
        BY <1>7, <2>1, <2>2, <2>3
<1>8. CASE Sync
    BY <1>1, <1>2, <1>8 DEF Sync, Persisted, PersistFails
<1>9. CASE Kill \/ PowerCut
    <2>1. PICK n \in 0..Len(journal) : Recovered(n)
        BY <1>9, CrashPrefix, Zenon
    <2> QED
        BY <2>1 DEF Recovered, TrackerInv, TrackerHonoursCounts
<1>10. CASE UNCHANGED vars
    BY <1>1, <1>2, <1>10 DEF vars, jvars
<1> QED
    BY <1>6, <1>7, <1>8, <1>9, <1>10, TrackerGc DEF Next

\* However commits, readers, rotations and crashes interleave, and although a
\* commit closes its instant twice, gc never frees an instant whose count is
\* positive: a snapshot loses its protection only with its count.
THEOREM TrackerHonoursCountsHolds == Spec => []TrackerHonoursCounts
<1>1. Init => TrackerInv
    BY DEF Init, TrackerInv, TrackerHonoursCounts
<1>2. TypeInv /\ TrackerInv /\ [Next]_vars => TrackerInv'
    BY TrackerStep
<1>3. TrackerInv => TrackerHonoursCounts
    BY DEF TrackerInv
<1> QED
    BY <1>1, <1>2, <1>3, StampInvariant, PTL DEF Spec

(***************************************************************************)
(* Dumps.  The floor is read after the snapshot, and the clock has passed  *)
(* every stamp in the journal.                                             *)
(***************************************************************************)
DumpInv ==
    \A r \in Reader :
        /\ rsnap[r] <= visible + 1 /\ (rsnap[r] = 0 => rfloor[r] = 0)
        /\ \A n \in 1..(rsnap[r] - 1) :
             rfloor[r] # 0 /\ IsData(n) => journal[n].stamp <= rfloor[r]

\* The batches below a reader's instant never change while it is open.
LEMMA DumpKept ==
    ASSUME TypeInv, DumpInv, UNCHANGED rvars,
           visible' \in Nat, visible <= visible',
           \A n \in 1..visible : journal'[n] = journal[n]
    PROVE  DumpInv'
<1>1. visible \in Nat /\ \A r \in Reader : rsnap[r] \in Nat
    BY DEF TypeInv, TypeOK
<1>2. ASSUME NEW r \in Reader
      PROVE  rsnap'[r] <= visible' + 1 /\ (rsnap'[r] = 0 => rfloor'[r] = 0)
    BY <1>1 DEF DumpInv, rvars
<1>3. ASSUME NEW r \in Reader, NEW n \in 1..(rsnap'[r] - 1), rfloor'[r] # 0,
             journal'[n].tx # NoTx
      PROVE  journal'[n].stamp <= rfloor'[r]
    <2>1. n \in 1..visible /\ n \in 1..(rsnap[r] - 1)
        BY <1>1 DEF DumpInv, rvars
    <2> QED
        BY <1>3, <2>1 DEF DumpInv, IsData, rvars
<1> QED
    BY <1>2, <1>3, Zenon DEF DumpInv, IsData

LEMMA DumpStep ==
    ASSUME TypeInv, StampInv, DumpInv, [Next]_vars
    PROVE  DumpInv'
<1>1. /\ visible \in Nat /\ visible <= Len(journal) /\ Len(journal) \in Nat
      /\ DOMAIN journal = 1..Len(journal) /\ clock \in Nat
      /\ \A r \in Reader : rsnap[r] \in Nat
    BY JournalFacts DEF TypeInv, TypeOK
<1>2. ASSUME UNCHANGED <<journal, visible, rvars>>
      PROVE  DumpInv'
    <2>1. visible' \in Nat /\ visible <= visible'
        BY <1>1, <1>2
    <2> QED
        BY <1>2, <2>1, DumpKept, Zenon
<1>3. ASSUME NEW b \in Batch, NEW keys, UNCHANGED rvars,
             Publish(b, keys) \/ FlushFails(b)
      PROVE  DumpInv'
    <2>1. \A n \in 1..visible : journal'[n] = journal[n]
        <3>1. journal' = Append(journal, b) /\ journal \in Seq(Batch)
            BY <1>3, Zenon DEF Publish, FlushFails, TypeInv, TypeOK
        <3> QED
            BY <1>1, <3>1, AppendFacts
    <2>2. visible' \in Nat /\ visible <= visible'
        <3>1. visible' = visible \/ visible' = visible + 1
            BY <1>3, Zenon DEF Publish, FlushFails
        <3> QED
            BY <1>1, <3>1
    <2> QED
        BY <1>3, <2>1, <2>2, DumpKept, Zenon
<1>4. ASSUME NEW t \in Tx, Step(t)
      PROVE  DumpInv'
    <2>1. UNCHANGED rvars
        BY <1>4, Zenon
        DEF Step, OpenSnapshot, MintStamp, PersistWatermark, Get, Put,
            Del, RangeScan, DelRange, Access, Abort, Commit, CommitDurable,
            PersistCommit
    <2>2. CASE PersistWatermark(t)
        BY <1>2, <1>3, <2>1, <2>2, BatchType, Zenon
        DEF PersistWatermark, Refused,
            jvars
    <2>3. CASE Commit(t) \/ CommitDurable(t)
        BY <1>2, <1>3, <2>1, <2>3, BatchType, Zenon DEF Commit, CommitDurable,
            CommitEmpty, CommitWrites, Refused, jvars
    <2> QED
        BY <1>2, <1>4, <2>1, <2>2, <2>3, Zenon
        DEF Step, OpenSnapshot, MintStamp, Get,
            Put, Del, RangeScan, DelRange, Access, Abort, PersistCommit,
            Persisted, PersistFails, jvars
<1>5. ASSUME NEW r \in Reader, OpenReader(r) \/ ReadFloor(r) \/ CloseReader(r)
      PROVE  DumpInv'
    <2>1. UNCHANGED <<journal, visible>>
        BY <1>5, Zenon DEF OpenReader, ReadFloor, CloseReader, jvars
    <2>2. \A q \in Reader \ {r} : rsnap'[q] = rsnap[q] /\ rfloor'[q] = rfloor[q]
        <3>1. /\ rsnap' = [rsnap EXCEPT ![r] = rsnap'[r]] \/ rsnap' = rsnap
              /\ rfloor' = [rfloor EXCEPT ![r] = rfloor'[r]] \/ rfloor' = rfloor
            <4>1. rsnap \in [Reader -> Nat] /\ rfloor \in [Reader -> Nat]
                BY DEF TypeInv, TypeOK
            <4> QED
                BY <1>5, <4>1 DEF OpenReader, ReadFloor, CloseReader
        <3> QED
            BY <3>1 DEF TypeInv, TypeOK
    <2>3. \/ rsnap'[r] = visible + 1 /\ rfloor'[r] = 0
          \/ rsnap[r] # 0 /\ rsnap'[r] = rsnap[r] /\ rfloor'[r] = clock
          \/ rsnap'[r] = 0 /\ rfloor'[r] = 0
        BY <1>5
        DEF OpenReader, ReadFloor, CloseReader, Seqno, TypeInv, TypeOK,
            DumpInv
    <2>4. /\ rsnap'[r] <= visible + 1 /\ (rsnap'[r] = 0 => rfloor'[r] = 0)
          /\ \A n \in 1..(rsnap'[r] - 1) :
                rfloor'[r] # 0 => journal[n].stamp <= rfloor'[r]
        <3>1. \A n \in 1..Len(journal) : journal[n].stamp <= clock
            BY <1>1 DEF StampInv, ClockAhead
        <3>2. rsnap[r] <= visible + 1
            BY DEF DumpInv
        <3>3. CASE rsnap'[r] = rsnap[r] /\ rfloor'[r] = clock /\ rsnap[r] # 0
            BY <1>1, <3>1, <3>2, <3>3
        <3>4. CASE rsnap'[r] = visible + 1 /\ rfloor'[r] = 0
            BY <1>1, <3>4
        <3>5. CASE rsnap'[r] = 0 /\ rfloor'[r] = 0
            BY <1>1, <3>5
        <3> QED
            BY <2>3, <3>3, <3>4, <3>5, Zenon
    <2> QED
        BY <2>1, <2>2, <2>4 DEF DumpInv, IsData
<1>6. CASE Sync \/ Gc
    BY <1>2, <1>6 DEF Sync, Gc, Persisted, PersistFails, jvars
<1>7. CASE Kill \/ PowerCut
    <2>1. PICK n \in 0..Len(journal) : Recovered(n)
        BY <1>7, CrashPrefix, Zenon
    <2>2. visible' = n /\ \A r \in Reader : rsnap'[r] = 0 /\ rfloor'[r] = 0
        BY <2>1 DEF Recovered
    <2>3. n \in Nat
        BY <1>1, <2>1
    <2> QED
        BY <2>2, <2>3 DEF DumpInv
<1>8. CASE UNCHANGED vars
    BY <1>2, <1>8 DEF vars, jvars
<1> QED
    BY <1>4, <1>5, <1>6, <1>7, <1>8 DEF Next

\* The clock floor a dump records bounds every stamp in its snapshot, because
\* dump_storage opens the snapshot before it reads the floor.
THEOREM DumpFloorCoversHolds == Spec => []DumpFloorCovers
<1>1. Init => DumpInv
    BY DEF Init, DumpInv
<1>2. TypeInv /\ StampInv /\ DumpInv /\ [Next]_vars => DumpInv'
    BY DumpStep
<1>3. DumpInv => DumpFloorCovers
    BY DEF DumpInv, DumpFloorCovers
<1> QED
    BY <1>1, <1>2, <1>3, StampInvariant, PTL DEF Spec

=============================================================================
