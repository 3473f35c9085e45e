------------------------ MODULE TxStoreDurableProofs ------------------------
(***************************************************************************)
(* The theorem of TxStore about what survives a crash.                     *)
(***************************************************************************)
EXTENDS TxStoreStampProofs

(***************************************************************************)
(* AcknowledgedSurvives says nothing of where a commit lies.  What makes   *)
(* it inductive is the place of its batch: published and before any torn   *)
(* batch as long as only kills happened or its fsync is still to come, and *)
(* fsynced once commit_durable has answered.                               *)
(***************************************************************************)
Stored(t, k) ==
    \E n \in 1..k : (torn = 0 \/ n < torn) /\ journal[n].tx = t

Survives(t) ==
    /\ pc[t] = "durable" => Stored(t, synced)
    /\ ~cut \/ pc[t] = "syncing" => Stored(t, visible)

AckInv ==
    \A t \in acked :
        /\ pc[t] \in {"committed", "syncing", "durable", "dead"}
        /\ t \notin behind => Survives(t)

LEMMA NumberFacts ==
    ASSUME TypeInv
    PROVE  /\ visible \in Nat /\ synced \in Nat /\ torn \in Nat
           /\ synced <= visible /\ torn <= visible /\ visible <= Len(journal)
           /\ Len(journal) \in Nat /\ DOMAIN journal = 1..Len(journal)
           /\ acked \subseteq Tx /\ cut \in BOOLEAN
           /\ torn # 0 => synced < torn
    BY DEF TypeInv, TypeOK, JournalInv

\* A batch stays where it is, and before a torn batch if it was.
Keeps(k, k1) ==
    \A n \in 1..k : torn = 0 \/ n < torn =>
        /\ n \in 1..k1 /\ journal'[n] = journal[n]
        /\ torn' = 0 \/ n < torn'

LEMMA StoredKept ==
    ASSUME NEW t, NEW k, NEW k1, Keeps(k, k1), Stored(t, k)
    PROVE  \E n \in 1..k1 : (torn' = 0 \/ n < torn') /\ journal'[n].tx = t
<1>1. PICK n \in 1..k : (torn = 0 \/ n < torn) /\ journal[n].tx = t
    BY Zenon DEF Stored
<1> QED
    BY <1>1, Zenon DEF Keeps

\* The commits acknowledged before the step survive it.
LEMMA AckKept ==
    ASSUME TypeInv, AckInv,
           UNCHANGED behind, NEW t \in acked,
           pc'[t] = pc[t] \/ (pc'[t] = "committed" /\ pc[t] = "syncing"),
           Keeps(synced, synced'), Keeps(visible, visible'),
           UNCHANGED cut
    PROVE  /\ pc'[t] \in {"committed", "syncing", "durable", "dead"}
           /\ t \notin behind' => Survives(t)'
<1>1. pc[t] \in {"committed", "syncing", "durable", "dead"}
    BY Zenon DEF AckInv
<1>2. ASSUME t \notin behind, pc'[t] = "durable"
      PROVE  Stored(t, synced)'
    <2>1. Stored(t, synced)
        BY <1>1, <1>2, Zenon DEF AckInv, Survives
    <2>2. PICK k, k1 : k = synced /\ k1 = synced'
        BY Zenon
    <2> QED
        BY <2>1, <2>2, StoredKept, Zenon DEF Stored
<1>3. ASSUME t \notin behind, ~cut' \/ pc'[t] = "syncing"
      PROVE  Stored(t, visible)'
    <2>1. Stored(t, visible)
        BY <1>1, <1>3, Zenon DEF AckInv, Survives
    <2>2. PICK k, k1 : k = visible /\ k1 = visible'
        BY Zenon
    <2> QED
        BY <2>1, <2>2, StoredKept, Zenon DEF Stored
<1> QED
    BY <1>1, <1>2, <1>3, Zenon DEF Survives

\* A step that acknowledges nothing and moves the journal only forward.
Forward ==
    /\ visible' \in Nat /\ synced' \in Nat /\ torn' \in Nat
    /\ visible <= visible' /\ synced <= synced'
    /\ \A n \in 1..visible : journal'[n] = journal[n]
    /\ torn' = torn \/ torn' = 0 \/ torn' > visible

LEMMA ForwardKeeps ==
    ASSUME TypeInv, Forward
    PROVE  Keeps(synced, synced') /\ Keeps(visible, visible')
<1>1. /\ \A n \in 1..visible : n \in 1..visible'
      /\ \A n \in 1..synced : n \in 1..synced' /\ n \in 1..visible
    BY NumberFacts DEF Forward
<1>2. \A n \in 1..visible : torn = 0 \/ n < torn => torn' = 0 \/ n < torn'
    <2>1. CASE torn' = torn \/ torn' = 0
        BY <2>1, Zenon
    <2>2. CASE torn' > visible
        <3> SUFFICES ASSUME NEW n \in 1..visible PROVE n < torn'
            BY Zenon
        <3>1. torn' \in Nat
            BY Zenon DEF Forward
        <3> QED
            BY <2>2, <3>1, NumberFacts
    <2> QED
        BY <2>1, <2>2, Zenon DEF Forward
<1>3. \A n \in 1..visible : journal'[n] = journal[n]
    BY Zenon DEF Forward
<1> QED
    BY <1>1, <1>2, <1>3, Zenon DEF Keeps

LEMMA AckForward ==
    ASSUME TypeInv, AckInv, Forward, UNCHANGED <<acked, behind, cut>>,
           \A t \in acked : pc'[t] = pc[t]
    PROVE  AckInv'
<1>1. Keeps(synced, synced') /\ Keeps(visible, visible')
    BY ForwardKeeps, Zenon
<1>2. ASSUME NEW t \in acked
      PROVE  /\ pc'[t] \in {"committed", "syncing", "durable", "dead"}
             /\ t \notin behind' => Survives(t)'
    BY <1>1, AckKept, Zenon
<1> QED
    BY <1>2, Zenon DEF AckInv

LEMMA StillForward ==
    ASSUME TypeInv, UNCHANGED jvars
    PROVE  Forward
    BY NumberFacts DEF Forward, jvars

\* Flushed or not, a batch is put behind the published ones.
LEMMA AppendForward ==
    ASSUME TypeInv, NEW b \in Batch, NEW keys, Publish(b, keys) \/ FlushFails(b)
    PROVE  /\ Forward
           /\ Publish(b, keys) => /\ visible' = visible + 1
                                  /\ journal'[visible + 1] = b
<1>1. /\ journal' = Append(journal, b) /\ journal \in Seq(Batch)
      /\ visible = Len(journal) /\ UNCHANGED synced
      /\ visible' = visible \/ visible' = visible + 1
      /\ Publish(b, keys) => visible' = visible + 1
      /\ torn' = torn \/ torn' = 0 \/ torn' = Len(journal) + 1
    BY Zenon DEF Publish, FlushFails, Torn, TypeInv, TypeOK, JournalInv
<1>2. /\ \A n \in 1..Len(journal) : journal'[n] = journal[n]
      /\ journal'[Len(journal) + 1] = b
    BY <1>1, AppendFacts
<1>3. /\ visible' \in Nat /\ synced' \in Nat /\ torn' \in Nat
      /\ visible <= visible' /\ synced <= synced'
      /\ torn' = torn \/ torn' = 0 \/ torn' > visible
    BY <1>1, NumberFacts
<1> QED
    BY <1>1, <1>2, <1>3, Zenon DEF Forward

LEMMA AckPersistWatermark ==
    ASSUME TypeInv, AckInv, NEW t \in Tx, PersistWatermark(t)
    PROVE  AckInv'
<1>1. pc[t] = "minted" /\ UNCHANGED <<acked, behind, cut>> /\ t \notin acked
    BY Zenon DEF PersistWatermark, bvars, AckInv
<1>2. \A u \in acked : pc'[u] = pc[u]
    <2>1. \A u \in Tx \ {t} : pc'[u] = pc[u]
        BY DEF PersistWatermark, Spend, TypeInv, TypeOK
    <2> QED
        BY <1>1, <2>1, NumberFacts, Zenon
<1>3. Forward
    <2>1. PICK b \in Batch : b = Mark(stamp[t])
        BY BatchType, Zenon
    <2>2. PICK keys : keys = {}
        BY Zenon
    <2>3. Publish(b, keys) \/ FlushFails(b) \/ Refused
        BY <2>1, <2>2, Zenon DEF PersistWatermark
    <2> QED
        BY <2>3, AppendForward, StillForward, Zenon DEF Refused
<1> QED
    BY <1>1, <1>2, <1>3, AckForward, Zenon

LEMMA AckCommit ==
    ASSUME TypeInv, AckInv, NEW t \in Tx, Commit(t) \/ CommitDurable(t)
    PROVE  AckInv'
<1>1. PICK next \in {"committed", "syncing"} :
        CommitEmpty(t, next) \/ CommitWrites(t, next)
    BY Zenon DEF Commit, CommitDurable
<1>2. pc[t] = "open" /\ UNCHANGED cut /\ t \notin acked
    BY <1>1, Zenon DEF Commit, CommitDurable, CommitEmpty, CommitWrites, AckInv
<1>3. \A u \in acked : pc'[u] = pc[u]
    <2>1. \A u \in Tx \ {t} : pc'[u] = pc[u]
        BY <1>1 DEF CommitEmpty, CommitWrites, Spend, TypeInv, TypeOK
    <2> QED
        BY <1>2, <2>1, NumberFacts, Zenon
<1>4. PICK b \in Batch : b = BatchOf(t) /\ b.tx = t
    BY BatchType, Zenon DEF BatchOf
<1>5. PICK keys : keys = WriteSet(t)
    BY Zenon
<1>6. CASE UNCHANGED <<acked, behind>>
           /\ (UNCHANGED jvars \/ FlushFails(b))
    <2>1. Forward
        BY <1>6, AppendForward, StillForward, Zenon
    <2> QED
        BY <1>2, <1>3, <1>6, <2>1, AckForward, Zenon
<1>7. CASE /\ Publish(b, keys) /\ Spend(t, next)
           /\ acked' = acked \cup {t}
           /\ behind' = IF torn' = 0 THEN behind ELSE behind \cup {t}
    <2>1. Forward /\ visible' = visible + 1 /\ journal'[visible + 1] = b
        BY <1>7, AppendForward, Zenon
    <2>2. Keeps(synced, synced') /\ Keeps(visible, visible')
        BY <2>1, ForwardKeeps, Zenon
    <2>3. ASSUME NEW u \in acked
          PROVE  /\ pc'[u] \in {"committed", "syncing", "durable", "dead"}
                 /\ u \notin behind' => Survives(u)'
        <3>1. u # t /\ (u \in behind' <=> u \in behind)
            BY <1>2, <1>7, <2>3, Zenon
        <3>2. pc[u] \in {"committed", "syncing", "durable", "dead"}
              /\ pc'[u] = pc[u]
            BY <1>3, <2>3, Zenon DEF AckInv
        <3>3. ASSUME u \notin behind, pc'[u] = "durable"
              PROVE  Stored(u, synced)'
            <4>1. Stored(u, synced)
                BY <2>3, <3>2, <3>3, Zenon DEF AckInv, Survives
            <4>2. PICK k, k1 : k = synced /\ k1 = synced'
                BY Zenon
            <4> QED
                BY <2>2, <4>1, <4>2, StoredKept, Zenon DEF Stored
        <3>4. ASSUME u \notin behind, ~cut' \/ pc'[u] = "syncing"
              PROVE  Stored(u, visible)'
            <4>1. Stored(u, visible)
                BY <1>2, <2>3, <3>2, <3>4, Zenon DEF AckInv, Survives
            <4>2. PICK k, k1 : k = visible /\ k1 = visible'
                BY Zenon
            <4> QED
                BY <2>2, <4>1, <4>2, StoredKept, Zenon DEF Stored
        <3> QED
            BY <3>1, <3>2, <3>3, <3>4, Zenon DEF Survives
    <2>4. pc'[t] = next
        BY <1>7 DEF Spend, TypeInv, TypeOK
    <2>5. ASSUME t \notin behind'
          PROVE  Survives(t)'
        <3>1. torn' = 0
            BY <1>7, <2>5, Zenon
        <3>2. visible + 1 \in 1..visible'
            BY <2>1, NumberFacts
        <3>3. Stored(t, visible)'
            BY <1>4, <2>1, <3>1, <3>2, Zenon DEF Stored
        <3> QED
            BY <2>4, <3>3, Zenon DEF Survives
    <2> QED
        BY <1>7, <2>3, <2>4, <2>5, Zenon DEF AckInv
<1> QED
    BY <1>1, <1>4, <1>5, <1>6, <1>7, Zenon DEF CommitEmpty, CommitWrites, Refused

\* An fsync, failed or not, takes nothing back.
LEMMA PersistForward ==
    ASSUME TypeInv, Persisted \/ PersistFails
    PROVE  Forward
<1>1. journal' = journal /\ visible' = visible /\ torn' = torn
    BY Zenon DEF Persisted, PersistFails
<1>2. synced' = Readable \/ synced' = synced
    BY Zenon DEF Persisted, PersistFails
<1>3. Readable \in Nat /\ synced <= Readable
    BY NumberFacts DEF Readable
<1>4. synced' \in Nat /\ synced <= synced'
    BY <1>2, <1>3, NumberFacts
<1>5. visible \in Nat /\ torn \in Nat /\ visible <= visible
    BY NumberFacts
<1> QED
    BY <1>1, <1>4, <1>5, Zenon DEF Forward

\* commit_durable answers once the fsync has covered the batch.
LEMMA AckPersistCommit ==
    ASSUME TypeInv, AckInv, NEW t \in Tx, PersistCommit(t)
    PROVE  AckInv'
<1>1. /\ pc[t] = "syncing" /\ UNCHANGED <<acked, behind, cut>>
      /\ \A u \in Tx \ {t} : pc'[u] = pc[u]
      /\ \/ Persisted /\ pc'[t] = "durable"
         \/ PersistFails /\ pc'[t] = "committed"
    BY DEF PersistCommit, bvars, TypeInv, TypeOK
<1>2. Forward
    BY <1>1, PersistForward, Zenon
<1>3. Keeps(synced, synced') /\ Keeps(visible, visible')
    BY <1>2, ForwardKeeps, Zenon
<1>4. ASSUME NEW u \in acked, u # t \/ PersistFails
      PROVE  /\ pc'[u] \in {"committed", "syncing", "durable", "dead"}
             /\ u \notin behind' => Survives(u)'
    <2>1. pc'[u] = pc[u] \/ (pc'[u] = "committed" /\ pc[u] = "syncing")
        <3>1. CASE u # t
            BY <1>1, <1>4, <3>1, NumberFacts, Zenon
        <3>2. CASE u = t /\ Persisted /\ PersistFails
            BY <3>2, NumberFacts DEF Persisted, PersistFails
        <3> QED
            BY <1>1, <1>4, <3>1, <3>2, Zenon
    <2> QED
        BY <1>1, <1>3, <2>1, AckKept, Zenon
<1>5. ASSUME Persisted, pc'[t] = "durable", t \in acked, t \notin behind'
      PROVE  Survives(t)'
    <2>1. Stored(t, visible)
        BY <1>1, <1>5, Zenon DEF AckInv, Survives
    <2>2. PICK n \in 1..visible : (torn = 0 \/ n < torn) /\ journal[n].tx = t
        BY <2>1, Zenon DEF Stored
    <2>3. UNCHANGED <<journal, visible, torn>> /\ synced' = Readable
        BY <1>5, Zenon DEF Persisted
    <2>4. n \in 1..synced'
        BY <2>2, <2>3, NumberFacts DEF Readable
    <2>5. Stored(t, synced)' /\ Stored(t, visible)'
        BY <2>2, <2>3, <2>4, Zenon DEF Stored
    <2> QED
        BY <2>5, Zenon DEF Survives
<1> QED
    BY <1>1, <1>4, <1>5, Zenon DEF AckInv

\* What recovery keeps, after a kill and after a power cut.
LEMMA AckRecovered ==
    ASSUME TypeInv, AckInv, NEW n \in 0..Len(journal), Recovered(n),
           Keeps(synced, synced'), synced' <= n,
           cut' \/ (UNCHANGED cut /\ Keeps(visible, n)), visible' = n
    PROVE  AckInv'
<1>1. UNCHANGED <<acked, behind>>
    BY Zenon DEF Recovered
<1>2. ASSUME NEW t \in acked
      PROVE  /\ pc'[t] \in {"committed", "syncing", "durable", "dead"}
             /\ t \notin behind' => Survives(t)'
    <2>1. pc'[t] = IF pc[t] \in Live THEN "dead" ELSE pc[t]
        BY <1>2, NumberFacts, Zenon DEF Recovered
    <2>2. /\ pc'[t] \in {"committed", "syncing", "durable", "dead"}
          /\ pc'[t] # "syncing" /\ (pc'[t] = "durable" => pc[t] = "durable")
        BY <1>2, <2>1, Zenon DEF AckInv, Live
    <2>3. ASSUME t \notin behind, pc'[t] = "durable"
          PROVE  Stored(t, synced)'
        <3>1. Stored(t, synced)
            BY <1>2, <2>2, <2>3, Zenon DEF AckInv, Survives
        <3>2. PICK k, k1 : k = synced /\ k1 = synced'
            BY Zenon
        <3> QED
            BY <3>1, <3>2, StoredKept, Zenon DEF Stored
    <2>4. ASSUME t \notin behind, ~cut'
          PROVE  Stored(t, visible)'
        <3>1. Stored(t, visible)
            <4>1. ~cut /\ t \notin behind
                BY <2>4
            <4> QED
                BY <1>2, <4>1, Zenon DEF AckInv, Survives
        <3>2. PICK k : k = visible
            BY Zenon
        <3>3. Keeps(k, n) /\ Stored(t, k)
            BY <2>4, <3>1, <3>2, Zenon
        <3>4. \E i \in 1..n : (torn' = 0 \/ i < torn') /\ journal'[i].tx = t
            BY <3>3, StoredKept, Zenon
        <3> QED
            BY <3>4, Zenon DEF Stored
    <2> QED
        BY <1>1, <2>2, <2>3, <2>4, Zenon DEF Survives
<1> QED
    BY <1>1, <1>2, Zenon DEF AckInv

LEMMA AckCrash ==
    ASSUME TypeInv, AckInv, Kill \/ PowerCut
    PROVE  AckInv'
<1>1. ASSUME NEW n \in 0..Len(journal), Recovered(n)
      PROVE  /\ torn' = 0 /\ visible' = n
             /\ \A i \in 1..n : journal'[i] = journal[i]
    <2>1. journal' = SubSeq(journal, 1, n) /\ journal \in Seq(Batch)
        BY <1>1, Zenon DEF Recovered, TypeInv, TypeOK
    <2>2. \A i \in 1..n : journal'[i] = journal[i]
        BY <2>1, PrefixFacts, Zenon
    <2> QED
        BY <1>1, <2>2, Zenon DEF Recovered
<1>2. CASE Kill
    <2>1. PICK n \in (IF torn = 0 THEN visible ELSE Readable)..Readable :
            Recovered(n)
        BY <1>2, Zenon DEF Kill
    <2>2. /\ n \in 0..Len(journal) /\ synced <= n
          /\ \A i \in 1..visible : torn = 0 \/ i < torn => i \in 1..n
        BY <2>1, NumberFacts DEF Readable
    <2>3. /\ torn' = 0 /\ visible' = n
          /\ \A i \in 1..n : journal'[i] = journal[i]
        BY <1>1, <2>1, <2>2, Zenon
    <2>4. UNCHANGED <<synced, cut>>
        BY <1>2, Zenon DEF Kill
    <2>5. Keeps(visible, n)
        BY <2>2, <2>3, Zenon DEF Keeps
    <2>6. \A i \in 1..synced : i \in 1..n
        BY <2>2, NumberFacts
    <2>7. Keeps(synced, synced') /\ synced' <= n
        BY <2>2, <2>3, <2>4, <2>6, Zenon DEF Keeps
    <2> QED
        BY <2>1, <2>2, <2>3, <2>4, <2>5, <2>7, AckRecovered, Zenon
<1>3. CASE PowerCut
    <2>1. PICK n \in synced..Readable : Recovered(n) /\ synced' = n
        BY <1>3, Zenon DEF PowerCut
    <2>2. n \in 0..Len(journal) /\ \A i \in 1..synced : i \in 1..n
        BY <2>1, NumberFacts DEF Readable
    <2>3. /\ torn' = 0 /\ visible' = n
          /\ \A i \in 1..n : journal'[i] = journal[i]
        BY <1>1, <2>1, <2>2, Zenon
    <2>4. Keeps(synced, synced')
        BY <2>1, <2>2, <2>3, Zenon DEF Keeps
    <2>5. synced' <= n /\ cut'
        BY <1>3, <2>1, <2>2 DEF PowerCut
    <2> QED
        BY <2>1, <2>2, <2>3, <2>4, <2>5, AckRecovered, Zenon
<1> QED
    BY <1>2, <1>3, Zenon

LEMMA AckStep ==
    ASSUME TypeInv, AckInv, [Next]_vars
    PROVE  AckInv'
<1>1. ASSUME UNCHANGED <<jvars, acked, behind, cut>>,
             \A t \in acked : pc'[t] = pc[t]
      PROVE  AckInv'
    BY <1>1, StillForward, AckForward, Zenon
<1>2. ASSUME NEW t \in Tx, UNCHANGED <<jvars, bvars>>,
             pc[t] \in {"idle", "snap", "open"},
             \A u \in Tx \ {t} : pc'[u] = pc[u]
      PROVE  AckInv'
    <2>1. t \notin acked
        BY <1>2, Zenon DEF AckInv
    <2>2. \A u \in acked : pc'[u] = pc[u]
        BY <1>2, <2>1, NumberFacts, Zenon
    <2> QED
        BY <1>1, <1>2, <2>2, Zenon DEF bvars
<1>3. ASSUME NEW t \in Tx, OpenSnapshot(t) \/ MintStamp(t) \/ Abort(t)
      PROVE  AckInv'
    <2>1. /\ UNCHANGED <<jvars, bvars>> /\ pc[t] \in {"idle", "snap", "open"}
          /\ \A u \in Tx \ {t} : pc'[u] = pc[u]
        BY <1>3 DEF OpenSnapshot, MintStamp, Abort, Spend, TypeInv, TypeOK
    <2> QED
        BY <1>2, <2>1, Zenon
<1>4. ASSUME NEW t \in Tx, NEW l, NEW m, NEW p, NEW d, Access(t, l, m, p, d)
      PROVE  AckInv'
    BY <1>1, <1>4, Zenon DEF Access, bvars
<1>5. ASSUME NEW t \in Tx, Step(t)
      PROVE  AckInv'
    BY <1>3, <1>4, <1>5, AckPersistWatermark, AckCommit, AckPersistCommit, Zenon
    DEF Step, Get, Put, Del, RangeScan, DelRange
<1>6. CASE \E r \in Reader : OpenReader(r) \/ ReadFloor(r) \/ CloseReader(r)
    BY <1>1, <1>6, Zenon DEF OpenReader, ReadFloor, CloseReader, tvars, bvars
<1>7. CASE Sync
    <2>1. Forward
        BY <1>7, PersistForward, Zenon DEF Sync
    <2> QED
        BY <1>7, <2>1, AckForward, Zenon DEF Sync, tvars, bvars
<1>8. CASE Gc
    BY <1>1, <1>8, Zenon DEF Gc, tvars
<1>9. CASE UNCHANGED vars
    BY <1>1, <1>9, Zenon DEF vars, tvars, bvars
<1> QED
    BY <1>5, <1>6, <1>7, <1>8, <1>9, AckCrash, Zenon DEF Next

\* What is acknowledged survives, for any number of kills, power cuts, failed
\* flushes and failed fsyncs: a commit every kill, a durable commit every
\* power cut, unless a journal write tore a batch up to its own.
THEOREM AcknowledgedSurvivesHolds == Spec => []AcknowledgedSurvives
<1>1. Init => AckInv
    BY Zenon DEF Init, AckInv
<1>2. TypeInv /\ AckInv /\ [Next]_vars => AckInv'
    BY AckStep
<1>3. TypeInv /\ AckInv => AcknowledgedSurvives
    <2> SUFFICES ASSUME TypeInv, AckInv, NEW t \in acked \ behind,
                        pc[t] = "durable" \/ ~cut
                 PROVE  \E n \in DOMAIN journal : journal[n].tx = t
        BY Zenon DEF AcknowledgedSurvives, Recorded
    <2>1. Stored(t, synced) \/ Stored(t, visible)
        BY Zenon DEF AckInv, Survives
    <2>2. PICK n : (n \in 1..synced \/ n \in 1..visible) /\ journal[n].tx = t
        BY <2>1, Zenon DEF Stored
    <2>3. n \in DOMAIN journal
        BY <2>2, NumberFacts
    <2> QED
        BY <2>2, <2>3, Zenon
<1> QED
    BY <1>1, <1>2, <1>3, StampInvariant, PTL DEF Spec

=============================================================================
