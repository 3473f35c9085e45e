------------------------- MODULE TxStoreTypeProofs --------------------------
(***************************************************************************)
(* Type correctness of TxStore, and lemmas about its operators, for any    *)
(* keys, transactions, readers, wall clocks and any number of crashes.     *)
(***************************************************************************)
EXTENDS TxStore, SequenceTheorems, WellFoundedInduction, TLAPS

(***************************************************************************)
(* Lemmas about the operators.                                             *)
(***************************************************************************)

\* Appending to a journal keeps the batches it has and adds one.
LEMMA AppendFacts ==
    ASSUME NEW S, NEW s \in Seq(S), NEW e \in S
    PROVE  /\ Append(s, e) \in Seq(S)
           /\ Len(Append(s, e)) = Len(s) + 1
           /\ DOMAIN Append(s, e) = 1..(Len(s) + 1)
           /\ \A i \in 1..Len(s) : Append(s, e)[i] = s[i]
           /\ Append(s, e)[Len(s) + 1] = e
    OBVIOUS

\* Recovery keeps a prefix of the journal.
LEMMA PrefixFacts ==
    ASSUME NEW S, NEW s \in Seq(S), NEW n \in 0..Len(s)
    PROVE  /\ SubSeq(s, 1, n) \in Seq(S)
           /\ Len(SubSeq(s, 1, n)) = n
           /\ DOMAIN SubSeq(s, 1, n) = 1..n
           /\ \A i \in 1..n : SubSeq(s, 1, n)[i] = s[i]
<1>1. n \in Int /\ \A i \in 1..n : s[i] \in S
    OBVIOUS
<1>2. /\ SubSeq(s, 1, n) \in Seq(S)
      /\ Len(SubSeq(s, 1, n)) = (IF 1 <= n THEN n - 1 + 1 ELSE 0)
      /\ \A i \in 1..(n - 1 + 1) : SubSeq(s, 1, n)[i] = s[1 + i - 1]
    BY <1>1, SubSeqProperties
<1>3. Len(SubSeq(s, 1, n)) = n
    BY <1>2
<1>4. \A i \in 1..n : SubSeq(s, 1, n)[i] = s[i]
    <2> SUFFICES ASSUME NEW i \in 1..n PROVE SubSeq(s, 1, n)[i] = s[i]
        OBVIOUS
    <2>1. i \in 1..(n - 1 + 1) /\ 1 + i - 1 = i
        OBVIOUS
    <2> QED
        BY <2>1, <1>2
<1> QED
    BY <1>2, <1>3, <1>4, LenProperties

\* The tracker's counts stay natural numbers on instants that exist.
LEMMA OpenedType ==
    ASSUME NEW s, DOMAIN s \subseteq Nat \ {0}, s \in [DOMAIN s -> Nat],
           NEW i \in Nat \ {0}
    PROVE  /\ DOMAIN Opened(s, i) \subseteq Nat \ {0}
           /\ Opened(s, i) \in [DOMAIN Opened(s, i) -> Nat]
    BY DEF Opened

LEMMA ClosedType ==
    ASSUME NEW s, DOMAIN s \subseteq Nat \ {0}, s \in [DOMAIN s -> Nat],
           NEW i \in Nat
    PROVE  /\ DOMAIN Closed(s, i) \subseteq Nat \ {0}
           /\ Closed(s, i) \in [DOMAIN Closed(s, i) -> Nat]
    BY DEF Closed

LEMMA ClosedByCommitType ==
    ASSUME NEW s, DOMAIN s \subseteq Nat \ {0}, s \in [DOMAIN s -> Nat],
           NEW i \in Nat
    PROVE  /\ DOMAIN ClosedByCommit(s, i) \subseteq Nat \ {0}
           /\ ClosedByCommit(s, i) \in [DOMAIN ClosedByCommit(s, i) -> Nat]
    BY ClosedType DEF ClosedByCommit

\* A nonempty set of natural numbers has a least element.
LEMMA Least ==
    ASSUME NEW K \in SUBSET Nat, K # {}
    PROVE  \E i \in K : \A j \in K : i <= j
<1>1. PICK i \in K : \A j \in K : ~(<<j, i>> \in OpToRel(<, Nat))
    BY NatLessThanWellFounded, WFMin, Zenon
<1>2. \A j \in K : ~(j < i)
    BY <1>1, Zenon DEF OpToRel
<1> QED
    BY <1>2

\* What gc frees lies below every snapshot it keeps.
LEMMA FreedBelowKept ==
    ASSUME visible \in Nat, NEW K \in SUBSET (Nat \ {0})
    PROVE  FreedBelow(K) \in Nat /\ \A j \in K : FreedBelow(K) < j
<1>1. CASE K = {}
    BY <1>1 DEF FreedBelow
<1>2. CASE K # {}
    <2> DEFINE least == CHOOSE i \in K : \A j \in K : i <= j
    <2>1. least \in K /\ \A j \in K : least <= j
        BY <1>2, Least, Zenon
    <2>2. FreedBelow(K) = least - 1
        BY <1>2, Zenon DEF FreedBelow
    <2> HIDE DEF least
    <2> QED
        BY <2>1, <2>2
<1> QED
    BY <1>1, <1>2

LEMMA CommittedType ==
    ASSUME DOMAIN committed \subseteq Nat,
           committed \in [DOMAIN committed -> SUBSET Key],
           freed \in Nat
    PROVE  /\ DOMAIN Retained(committed) \subseteq Nat
           /\ Retained(committed) \in [DOMAIN Retained(committed) -> SUBSET Key]
           /\ \A ts \in Nat, keys \in SUBSET Key :
                LET c == Noted(Retained(committed), ts, keys) IN
                DOMAIN c \subseteq Nat /\ c \in [DOMAIN c -> SUBSET Key]
    BY DEF Retained, Noted

(***************************************************************************)
(* Type correctness.  It needs the journal's shape: published batches are  *)
(* a prefix of the journal, the whole of it unless a flush failed; a torn  *)
(* batch is published; and what counts as fsynced is published and lies    *)
(* before a torn batch.                                                    *)
(***************************************************************************)
JournalInv ==
    /\ synced <= visible /\ torn <= visible
    /\ torn # 0 => synced < torn
    /\ ~poisoned => visible = Len(journal)

TypeInv == TypeOK /\ JournalInv

LEMMA SeqnoType == TypeInv => Seqno \in Nat \ {0}
    BY DEF TypeInv, TypeOK, Seqno

LEMMA BatchType ==
    ASSUME TypeInv, NEW t \in Tx
    PROVE  Mark(stamp[t]) \in Batch /\ BatchOf(t) \in Batch
    BY DEF TypeInv, TypeOK, Mark, BatchOf, Batch

\* A batch that reaches the journal, whether its flush succeeds or fails.
LEMMA PublishType ==
    ASSUME TypeInv, NEW b \in Batch, NEW keys \in SUBSET Key,
           Publish(b, keys) \/ FlushFails(b) \/ Refused
    PROVE  /\ journal' \in Seq(Batch)
           /\ visible' \in 0..Len(journal') /\ synced' \in 0..Len(journal')
           /\ poisoned' \in BOOLEAN /\ torn' \in 0..Len(journal')
           /\ DOMAIN committed' \subseteq Nat
           /\ committed' \in [DOMAIN committed' -> SUBSET Key]
           /\ JournalInv'
<1>1. visible + 2 \in Nat
    BY DEF TypeInv, TypeOK
<1>2. /\ DOMAIN committed' \subseteq Nat
      /\ committed' \in [DOMAIN committed' -> SUBSET Key]
    <2>1. /\ DOMAIN committed \subseteq Nat
          /\ committed \in [DOMAIN committed -> SUBSET Key]
          /\ freed \in Nat
        BY DEF TypeInv, TypeOK
    <2>2. \/ committed' = Noted(Retained(committed), visible + 2, keys)
          \/ committed' = Retained(committed)
        BY DEF Publish, FlushFails, Refused
    <2> QED
        BY <1>1, <2>1, <2>2, CommittedType
<1>3. CASE Publish(b, keys)
    <2>1. /\ journal' = Append(journal, b) /\ journal \in Seq(Batch)
          /\ visible' = visible + 1 /\ ~poisoned
          /\ UNCHANGED <<synced, poisoned>>
          /\ torn' = 0 \/ torn' = torn \/ torn' = Len(journal) + 1
        BY <1>3, Zenon DEF Publish, Torn, TypeInv, TypeOK
    <2>2. /\ journal' \in Seq(Batch) /\ Len(journal') = Len(journal) + 1
          /\ Len(journal) \in Nat
        BY <2>1, AppendFacts
    <2>3. /\ visible = Len(journal) /\ synced \in 0..Len(journal)
          /\ torn \in 0..Len(journal) /\ (torn # 0 => synced < torn)
          /\ poisoned \in BOOLEAN
        BY <2>1, Zenon DEF TypeInv, TypeOK, JournalInv
    <2>4. /\ visible' \in 0..Len(journal') /\ synced' \in 0..Len(journal')
          /\ torn' \in 0..Len(journal') /\ JournalInv'
        BY <2>1, <2>2, <2>3 DEF JournalInv
    <2> QED
        BY <1>2, <2>1, <2>2, <2>3, <2>4, Zenon
<1>4. CASE FlushFails(b)
    BY <1>2, <1>4, AppendFacts DEF FlushFails, TypeInv, TypeOK, JournalInv
<1>5. CASE Refused
    BY <1>2, <1>5 DEF Refused, TypeInv, TypeOK, JournalInv, jvars
<1> QED
    BY <1>3, <1>4, <1>5

\* Whatever the crash, what is recovered is a prefix of the journal.
LEMMA CrashPrefix ==
    ASSUME TypeInv, Kill \/ PowerCut
    PROVE  \E n \in 0..Len(journal) : Recovered(n)
<1>1. PICK n : Recovered(n) /\ (\/ n \in synced..Readable
                                \/ n \in visible..Readable
                                \/ n \in Readable..Readable)
    BY Zenon DEF Kill, PowerCut
<1>2. n \in 0..Len(journal)
    BY <1>1 DEF Readable, TypeInv, TypeOK
<1> QED
    BY <1>1, <1>2, Zenon

LEMMA SpendType ==
    ASSUME TypeInv, NEW t \in Tx, NEW next \in Live \cup Finished,
           next # "minted", Spend(t, next)
    PROVE  /\ pc' \in [Tx -> Live \cup Finished \cup {"idle"}]
           /\ instant' \in [Tx -> Nat] /\ stamp' \in [Tx -> Nat]
           /\ reads' \in [Tx -> SUBSET Key]
           /\ puts' \in [Tx -> SUBSET Key] /\ dels' \in [Tx -> SUBSET Key]
           /\ looked' \in [Tx -> SUBSET Key]
           /\ \A u \in Tx : pc'[u] = "minted" <=> u # t /\ wlock = u
    BY DEF TypeInv, TypeOK, Spend

LEMMA TypeInit == Init => TypeInv
<1> SUFFICES ASSUME Init PROVE TypeInv
    OBVIOUS
<1>1. journal \in Seq(Batch) /\ Len(journal) = 0
    BY EmptySeq DEF Init
<1>2. /\ DOMAIN snaps \subseteq Nat \ {0} /\ snaps \in [DOMAIN snaps -> Nat]
      /\ DOMAIN committed \subseteq Nat
      /\ committed \in [DOMAIN committed -> SUBSET Key]
    BY DEF Init
<1>3. clock \in Nat
    BY TxStoreAssumption DEF Init
<1>4. /\ pc \in [Tx -> Live \cup Finished \cup {"idle"}]
      /\ \A t \in Tx : pc[t] = "minted" <=> wlock = t
    BY TxStoreAssumption DEF Init
<1>5. /\ instant \in [Tx -> Nat] /\ stamp \in [Tx -> Nat]
      /\ reads \in [Tx -> SUBSET Key]
      /\ puts \in [Tx -> SUBSET Key] /\ dels \in [Tx -> SUBSET Key]
      /\ looked \in [Tx -> SUBSET Key]
      /\ rsnap \in [Reader -> Nat] /\ rfloor \in [Reader -> Nat]
    BY DEF Init
<1>6. /\ visible \in 0..Len(journal) /\ synced \in 0..Len(journal)
      /\ torn \in 0..Len(journal) /\ JournalInv
    BY <1>1 DEF Init, JournalInv
<1>7. /\ poisoned \in BOOLEAN /\ wlock \in Tx \cup {NoTx} /\ wsnap \in Nat
      /\ freed \in Nat /\ gcs \in Nat /\ crashes \in Nat /\ cut \in BOOLEAN
      /\ acked \in SUBSET Tx /\ behind \in SUBSET acked
    BY Zenon DEF Init
<1> QED
    BY <1>1, <1>2, <1>3, <1>4, <1>5, <1>6, <1>7 DEF TypeInv, TypeOK

LEMMA TypeStep ==
    ASSUME TypeInv, [Next]_vars
    PROVE  TypeInv'
<1> USE TxStoreAssumption DEF Live, Finished
<1>1. ASSUME NEW t \in Tx, OpenSnapshot(t)
      PROVE  TypeInv'
    <2>1. Seqno \in Nat \ {0}
        BY SeqnoType
    <2>2. /\ DOMAIN snaps' \subseteq Nat \ {0}
          /\ snaps' \in [DOMAIN snaps' -> Nat]
        BY <1>1, <2>1, OpenedType, Zenon DEF OpenSnapshot, TypeInv, TypeOK
    <2> QED
        BY <1>1, <2>1, <2>2, Zenon
        DEF OpenSnapshot, TypeInv, TypeOK, JournalInv,
            jvars, cvars, rvars, bvars
<1>2. ASSUME NEW t \in Tx, MintStamp(t)
      PROVE  TypeInv'
    <2>1. Seqno \in Nat \ {0}
        BY SeqnoType
    <2>2. /\ DOMAIN snaps' \subseteq Nat \ {0}
          /\ snaps' \in [DOMAIN snaps' -> Nat]
        BY <1>2, <2>1, OpenedType, Zenon DEF MintStamp, TypeInv, TypeOK
    <2>3. clock' \in Nat
        BY <1>2 DEF MintStamp, TypeInv, TypeOK, Max
    <2>4. \A u \in Tx : pc'[u] = "minted" <=> wlock' = u
        BY <1>2 DEF MintStamp, TypeInv, TypeOK
    <2> QED
        BY <1>2, <2>1, <2>2, <2>3, <2>4, Zenon DEF MintStamp, TypeInv, TypeOK,
            JournalInv, jvars, rvars, bvars
<1>3. ASSUME NEW t \in Tx, PersistWatermark(t)
      PROVE  TypeInv'
    <2>1. Mark(stamp[t]) \in Batch /\ {} \in SUBSET Key
        BY BatchType
    <2>2. \/ Publish(Mark(stamp[t]), {})
          \/ FlushFails(Mark(stamp[t]))
          \/ Refused
        BY <1>3 DEF PersistWatermark
    <2>3. /\ journal' \in Seq(Batch)
          /\ visible' \in 0..Len(journal') /\ synced' \in 0..Len(journal')
          /\ poisoned' \in BOOLEAN /\ torn' \in 0..Len(journal')
          /\ DOMAIN committed' \subseteq Nat
          /\ committed' \in [DOMAIN committed' -> SUBSET Key]
          /\ JournalInv'
        BY <2>1, <2>2, PublishType, Zenon
    <2>4. wsnap \in Nat /\ instant[t] \in Nat
        BY DEF TypeInv, TypeOK
    <2>5. /\ DOMAIN snaps' \subseteq Nat \ {0}
          /\ snaps' \in [DOMAIN snaps' -> Nat]
        <3> DEFINE s == ClosedByCommit(snaps, wsnap)
        <3>1. DOMAIN s \subseteq Nat \ {0} /\ s \in [DOMAIN s -> Nat]
            BY <2>4, ClosedByCommitType, Zenon DEF TypeInv, TypeOK
        <3>2. snaps' = s \/ snaps' = Closed(s, instant[t])
            BY <1>3 DEF PersistWatermark
        <3> HIDE DEF s
        <3> QED
            BY <2>4, <3>1, <3>2, ClosedType
    <2>6. /\ pc' \in [Tx -> Live \cup Finished \cup {"idle"}]
          /\ instant' \in [Tx -> Nat] /\ stamp' \in [Tx -> Nat]
          /\ reads' \in [Tx -> SUBSET Key]
          /\ puts' \in [Tx -> SUBSET Key] /\ dels' \in [Tx -> SUBSET Key]
          /\ looked' \in [Tx -> SUBSET Key]
          /\ \A u \in Tx : pc'[u] # "minted"
        <3>1. CASE Spend(t, "failed")
            BY <1>3, <3>1, SpendType, Zenon
            DEF PersistWatermark, TypeInv, TypeOK
        <3>2. CASE /\ pc' = [pc EXCEPT ![t] = "open"]
                   /\ UNCHANGED <<instant, stamp, reads, puts, dels, looked>>
            BY <1>3, <3>2 DEF PersistWatermark, TypeInv, TypeOK
        <3> QED
            BY <1>3, <3>1, <3>2 DEF PersistWatermark
    <2> QED
        BY <1>3, <2>3, <2>5, <2>6, Zenon DEF PersistWatermark, TypeInv, TypeOK,
            rvars, bvars
<1>4. ASSUME NEW t \in Tx, NEW l \in SUBSET Key, NEW m \in SUBSET Key,
             NEW p \in SUBSET Key, NEW d \in SUBSET Key, Access(t, l, m, p, d)
      PROVE  TypeInv'
    BY <1>4, Zenon
    DEF Access, TypeInv, TypeOK, JournalInv, jvars, cvars, rvars, bvars
<1>5. ASSUME NEW t \in Tx, NEW k \in Key, Get(t, k) \/ Put(t, k) \/ Del(t, k)
      PROVE  TypeInv'
    BY <1>4, <1>5 DEF Get, Put, Del
<1>6. ASSUME NEW t \in Tx, NEW r \in KeyRange,
             RangeScan(t, r) \/ DelRange(t, r)
      PROVE  TypeInv'
    <2>1. r \in SUBSET Key /\ r \cap View(t) \in SUBSET Key /\ {} \in SUBSET Key
        BY <1>6
    <2>2. \/ Access(t, r, r, {}, {})
          \/ Access(t, r, r, {}, r \cap View(t))
        BY <1>6 DEF RangeScan, DelRange
    <2> QED
        BY <1>4, <2>1, <2>2, Zenon
<1>7. ASSUME NEW t \in Tx, Abort(t)
      PROVE  TypeInv'
    <2>1. /\ DOMAIN snaps' \subseteq Nat \ {0}
          /\ snaps' \in [DOMAIN snaps' -> Nat]
        BY <1>7, ClosedType, Zenon DEF Abort, TypeInv, TypeOK
    <2>2. \A u \in Tx : pc'[u] = "minted" <=> wlock' = u
        BY <1>7, SpendType, Zenon DEF Abort, TypeInv, TypeOK, cvars
    <2> QED
        BY <1>7, <2>1, <2>2, SpendType, Zenon
        DEF Abort, TypeInv, TypeOK, JournalInv,
            jvars, cvars, rvars, bvars
<1>8. ASSUME NEW t \in Tx, Commit(t) \/ CommitDurable(t)
      PROVE  TypeInv'
    <2>1. PICK next \in {"committed", "syncing"} :
            /\ CommitEmpty(t, next) \/ CommitWrites(t, next)
            /\ UNCHANGED <<cvars, freed, rvars, gcs, crashes, cut>>
        BY <1>8 DEF Commit, CommitDurable
    <2>2. pc[t] = "open" /\ wlock # t
        BY <2>1 DEF CommitEmpty, CommitWrites, TypeInv, TypeOK
    <2>3. \E x \in {"committed", "syncing", "conflict", "failed"} : Spend(t, x)
        BY <2>1 DEF CommitEmpty, CommitWrites
    <2>4. /\ pc' \in [Tx -> Live \cup Finished \cup {"idle"}]
          /\ instant' \in [Tx -> Nat] /\ stamp' \in [Tx -> Nat]
          /\ reads' \in [Tx -> SUBSET Key]
          /\ puts' \in [Tx -> SUBSET Key] /\ dels' \in [Tx -> SUBSET Key]
          /\ looked' \in [Tx -> SUBSET Key]
          /\ \A u \in Tx : pc'[u] = "minted" <=> u # t /\ wlock = u
        BY <2>3, SpendType
    <2>5. /\ DOMAIN snaps' \subseteq Nat \ {0}
          /\ snaps' \in [DOMAIN snaps' -> Nat]
        <3>1. \/ snaps' = Closed(snaps, instant[t])
              \/ snaps' = ClosedByCommit(snaps, instant[t])
            BY <2>1 DEF CommitEmpty, CommitWrites
        <3>2. /\ DOMAIN snaps \subseteq Nat \ {0}
              /\ snaps \in [DOMAIN snaps -> Nat] /\ instant[t] \in Nat
            BY DEF TypeInv, TypeOK
        <3> QED
            BY <3>1, <3>2, ClosedType, ClosedByCommitType
    <2>6. /\ journal' \in Seq(Batch)
          /\ visible' \in 0..Len(journal') /\ synced' \in 0..Len(journal')
          /\ poisoned' \in BOOLEAN /\ torn' \in 0..Len(journal')
          /\ DOMAIN committed' \subseteq Nat
          /\ committed' \in [DOMAIN committed' -> SUBSET Key]
          /\ JournalInv'
        <3>1. CASE UNCHANGED <<jvars, committed>>
            BY <3>1 DEF TypeInv, TypeOK, JournalInv, jvars
        <3>2. CASE UNCHANGED jvars /\ committed' = Retained(committed)
            BY <3>2, CommittedType
            DEF TypeInv, TypeOK, JournalInv, jvars
        <3>3. CASE \/ Publish(BatchOf(t), WriteSet(t))
                   \/ FlushFails(BatchOf(t)) \/ Refused
            <4>1. BatchOf(t) \in Batch /\ WriteSet(t) \in SUBSET Key
                BY BatchType, Zenon DEF WriteSet, TypeInv, TypeOK
            <4> QED
                BY <3>3, <4>1, PublishType
        <3> QED
            BY <2>1, <3>1, <3>2, <3>3 DEF CommitEmpty, CommitWrites
    <2>7. acked' \in SUBSET Tx /\ behind' \in SUBSET acked'
        BY <2>1 DEF CommitEmpty, CommitWrites, TypeInv, TypeOK
    <2> QED
        BY <2>1, <2>2, <2>4, <2>5, <2>6, <2>7, Zenon
        DEF TypeInv, TypeOK, cvars, rvars
<1>9. ASSUME Persisted \/ PersistFails
      PROVE  /\ journal' \in Seq(Batch)
             /\ visible' \in 0..Len(journal') /\ synced' \in 0..Len(journal')
             /\ poisoned' \in BOOLEAN /\ torn' \in 0..Len(journal')
             /\ JournalInv'
    <2>1. CASE Persisted
        BY <2>1 DEF Persisted, Readable, TypeInv, TypeOK, JournalInv
    <2>2. CASE PersistFails
        BY <2>2 DEF PersistFails, TypeInv, TypeOK, JournalInv
    <2> QED
        BY <1>9, <2>1, <2>2
<1>10. ASSUME NEW t \in Tx, PersistCommit(t)
       PROVE  TypeInv'
    <2>1. \A u \in Tx : pc'[u] = "minted" <=> wlock' = u
        <3>1. /\ UNCHANGED wlock /\ pc[t] # "minted"
              /\ \/ pc' = [pc EXCEPT ![t] = "durable"]
                 \/ pc' = [pc EXCEPT ![t] = "committed"]
            BY <1>10 DEF PersistCommit, cvars
        <3> QED
            BY <3>1 DEF TypeInv, TypeOK
    <2> QED
        BY <1>9, <1>10, <2>1, Zenon
        DEF PersistCommit, TypeInv, TypeOK, cvars, rvars,
            bvars
<1>11. CASE Sync
    BY <1>9, <1>11, Zenon DEF Sync, TypeInv, TypeOK, cvars, tvars, rvars, bvars
<1>12. ASSUME NEW r \in Reader, OpenReader(r)
       PROVE  TypeInv'
    <2>1. Seqno \in Nat \ {0}
        BY SeqnoType
    <2>2. /\ DOMAIN snaps' \subseteq Nat \ {0}
          /\ snaps' \in [DOMAIN snaps' -> Nat]
        BY <1>12, <2>1, OpenedType, Zenon DEF OpenReader, TypeInv, TypeOK
    <2> QED
        BY <1>12, <2>1, <2>2, Zenon
        DEF OpenReader, TypeInv, TypeOK, JournalInv,
            jvars, cvars, tvars, bvars
<1>13. ASSUME NEW r \in Reader, ReadFloor(r)
       PROVE  TypeInv'
    <2>1. rfloor' \in [Reader -> Nat]
        BY <1>13 DEF ReadFloor, TypeInv, TypeOK
    <2> QED
        BY <1>13, <2>1, Zenon
        DEF ReadFloor, TypeInv, TypeOK, JournalInv, jvars, cvars, tvars, bvars
<1>14. ASSUME NEW r \in Reader, CloseReader(r)
       PROVE  TypeInv'
    <2>1. /\ DOMAIN snaps' \subseteq Nat \ {0}
          /\ snaps' \in [DOMAIN snaps' -> Nat]
        BY <1>14, ClosedType, Zenon DEF CloseReader, TypeInv, TypeOK
    <2> QED
        <3>1. rsnap' \in [Reader -> Nat] /\ rfloor' \in [Reader -> Nat]
            BY <1>14 DEF CloseReader, TypeInv, TypeOK
        <3> QED
            BY <1>14, <2>1, <3>1, Zenon
            DEF CloseReader, TypeInv, TypeOK, JournalInv, jvars,
                cvars, tvars, bvars
<1>15. CASE Gc
    <2> DEFINE kept == {i \in DOMAIN snaps : snaps[i] > 0 \/ i >= Seqno}
    <2>1. kept \in SUBSET (Nat \ {0}) /\ visible \in Nat
        BY DEF TypeInv, TypeOK
    <2>2. FreedBelow(kept) \in Nat
        BY <2>1, FreedBelowKept
    <2>3. freed' \in Nat
        BY <1>15, <2>2 DEF Gc, Max, TypeInv, TypeOK
    <2>4. /\ DOMAIN snaps' \subseteq Nat \ {0}
          /\ snaps' \in [DOMAIN snaps' -> Nat]
        BY <1>15, <2>1 DEF Gc, TypeInv, TypeOK
    <2>5. gcs' \in Nat /\ UNCHANGED <<jvars, cvars, committed, tvars, rvars,
                                      crashes, cut, acked, behind>>
        BY <1>15 DEF Gc, TypeInv, TypeOK
    <2> HIDE DEF kept
    <2> QED
        BY <2>3, <2>4, <2>5, Zenon
        DEF TypeInv, TypeOK, JournalInv, jvars, cvars,
            tvars, rvars
<1>16. ASSUME NEW n \in synced..Len(journal), Recovered(n),
              synced' \in 0..n, cut' \in BOOLEAN
       PROVE  TypeInv'
    <2>1. n \in 0..Len(journal)
        BY DEF TypeInv, TypeOK
    <2>2. journal' \in Seq(Batch) /\ Len(journal') = n
        BY <1>16, <2>1, PrefixFacts, Zenon DEF Recovered, TypeInv, TypeOK
    <2>3. clock' \in Nat
        <3>1. PICK now \in Wall : Seeded(now, n)
            BY <1>16 DEF Recovered
        <3>2. PICK w \in 0..n :
                \/ w = 0 /\ clock' = now
                \/ w # 0 /\ clock' = Max(now, journal[w].stamp)
            BY <3>1 DEF Seeded
        <3>3. w # 0 => journal[w].stamp \in Nat
            <4>1. w # 0 => w \in 1..Len(journal)
                BY <2>1
            <4>2. journal \in Seq(Batch)
                BY Zenon DEF TypeInv, TypeOK
            <4>3. w # 0 => journal[w] \in Batch
                BY <4>1, <4>2
            <4> QED
                BY <4>3 DEF Batch
        <3> QED
            BY <3>2, <3>3 DEF Max
    <2>4. \A u \in Tx : pc'[u] = "minted" <=> wlock' = u
        BY <1>16, Zenon DEF Recovered, TypeInv, TypeOK
    <2>5. pc' \in [Tx -> Live \cup Finished \cup {"idle"}]
        BY <1>16 DEF Recovered, TypeInv, TypeOK
    <2>6. /\ DOMAIN snaps' \subseteq Nat \ {0}
          /\ snaps' \in [DOMAIN snaps' -> Nat]
          /\ DOMAIN committed' \subseteq Nat
          /\ committed' \in [DOMAIN committed' -> SUBSET Key]
        <3>1. /\ snaps' = [i \in {} |-> 0]
              /\ committed' = [ts \in {} |-> {}]
            BY <1>16, Zenon DEF Recovered
        <3>2. DOMAIN snaps' = {} /\ DOMAIN committed' = {}
            BY <3>1, Zenon
        <3>3. snaps' \in [DOMAIN snaps' -> Nat]
            BY <3>1, <3>2, Zenon
        <3>4. committed' \in [DOMAIN committed' -> SUBSET Key]
            BY <3>1, <3>2, Zenon
        <3> QED
            BY <3>2, <3>3, <3>4, Zenon
    <2>7. /\ visible' = n /\ poisoned' = FALSE /\ wlock' = NoTx /\ wsnap' = 0
          /\ freed' \in Nat /\ crashes' \in Nat /\ torn' = 0
          /\ UNCHANGED <<gcs, acked, behind>>
        <3>1. /\ visible' = n /\ poisoned' = FALSE /\ wlock' = NoTx
              /\ wsnap' = 0 /\ freed' = n /\ crashes' = crashes + 1
              /\ torn' = 0 /\ UNCHANGED <<gcs, acked, behind>>
            BY <1>16, Zenon DEF Recovered
        <3>2. n \in Nat /\ crashes \in Nat
            BY <2>1 DEF TypeInv, TypeOK
        <3> QED
            BY <3>1, <3>2
    <2>8. /\ instant' \in [Tx -> Nat] /\ stamp' \in [Tx -> Nat]
          /\ reads' \in [Tx -> SUBSET Key]
          /\ puts' \in [Tx -> SUBSET Key] /\ dels' \in [Tx -> SUBSET Key]
          /\ looked' \in [Tx -> SUBSET Key]
          /\ rsnap' \in [Reader -> Nat] /\ rfloor' \in [Reader -> Nat]
        BY <1>16 DEF Recovered
    <2> QED
        <3>1. JournalInv' /\ visible' \in 0..Len(journal')
              /\ synced' \in 0..Len(journal') /\ torn' \in 0..Len(journal')
            BY <1>16, <2>1, <2>2, <2>7 DEF JournalInv
        <3>2. poisoned' \in BOOLEAN /\ wlock' \in Tx \cup {NoTx}
              /\ wsnap' \in Nat /\ gcs' \in Nat /\ acked' \in SUBSET Tx
              /\ behind' \in SUBSET acked'
            BY <2>7, Zenon DEF TypeInv, TypeOK
        <3> QED
            BY <1>16, <2>2, <2>3, <2>4, <2>5, <2>6, <2>7, <2>8, <3>1, <3>2,
                Zenon
            DEF TypeInv, TypeOK
<1>17. CASE Kill
    <2>1. PICK n \in (IF torn = 0 THEN visible ELSE Readable)..Readable :
            Recovered(n)
        BY <1>17, Zenon DEF Kill
    <2>2. n \in synced..Len(journal) /\ synced' \in 0..n /\ cut' \in BOOLEAN
        BY <1>17, <2>1 DEF Kill, Readable, TypeInv, TypeOK, JournalInv
    <2> QED
        BY <2>1, <2>2, <1>16
<1>18. CASE PowerCut
    <2>1. PICK n \in synced..Readable : Recovered(n) /\ synced' = n
        BY <1>18, Zenon DEF PowerCut
    <2>2. n \in synced..Len(journal) /\ synced' \in 0..n /\ cut' \in BOOLEAN
        BY <1>18, <2>1 DEF PowerCut, Readable, TypeInv, TypeOK, JournalInv
    <2> QED
        BY <2>1, <2>2, <1>16
<1>19. CASE UNCHANGED vars
    BY <1>19, Zenon
    DEF vars, TypeInv, TypeOK, JournalInv, jvars, cvars, tvars, rvars,
        bvars
<1>20. ASSUME NEW t \in Tx, Step(t)
       PROVE  TypeInv'
    <2>1. CASE \E k \in Key : Get(t, k) \/ Put(t, k) \/ Del(t, k)
        BY <1>5, <2>1
    <2>2. CASE \E r \in KeyRange : RangeScan(t, r) \/ DelRange(t, r)
        BY <1>6, <2>2
    <2> QED
        BY <1>1, <1>2, <1>3, <1>7, <1>8, <1>10, <1>20, <2>1, <2>2 DEF Step
<1> QED
    BY <1>11, <1>12, <1>13, <1>14, <1>15, <1>17, <1>18, <1>19, <1>20 DEF Next

\* TypeOK is an invariant of the store: published and fsynced batches are in
\* the journal, and only the holder of watermark_lock has minted a stamp it
\* has not persisted, through failing flushes, kills and power cuts.
THEOREM TypeCorrect == Spec => []TypeOK
<1>1. Init => TypeInv
    BY TypeInit
<1>2. TypeInv /\ [Next]_vars => TypeInv'
    BY TypeStep
<1>3. TypeInv => TypeOK
    BY DEF TypeInv
<1> QED
    BY <1>1, <1>2, <1>3, PTL DEF Spec

=============================================================================
