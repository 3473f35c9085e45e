------------------------------ MODULE TxStore ------------------------------
(***************************************************************************)
(* The transactional store: the fjall adapter of store/fjall.rs (snapshot, *)
(* system stamp, conflict-tracked reads and writes, commit, fsync), the    *)
(* monotone SystemClock of store/contract.rs, and the parts of the         *)
(* vendored fjall it rests on: the optimistic commit oracle, the snapshot  *)
(* tracker and the write-ahead journal.                                    *)
(*                                                                         *)
(* A batch's sequence number is its place in the journal.  The format-     *)
(* version record written when a store is created is batch 0 and is not    *)
(* represented, so a snapshot taken when `visible' batches are published   *)
(* has instant visible + 1 and sees the batches below its instant.         *)
(***************************************************************************)
EXTENDS Naturals, Sequences, FiniteSets

CONSTANTS
    Key,        \* keys of the main keyspace
    KeyRange,   \* the key ranges a scan or a range deletion may name
    Tx,         \* write transactions, each run at most once
    Reader,     \* read transactions
    Wall,       \* readings of the wall clock, which may go backwards
    MaxGc,      \* bound: garbage-collection passes of the snapshot tracker
    MaxCrash,   \* bound: process kills and power cuts
    Faulty,     \* whether a write, flush or fsync of the journal may fail
    NoTx

ASSUME TxStoreAssumption ==
    /\ KeyRange \subseteq SUBSET Key
    /\ Wall \subseteq Nat /\ Wall # {}
    /\ MaxGc \in Nat /\ MaxCrash \in Nat /\ Faulty \in BOOLEAN
    /\ NoTx \notin Tx

VARIABLES
    journal,    \* batches in journal order; a watermark batch has tx = NoTx
    visible,    \* batches applied to the memtables and published
    synced,     \* batches that are fsynced and that recovery can read
    poisoned,   \* Database::is_poisoned
    torn,       \* place of the first batch written in part, 0 if none
    clock,      \* SystemClock: the last stamp minted
    wlock,      \* owner of watermark_lock, and
    wsnap,      \* the instant of the owner's watermark insert
    snaps,      \* SnapshotTracker::data: instant -> number of open snapshots
    freed,      \* SnapshotTracker::lowest_freed_instant
    committed,  \* Oracle: commit instant -> keys the transaction wrote
    pc,         \* control state of each write transaction
    instant,    \* its snapshot
    stamp,      \* its system stamp
    reads,      \* the keys and ranges its conflict manager has marked read
    puts, dels, \* its write set
    looked,     \* history: the keys its caller has read
    rsnap,      \* instant of each open read transaction, 0 when closed
    rfloor,     \* the clock floor a dump read after its snapshot
    gcs,        \* bound counters, and three history variables:
    crashes,    \*
    cut,        \* whether power was ever cut
    acked,      \* transactions with writes whose commit was applied
    behind      \* those of them that lie at or behind a torn batch

jvars == <<journal, visible, synced, poisoned, torn>>
cvars == <<clock, wlock, wsnap>>
tvars == <<pc, instant, stamp, reads, puts, dels, looked>>
rvars == <<rsnap, rfloor>>
bvars == <<gcs, crashes, cut, acked, behind>>
vars  == <<jvars, cvars, snaps, freed, committed, tvars, rvars, bvars>>

Live     == {"snap", "minted", "open", "syncing"}
Finished == {"committed", "durable", "conflict", "aborted", "failed", "dead"}

Max(a, b) == IF a >= b THEN a ELSE b

(***************************************************************************)
(* Snapshots and the conflict oracle.                                      *)
(***************************************************************************)
Seqno == visible + 1

\* SnapshotTracker::open and close_raw; closing what is not open is ignored.
Opened(s, i) ==
    [j \in DOMAIN s \cup {i} |->
        IF j \notin DOMAIN s THEN 1 ELSE IF j = i THEN s[j] + 1 ELSE s[j]]

Closed(s, i) ==
    [j \in DOMAIN s |-> IF j = i /\ s[j] > 0 THEN s[j] - 1 ELSE s[j]]

\* What a transaction that goes through Oracle::with_commit does to the
\* tracker: with_commit calls close_raw, and the SnapshotNonce inside the
\* transaction closes the same instant again when it is dropped.
ClosedByCommit(s, i) == Closed(Closed(s, i), i)

\* committed_txns.retain(|ts, _| *ts > safe_to_gc)
Retained(c) == [ts \in {u \in DOMAIN c : u > freed} |-> c[ts]]

Noted(c, ts, keys) ==
    [u \in DOMAIN c \cup {ts} |-> IF u = ts THEN keys ELSE c[u]]

WriteSet(t) == puts[t] \cup dels[t]

\* Mutant: the window of concurrent commits opens one instant too late.
ConflictedLate(t) ==
    \E ts \in DOMAIN committed :
        ts > instant[t] + 1 /\ committed[ts] \cap reads[t] # {}

Conflicted(t) ==
    \E ts \in DOMAIN committed :
        ts > instant[t] /\ committed[ts] \cap reads[t] # {}

(***************************************************************************)
(* The journal.                                                            *)
(***************************************************************************)
IsData(n) == journal[n].tx # NoTx

Mark(s) == [tx |-> NoTx, snap |-> 0, stamp |-> s,
            reads |-> {}, puts |-> {}, dels |-> {}]

BatchOf(t) == [tx |-> t, snap |-> instant[t], stamp |-> stamp[t],
               reads |-> looked[t], puts |-> puts[t], dels |-> dels[t]]

Written(n) == journal[n].puts \cup journal[n].dels

\* Whether key k has a row in the snapshot at instant i.
Present(i, k) ==
    \E n \in 1..(i - 1) :
        /\ k \in journal[n].puts
        /\ \A m \in (n + 1)..(i - 1) : k \notin journal[m].dels

\* A transaction reads its own writes over its snapshot.
View(t) == {k \in Key : \/ k \in puts[t]
                        \/ k \notin dels[t] /\ Present(instant[t], k)}

\* Recovery stops at the first batch without its end marker and truncates
\* the journal there: the batches before it are the ones that can be read.
Readable == IF torn = 0 THEN Len(journal) ELSE torn - 1

\* Whether the batch appended next is written in full.  commit discards the
\* result of write_batch, so a batch may be torn and still be flushed,
\* applied and acknowledged.  A watermark record fits the journal's buffer,
\* which is empty when a batch starts, and cannot be torn.
Torn(b) ==
    IF Faulty /\ torn = 0 /\ b.tx # NoTx THEN {0, Len(journal) + 1} ELSE {torn}

\* The batch commit under the journal lock, once the oracle has admitted it:
\* journal write and flush, memtable apply, publish, and the oracle's entry.
Publish(b, keys) ==
    /\ ~poisoned
    /\ journal' = Append(journal, b)
    /\ visible' = visible + 1
    /\ torn' \in Torn(b)
    /\ committed' = Noted(Retained(committed), visible + 2, keys)
    /\ UNCHANGED <<synced, poisoned>>

\* The flush fails: the batch is not applied and the database is poisoned,
\* but its bytes may have reached the journal file.
FlushFails(b) ==
    /\ Faulty /\ ~poisoned
    /\ journal' = Append(journal, b)
    /\ poisoned' = TRUE
    /\ committed' = Retained(committed)
    /\ UNCHANGED <<visible, synced, torn>>

\* A poisoned database refuses the batch before it reaches the journal.
Refused ==
    /\ poisoned
    /\ committed' = Retained(committed)
    /\ UNCHANGED jvars

\* commit and abort consume the transaction.
Spend(t, next) ==
    /\ pc' = [pc EXCEPT ![t] = next]
    /\ instant' = [instant EXCEPT ![t] = 0]
    /\ stamp' = [stamp EXCEPT ![t] = 0]
    /\ reads' = [reads EXCEPT ![t] = {}]
    /\ puts' = [puts EXCEPT ![t] = {}]
    /\ dels' = [dels EXCEPT ![t] = {}]
    /\ looked' = [looked EXCEPT ![t] = {}]

(***************************************************************************)
(* Opening a write transaction: snapshot, then stamp, then watermark.      *)
(***************************************************************************)
OpenSnapshot(t) ==
    /\ pc[t] = "idle"
    /\ pc' = [pc EXCEPT ![t] = "snap"]
    /\ instant' = [instant EXCEPT ![t] = Seqno]
    /\ snaps' = Opened(snaps, Seqno)
    /\ UNCHANGED <<jvars, cvars, freed, committed, stamp, reads, puts, dels,
                   looked, rvars, bvars>>

\* Mutant: the stamp only has to reach the last one, not exceed it.
MintStampNotStrict(t) ==
    /\ pc[t] = "snap" /\ wlock = NoTx
    /\ pc' = [pc EXCEPT ![t] = "minted"]
    /\ \E now \in Wall : clock' = Max(now, clock)
    /\ stamp' = [stamp EXCEPT ![t] = clock']
    /\ wlock' = t
    /\ wsnap' = Seqno
    /\ snaps' = Opened(snaps, Seqno)
    /\ UNCHANGED <<jvars, freed, committed, instant, reads, puts, dels,
                   looked, rvars, bvars>>

\* Under watermark_lock: mint the stamp, and open the transaction of the
\* blind watermark insert.
MintStamp(t) ==
    /\ pc[t] = "snap" /\ wlock = NoTx
    /\ pc' = [pc EXCEPT ![t] = "minted"]
    /\ \E now \in Wall : clock' = Max(now, clock + 1)
    /\ stamp' = [stamp EXCEPT ![t] = clock']
    /\ wlock' = t
    /\ wsnap' = Seqno
    /\ snaps' = Opened(snaps, Seqno)
    /\ UNCHANGED <<jvars, freed, committed, instant, reads, puts, dels,
                   looked, rvars, bvars>>

\* Commit the watermark insert and release the lock.  When it fails, write_tx
\* returns the error and drops the transaction it had opened.
PersistWatermark(t) ==
    /\ pc[t] = "minted" /\ wlock = t
    /\ wlock' = NoTx /\ wsnap' = 0
    /\ \/ /\ Publish(Mark(stamp[t]), {})
          /\ pc' = [pc EXCEPT ![t] = "open"]
          /\ snaps' = ClosedByCommit(snaps, wsnap)
          /\ UNCHANGED <<instant, stamp, reads, puts, dels, looked>>
       \/ /\ FlushFails(Mark(stamp[t])) \/ Refused
          /\ Spend(t, "failed")
          /\ snaps' = Closed(ClosedByCommit(snaps, wsnap), instant[t])
    /\ UNCHANGED <<clock, freed, rvars, bvars>>

(***************************************************************************)
(* Reads and writes inside an open write transaction.                      *)
(***************************************************************************)
\* Look at the keys l, mark the keys m read, put p and delete d.
Access(t, l, m, p, d) ==
    /\ pc[t] = "open"
    /\ looked' = [looked EXCEPT ![t] = @ \cup l]
    /\ reads' = [reads EXCEPT ![t] = @ \cup m]
    /\ puts' = [puts EXCEPT ![t] = (@ \ d) \cup p]
    /\ dels' = [dels EXCEPT ![t] = (@ \ p) \cup d]
    /\ UNCHANGED <<jvars, cvars, snaps, freed, committed, pc, instant, stamp,
                   rvars, bvars>>

Get(t, k) == Access(t, {k}, {k}, {}, {})

\* Mutant: the scanned range is not tracked.
RangeScanUntracked(t, r) == Access(t, r, {}, {}, {})

RangeScan(t, r) == Access(t, r, r, {}, {})

\* Mutant: the written key is not marked read.
PutUnvalidated(t, k) == Access(t, {}, {}, {k}, {})

\* insert / remove, then mark_written_key_validated puts the key on the
\* read side of the conflict check too.
Put(t, k) == Access(t, {}, {k}, {k}, {})

Del(t, k) == Access(t, {}, {k}, {}, {k})

\* The range is tracked as read; the keys removed are the ones in view.
DelRange(t, r) == Access(t, r, r, {}, r \cap View(t))

(***************************************************************************)
(* Ending a write transaction.                                             *)
(***************************************************************************)
Abort(t) ==
    /\ pc[t] = "open"
    /\ Spend(t, "aborted")
    /\ snaps' = Closed(snaps, instant[t])
    /\ UNCHANGED <<jvars, cvars, freed, committed, rvars, bvars>>

\* Commit and commit_durable differ in what follows a successful commit.
CommitEmpty(t, next) ==
    /\ pc[t] = "open" /\ WriteSet(t) = {}
    /\ Spend(t, next)
    /\ snaps' = Closed(snaps, instant[t])
    /\ UNCHANGED <<jvars, committed, acked, behind>>

CommitWrites(t, next) ==
    /\ pc[t] = "open" /\ WriteSet(t) # {}
    /\ snaps' = ClosedByCommit(snaps, instant[t])
    /\ \/ /\ Conflicted(t)
          /\ Spend(t, "conflict")
          /\ committed' = Retained(committed)
          /\ UNCHANGED <<jvars, acked, behind>>
       \/ /\ ~Conflicted(t)
          /\ Publish(BatchOf(t), WriteSet(t))
          /\ Spend(t, next)
          /\ acked' = acked \cup {t}
          /\ behind' = IF torn' = 0 THEN behind ELSE behind \cup {t}
       \/ /\ ~Conflicted(t)
          /\ FlushFails(BatchOf(t)) \/ Refused
          /\ Spend(t, "failed")
          /\ UNCHANGED <<acked, behind>>

Commit(t) ==
    /\ CommitEmpty(t, "committed") \/ CommitWrites(t, "committed")
    /\ UNCHANGED <<cvars, freed, rvars, gcs, crashes, cut>>

CommitDurable(t) ==
    /\ CommitEmpty(t, "syncing") \/ CommitWrites(t, "syncing")
    /\ UNCHANGED <<cvars, freed, rvars, gcs, crashes, cut>>

\* Mutant: the fsync is taken to cover the next batch.
PersistedOneAhead ==
    /\ ~poisoned
    /\ synced' = Readable + 1
    /\ UNCHANGED <<journal, visible, poisoned, torn>>

\* Database::persist(SyncAll): everything is fsynced, of which recovery can
\* read what lies before a torn batch.
Persisted ==
    /\ ~poisoned
    /\ synced' = Readable
    /\ UNCHANGED <<journal, visible, poisoned, torn>>

PersistFails ==
    /\ Faulty \/ poisoned
    /\ poisoned' = TRUE
    /\ UNCHANGED <<journal, visible, synced, torn>>

\* The fsync half of commit_durable.  When only the fsync fails, the
\* transaction is committed.
PersistCommit(t) ==
    /\ pc[t] = "syncing"
    /\ \/ Persisted /\ pc' = [pc EXCEPT ![t] = "durable"]
       \/ PersistFails /\ pc' = [pc EXCEPT ![t] = "committed"]
    /\ UNCHANGED <<cvars, snaps, freed, committed, instant, stamp, reads, puts,
                   dels, looked, rvars, bvars>>

Sync ==
    /\ Persisted \/ PersistFails
    /\ UNCHANGED <<cvars, snaps, freed, committed, tvars, rvars, bvars>>

(***************************************************************************)
(* Read transactions; a dump reads the clock floor after its snapshot.     *)
(***************************************************************************)
OpenReader(r) ==
    /\ rsnap[r] = 0
    /\ rsnap' = [rsnap EXCEPT ![r] = Seqno]
    /\ snaps' = Opened(snaps, Seqno)
    /\ UNCHANGED <<jvars, cvars, freed, committed, tvars, rfloor, bvars>>

\* Mutant: the dump reads the floor first and opens its snapshot second.
ReadFloorFirst(r) ==
    /\ rsnap[r] = 0 /\ rfloor[r] = 0
    /\ rfloor' = [rfloor EXCEPT ![r] = clock]
    /\ UNCHANGED <<jvars, cvars, snaps, freed, committed, tvars, rsnap, bvars>>

ReadFloor(r) ==
    /\ rsnap[r] # 0 /\ rfloor[r] = 0
    /\ rfloor' = [rfloor EXCEPT ![r] = clock]
    /\ UNCHANGED <<jvars, cvars, snaps, freed, committed, tvars, rsnap, bvars>>

CloseReader(r) ==
    /\ rsnap[r] # 0
    /\ rsnap' = [rsnap EXCEPT ![r] = 0]
    /\ rfloor' = [rfloor EXCEPT ![r] = 0]
    /\ snaps' = Closed(snaps, rsnap[r])
    /\ UNCHANGED <<jvars, cvars, freed, committed, tvars, bvars>>

\* Mutant: the lowest retained instant itself is freed.
FreedUpTo(kept) ==
    IF kept = {} THEN visible
    ELSE CHOOSE i \in kept : \A j \in kept : i <= j

\* The instants below every retained snapshot are free.
FreedBelow(kept) ==
    IF kept = {} THEN visible
    ELSE (CHOOSE i \in kept : \A j \in kept : i <= j) - 1

(***************************************************************************)
(* SnapshotTracker::gc, which a memtable rotation or the ten-thousandth    *)
(* close runs at any time.  (pullup, which a rotation runs first, stores   *)
(* what gc computes when no snapshot is recorded.)                         *)
(***************************************************************************)
Gc ==
    /\ gcs < MaxGc
    /\ gcs' = gcs + 1
    /\ LET kept == {i \in DOMAIN snaps : snaps[i] > 0 \/ i >= Seqno} IN
       /\ snaps' = [i \in kept |-> snaps[i]]
       /\ freed' = Max(freed, FreedBelow(kept))
    /\ UNCHANGED <<jvars, cvars, committed, tvars, rvars, crashes, cut,
                   acked, behind>>

\* Mutant: the reopened clock starts from the wall clock alone.
SeededByWall(now, n) == clock' = now

\* Reopening starts the clock at the wall clock or the last watermark among
\* the n recovered batches, whichever is later.
Seeded(now, n) ==
    \E w \in 0..n :
        /\ \/ w = 0 /\ clock' = now
           \/ w # 0 /\ ~IsData(w) /\ clock' = Max(now, journal[w].stamp)
        /\ \A m \in (w + 1)..n : IsData(m)

(***************************************************************************)
(* A crash ends every transaction; reopening recovers the journal, starts  *)
(* a new oracle and tracker, and seeds the clock from the watermark.  A    *)
(* killed process keeps what was flushed, a power cut only what was        *)
(* fsynced; a batch whose flush failed may or may not be recovered, and a  *)
(* torn batch is lost with everything behind it.                           *)
(***************************************************************************)
Recovered(n) ==
    /\ crashes < MaxCrash
    /\ crashes' = crashes + 1
    /\ journal' = SubSeq(journal, 1, n)
    /\ visible' = n
    /\ poisoned' = FALSE
    /\ torn' = 0
    /\ \E now \in Wall : Seeded(now, n)
    /\ wlock' = NoTx /\ wsnap' = 0
    /\ snaps' = [i \in {} |-> 0]
    /\ freed' = n
    /\ committed' = [ts \in {} |-> {}]
    /\ pc' = [t \in Tx |-> IF pc[t] \in Live THEN "dead" ELSE pc[t]]
    /\ instant' = [t \in Tx |-> 0]
    /\ stamp' = [t \in Tx |-> 0]
    /\ reads' = [t \in Tx |-> {}]
    /\ puts' = [t \in Tx |-> {}]
    /\ dels' = [t \in Tx |-> {}]
    /\ looked' = [t \in Tx |-> {}]
    /\ rsnap' = [r \in Reader |-> 0]
    /\ rfloor' = [r \in Reader |-> 0]
    /\ UNCHANGED <<gcs, acked, behind>>

\* Mutant: commits stay in the process's buffer until an fsync.
KillLosingBuffer ==
    /\ \E n \in synced..Readable : Recovered(n)
    /\ UNCHANGED <<synced, cut>>

Kill ==
    /\ \E n \in (IF torn = 0 THEN visible ELSE Readable)..Readable : Recovered(n)
    /\ UNCHANGED <<synced, cut>>

PowerCut ==
    /\ \E n \in synced..Readable : Recovered(n) /\ synced' = n
    /\ cut' = TRUE

(***************************************************************************)
(* The specification.                                                      *)
(***************************************************************************)
Init ==
    /\ journal = <<>> /\ visible = 0 /\ synced = 0 /\ poisoned = FALSE
    /\ torn = 0
    /\ clock \in Wall /\ wlock = NoTx /\ wsnap = 0
    /\ snaps = [i \in {} |-> 0] /\ freed = 0
    /\ committed = [ts \in {} |-> {}]
    /\ pc = [t \in Tx |-> "idle"]
    /\ instant = [t \in Tx |-> 0]
    /\ stamp = [t \in Tx |-> 0]
    /\ reads = [t \in Tx |-> {}]
    /\ puts = [t \in Tx |-> {}]
    /\ dels = [t \in Tx |-> {}]
    /\ looked = [t \in Tx |-> {}]
    /\ rsnap = [r \in Reader |-> 0]
    /\ rfloor = [r \in Reader |-> 0]
    /\ gcs = 0 /\ crashes = 0 /\ cut = FALSE
    /\ acked = {} /\ behind = {}

Step(t) ==
    \/ OpenSnapshot(t) \/ MintStamp(t) \/ PersistWatermark(t)
    \/ \E k \in Key : Get(t, k) \/ Put(t, k) \/ Del(t, k)
    \/ \E r \in KeyRange : RangeScan(t, r) \/ DelRange(t, r)
    \/ Abort(t) \/ Commit(t) \/ CommitDurable(t) \/ PersistCommit(t)

Next ==
    \/ \E t \in Tx : Step(t)
    \/ \E r \in Reader : OpenReader(r) \/ ReadFloor(r) \/ CloseReader(r)
    \/ Sync \/ Gc \/ Kill \/ PowerCut

Spec == Init /\ [][Next]_vars

(***************************************************************************)
(* Properties.                                                             *)
(***************************************************************************)
Batch == [tx : Tx \cup {NoTx}, snap : Nat, stamp : Nat,
          reads : SUBSET Key, puts : SUBSET Key, dels : SUBSET Key]

\* Every variable has its type; published and fsynced batches are in the
\* journal; only the holder of watermark_lock is between mint and persist.
TypeOK ==
    /\ journal \in Seq(Batch)
    /\ visible \in 0..Len(journal) /\ synced \in 0..Len(journal)
    /\ poisoned \in BOOLEAN /\ torn \in 0..Len(journal)
    /\ clock \in Nat /\ wlock \in Tx \cup {NoTx} /\ wsnap \in Nat
    /\ freed \in Nat
    /\ DOMAIN snaps \subseteq Nat \ {0} /\ snaps \in [DOMAIN snaps -> Nat]
    /\ DOMAIN committed \subseteq Nat
    /\ committed \in [DOMAIN committed -> SUBSET Key]
    /\ pc \in [Tx -> Live \cup Finished \cup {"idle"}]
    /\ instant \in [Tx -> Nat] /\ stamp \in [Tx -> Nat]
    /\ reads \in [Tx -> SUBSET Key]
    /\ puts \in [Tx -> SUBSET Key] /\ dels \in [Tx -> SUBSET Key]
    /\ looked \in [Tx -> SUBSET Key]
    /\ rsnap \in [Reader -> Nat] /\ rfloor \in [Reader -> Nat]
    /\ gcs \in Nat /\ crashes \in Nat /\ cut \in BOOLEAN
    /\ acked \in SUBSET Tx /\ behind \in SUBSET acked
    /\ \A t \in Tx : pc[t] = "minted" <=> wlock = t

\* Reads-from order agrees with stamp order (store/contract.rs, write_tx of
\* store/fjall.rs): a transaction that can read another's write carries a
\* strictly greater stamp, for open and for committed transactions, and for
\* writers recovered from before a crash.
StampOrder ==
    /\ \A t \in Tx : pc[t] \in {"minted", "open"} =>
         \A n \in 1..(instant[t] - 1) : IsData(n) => journal[n].stamp < stamp[t]
    /\ \A n \in DOMAIN journal : IsData(n) =>
         \A m \in 1..(journal[n].snap - 1) :
            IsData(m) => journal[m].stamp < journal[n].stamp

\* No system stamp is ever minted twice among the transactions whose rows
\* survive: what the persisted watermark is for.
NoStampReused ==
    \A m, n \in DOMAIN journal :
        IsData(m) /\ IsData(n) /\ m # n => journal[m].stamp # journal[n].stamp

\* First committer wins, over reads and writes alike: between a committed
\* transaction's snapshot and its commit, nobody wrote what it read or wrote.
NoLostUpdate ==
    \A n \in DOMAIN journal : IsData(n) =>
        \A m \in journal[n].snap..(n - 1) :
            Written(m) \cap (journal[n].reads \cup Written(n)) = {}

\* First committer wins for each transaction by itself, garbage collection or
\* not: a commit whose snapshot the tracker has not freed overwrites nothing
\* and has missed nothing that was committed after its snapshot.
ProtectedCommit ==
    [][\A n \in DOMAIN journal' \ DOMAIN journal :
         journal'[n].tx # NoTx /\ freed < journal'[n].snap =>
           \A m \in journal'[n].snap..(n - 1) :
             Written(m) \cap (journal'[n].reads \cup journal'[n].puts
                                \cup journal'[n].dels) = {}]_vars

\* The conflict window of an open transaction is never collected: the
\* tracker's watermark stays below the instant of every open snapshot.
SnapshotsProtected ==
    /\ \A t \in Tx : pc[t] \in {"snap", "minted", "open"} => freed < instant[t]
    /\ \A r \in Reader : rsnap[r] # 0 => freed < rsnap[r]

\* SnapshotTracker::gc never moves the watermark to or past an instant that
\* still has a count, across commits, readers and repeated passes.
TrackerHonoursCounts ==
    \A i \in DOMAIN snaps : snaps[i] > 0 => freed < i

Recorded(t) == \E n \in DOMAIN journal : journal[n].tx = t

\* A commit that commit_durable acknowledged survives every power cut, and
\* one that commit acknowledged survives every kill of the process, provided
\* that no batch up to its own was torn by a journal write whose error the
\* batch commit discarded.
AcknowledgedSurvives ==
    \A t \in acked \ behind : pc[t] = "durable" \/ ~cut => Recorded(t)

\* The same of commit_durable without the proviso, as its doc and the doc of
\* the batch commit promise: a commit acknowledged as durable is never lost.
DurableSurvives ==
    \A t \in acked : pc[t] = "durable" => Recorded(t)

\* The clock floor that a dump records bounds every stamp in its snapshot.
DumpFloorCovers ==
    \A r \in Reader : rfloor[r] # 0 =>
        \A n \in 1..(rsnap[r] - 1) : IsData(n) => journal[n].stamp <= rfloor[r]

\* The refinement mapping: the published data batches are the serial
\* history, and each transaction saw what its snapshot held.
SeenWriter(i, k) ==
    LET w == {n \in 1..(i - 1) : k \in Written(n)}
    IN  IF w = {} THEN NoTx
        ELSE journal[CHOOSE n \in w : \A m \in w : m <= n].tx

History(n) ==
    LET d == SelectSeq(SubSeq(journal, 1, n), LAMBDA b : b.tx # NoTx)
    IN  [j \in DOMAIN d |->
            [tx |-> d[j].tx, writes |-> d[j].puts \cup d[j].dels,
             saw |-> [k \in d[j].reads |-> SeenWriter(d[j].snap, k)]]]

Serial == INSTANCE SerialStore
            WITH hist <- History(visible),
                 durable <- Cardinality({n \in 1..synced : IsData(n)})

\* Committed transactions are serializable in commit order: what each one
\* read from its snapshot is what it would have read running alone at its
\* commit, and crashes only undo transactions that were not made durable.
Serializable == Serial!Spec

=============================================================================
