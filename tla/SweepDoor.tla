----------------------------- MODULE SweepDoor -----------------------------
(***************************************************************************)
(* The commit door: intents are admitted under the live write session,     *)
(* wait in a queue or join the cohort of an open fsync window, and are     *)
(* sealed one at a time or as one overlap batch.  A durable seal applies   *)
(* the transaction, assigns the next commit ordinal, and extends the chain *)
(* of state roots and the hash-chained log together.                       *)
(*                                                                         *)
(* Sources: store/sweep.rs (SweepDoor), store/merkle.rs (RootChain),       *)
(* store/wal.rs (WalRecord, WalSegment, replay).                           *)
(*                                                                         *)
(* A session (fence epoch and incarnation) is a number; a door is known by *)
(* the session it opened under.  `current` is the session the caller       *)
(* passes: the door compares itself with that value only, and nothing in   *)
(* the code ties the value to what the Store holds at the commit.  A       *)
(* SHA-256 digest is abstracted to the sequence of everything it covers,   *)
(* <<>> for genesis; the caller's content root is the intent it is for.    *)
(* A refused call changes no state and is not an action.                   *)
(***************************************************************************)
EXTENDS Integers, Sequences
LOCAL INSTANCE SequencesExt

CONSTANTS
  MaxIntents,   \* bound: intents each door admits
  MaxSession,   \* bound: sessions the caller passes
  MaxTries,     \* bound: times one intent's transaction is applied
  Outcome       \* what a transaction's commit may answer

ASSUME SweepConstants ==
  /\ MaxIntents \in Nat /\ MaxSession \in Nat /\ MaxTries \in Nat
  /\ Outcome \subseteq {"ok", "refused", "errored"}

VARIABLES
  current,   \* the session the caller passes to every call
  opened,    \* the session the door opened under
  next,      \* next_intent
  last,      \* last_sealed_intent, -1 before the first
  highest,   \* highest_commit
  window,    \* whether an fsync window is open
  queue,     \* IntentionQueue
  cohort,    \* overlap_cohort
  roots,     \* RootChain: the links minted by this door
  wal,       \* WalSegment: the records appended by this door
  tip,       \* wal_tip
  cut,       \* last_durable_cut
  applied,   \* of each intent callers hold, how often it reached storage
  fsynced,   \* history: intents whose commit_durable succeeded
  dropped,   \* history: intents applied by a batch that failed later on
  proofs     \* history: the Applied and Committed proofs of every door

door == <<opened, next, last, highest, window, queue, cohort, roots, wal, tip, cut>>
storage == <<applied, fsynced, dropped>>
vars == <<current, door, storage, proofs>>

Intent == [session : Nat, ord : Nat]
StateRoot == Seq([ord : Nat, intent : Intent])
WalHash == Seq([ord : Nat, body : StateRoot])
Link == [ord : Nat, intent : Intent, prior : StateRoot]
Record == [ord : Nat, body : StateRoot, pred : WalHash]
Cut == [ord : Nat, root : StateRoot, hash : WalHash]
Proof == [kind : {"Applied"}, intent : Intent]
         \cup [kind : {"Committed"}, ord : Nat, intent : Intent]

TypeOK ==
  /\ current \in Nat /\ opened \in 0 .. current
  /\ next \in Nat /\ last \in -1 .. next - 1 /\ highest \in Nat
  /\ window \in BOOLEAN
  /\ queue \in Seq(Intent) /\ cohort \in Seq(Intent)
  /\ roots \in Seq(Link) /\ wal \in Seq(Record) /\ tip \in WalHash /\ cut \in Cut
  /\ DOMAIN applied \subseteq Intent /\ \A i \in DOMAIN applied : applied[i] \in Nat
  /\ fsynced \subseteq DOMAIN applied /\ dropped \subseteq fsynced
  /\ proofs \subseteq Proof

\* GENESIS_ROOT and GENESIS_PREDECESSOR.
GENESIS == <<>>

NoCut == [ord |-> 0, root |-> GENESIS, hash |-> GENESIS]

Init ==
  /\ current = 0 /\ opened = 0
  /\ next = 0 /\ last = -1 /\ highest = 0
  /\ window = FALSE /\ queue = <<>> /\ cohort = <<>>
  /\ roots = <<>> /\ wal = <<>> /\ tip = GENESIS /\ cut = NoCut
  /\ applied = <<>> /\ fsynced = {} /\ dropped = {} /\ proofs = {}

\* recheck_session: the session passed is the one the door opened under.
SessionLive == current = opened

\* Mutant: an intent may be sealed again.
PrepareSealAgain(i) == SessionLive /\ i.session = current /\ i.ord >= last

\* Mutant: check_intent_order is skipped.
PrepareSealUnordered(i) == SessionLive /\ i.session = current

\* prepare_seal: live session, the intent's session, strictly increasing order.
PrepareSeal(i) == SessionLive /\ i.session = current /\ i.ord > last

-----------------------------------------------------------------------------
\* admit: mint an ordinal and join the open window's cohort, or the queue.
Admit ==
  /\ SessionLive /\ next < MaxIntents
  /\ LET i == [session |-> current, ord |-> next]
     IN  /\ applied' = [j \in DOMAIN applied \cup {i} |-> IF j = i THEN 0 ELSE applied[j]]
         /\ cohort' = IF window THEN Append(cohort, i) ELSE cohort
         /\ queue' = IF window THEN queue ELSE Append(queue, i)
  /\ next' = next + 1
  /\ UNCHANGED <<current, opened, last, highest, window, roots, wal, tip, cut,
                 fsynced, dropped, proofs>>

\* begin_fsync_window: the queue becomes the initial cohort.
BeginFsyncWindow ==
  /\ SessionLive /\ ~window
  /\ cohort' = cohort \o queue /\ queue' = <<>>
  /\ window' = TRUE
  /\ UNCHANGED <<current, opened, next, last, highest, roots, wal, tip, cut,
                 storage, proofs>>

-----------------------------------------------------------------------------
(* Minting.  Digests cover their predecessor's digest and their content.   *)

Root(link) == Append(link.prior, [ord |-> link.ord, intent |-> link.intent])
RecordHash(record) == Append(record.pred, [ord |-> record.ord, body |-> record.body])

\* RootChain::prior_root and WalSegment::terminal_hash.
PriorRoot(links) == IF links = <<>> THEN GENESIS ELSE Root(Last(links))
TerminalHash(records) == IF records = <<>> THEN GENESIS ELSE RecordHash(Last(records))

\* The part of the door a mint works on; `ok` until a mint answers an error.
Minting == [ok |-> TRUE, last |-> last, highest |-> highest, roots |-> roots,
            wal |-> wal, tip |-> tip, cut |-> cut, proofs |-> proofs]

\* Mutant: the record is chained to the tip, but the tip is not advanced.
MintCommittedStaleTip(d, i) ==
  LET ord == d.highest + 1
      link == [ord |-> ord, intent |-> i, prior |-> PriorRoot(d.roots)]
      record == [ord |-> ord, body |-> Root(link), pred |-> d.tip]
      minted == [d EXCEPT !.last = i.ord, !.highest = ord, !.roots = Append(@, link)]
  IN  IF record.pred # TerminalHash(d.wal) THEN [minted EXCEPT !.ok = FALSE]
      ELSE [minted EXCEPT
              !.wal = Append(@, record),
              !.cut = [ord |-> ord, root |-> Root(link), hash |-> RecordHash(record)],
              !.proofs = @ \cup {[kind |-> "Committed", ord |-> ord, intent |-> i]}]

\* mint_committed_after_barrier: the order floor and the ordinal move first,
\* then the root chain, then the log.  WalSegment::append refuses a record
\* that does not cover the log's terminal hash; what was moved stays moved.
MintCommitted(d, i) ==
  LET ord == d.highest + 1
      link == [ord |-> ord, intent |-> i, prior |-> PriorRoot(d.roots)]
      record == [ord |-> ord, body |-> Root(link), pred |-> d.tip]
      minted == [d EXCEPT !.last = i.ord, !.highest = ord, !.roots = Append(@, link)]
  IN  IF record.pred # TerminalHash(d.wal) THEN [minted EXCEPT !.ok = FALSE]
      ELSE [minted EXCEPT
              !.wal = Append(@, record),
              !.tip = RecordHash(record),
              !.cut = [ord |-> ord, root |-> Root(link), hash |-> RecordHash(record)],
              !.proofs = @ \cup {[kind |-> "Committed", ord |-> ord, intent |-> i]}]

\* Mutant: one mint for the whole barrier.
MintAllOnce(is) == MintCommitted(Minting, Last(is))

\* The mints of one barrier, in intent order, up to the first error.
MintAll(is) ==
  FoldLeft(LAMBDA d, i : IF d.ok THEN MintCommitted(d, i) ELSE d, Minting, is)

Keep(d) ==
  /\ last' = d.last /\ highest' = d.highest
  /\ roots' = d.roots /\ wal' = d.wal /\ tip' = d.tip /\ cut' = d.cut
  /\ proofs' = d.proofs

-----------------------------------------------------------------------------
\* How often the intents `is` reached storage, after each did once more.
AppliedAgain(is) == [j \in DOMAIN applied |-> IF j \in is THEN applied[j] + 1 ELSE applied[j]]

\* commit_durable of one transaction.  "errored": the transaction was applied
\* and then its fsync answered an error.
CommitDurable(i, outcome) ==
  /\ applied' = AppliedAgain(IF outcome = "refused" THEN {} ELSE {i})
  /\ fsynced' = fsynced \cup (IF outcome = "ok" THEN {i} ELSE {})

\* Mutant: the proof is minted although the fsync answered an error.
SealDurableEarly(i) ==
  /\ ~window /\ PrepareSeal(i) /\ applied[i] < MaxTries
  /\ \E outcome \in Outcome :
       /\ CommitDurable(i, outcome)
       /\ Keep(IF outcome # "refused" THEN MintAll(<<i>>) ELSE Minting)
  /\ UNCHANGED <<current, opened, next, window, queue, cohort, dropped>>

\* seal_durable: one intent, its own barrier.  The queue is left alone, so
\* the intent stays in it.
SealDurable(i) ==
  /\ ~window /\ PrepareSeal(i) /\ applied[i] < MaxTries
  /\ \E outcome \in Outcome :
       /\ CommitDurable(i, outcome)
       /\ Keep(IF outcome = "ok" THEN MintAll(<<i>>) ELSE Minting)
  /\ UNCHANGED <<current, opened, next, window, queue, cohort, dropped>>

\* seal: no fsync, no ordinal, and no look at the window.
Seal(i) ==
  /\ PrepareSeal(i) /\ applied[i] < MaxTries
  /\ \E outcome \in Outcome :
       /\ applied' = AppliedAgain(IF outcome = "refused" THEN {} ELSE {i})
       /\ IF outcome = "ok"
          THEN /\ last' = i.ord
               /\ proofs' = proofs \cup {[kind |-> "Applied", intent |-> i]}
          ELSE UNCHANGED <<last, proofs>>
  /\ UNCHANGED <<current, opened, next, highest, window, queue, cohort,
                 roots, wal, tip, cut, fsynced, dropped>>

\* seal_durable_overlap_batch: every member is checked, the cohort is taken,
\* and its transactions are applied in order.  The first failure closes the
\* window, whatever was applied before it.  Otherwise each member is minted;
\* the window closes unless a mint fails.
SealDurableOverlapBatch ==
  /\ window /\ cohort # <<>>
  /\ \A n \in DOMAIN cohort : PrepareSeal(cohort[n]) /\ applied[cohort[n]] < MaxTries
  /\ cohort' = <<>>
  /\ \/ /\ "ok" \in Outcome
        /\ applied' = AppliedAgain(Range(cohort)) /\ fsynced' = fsynced \cup Range(cohort)
        /\ LET minted == MintAll(cohort) IN Keep(minted) /\ window' = ~minted.ok
        /\ UNCHANGED dropped
     \/ \E k \in DOMAIN cohort, outcome \in Outcome \ {"ok"} :
          LET before == {cohort[n] : n \in 1 .. k - 1}
          IN  /\ applied' = AppliedAgain(before \cup (IF outcome = "refused" THEN {} ELSE {cohort[k]}))
              /\ fsynced' = fsynced \cup before /\ dropped' = dropped \cup before
              /\ Keep(Minting) /\ window' = FALSE
  /\ UNCHANGED <<current, opened, next, queue>>

\* The caller learns of a successor incarnation or epoch and passes it on.
Supersede ==
  /\ current < MaxSession
  /\ current' = current + 1
  /\ UNCHANGED <<door, storage, proofs>>

\* Mutant: the order floor of the previous door is kept.
OpenDoorKeepsLast ==
  /\ opened # current
  /\ opened' = current
  /\ next' = 0 /\ highest' = 0
  /\ window' = FALSE /\ queue' = <<>> /\ cohort' = <<>>
  /\ roots' = <<>> /\ wal' = <<>> /\ tip' = GENESIS /\ cut' = NoCut
  /\ UNCHANGED <<current, last, storage, proofs>>

\* SweepDoor::open under the caller's session: every field starts afresh.
OpenDoor ==
  /\ opened # current
  /\ opened' = current
  /\ next' = 0 /\ last' = -1 /\ highest' = 0
  /\ window' = FALSE /\ queue' = <<>> /\ cohort' = <<>>
  /\ roots' = <<>> /\ wal' = <<>> /\ tip' = GENESIS /\ cut' = NoCut
  /\ UNCHANGED <<current, storage, proofs>>

Next ==
  \/ Admit \/ BeginFsyncWindow \/ SealDurableOverlapBatch
  \/ \E i \in DOMAIN applied : SealDurable(i) \/ Seal(i)
  \/ Supersede \/ OpenDoor

Spec == Init /\ [][Next]_vars

-----------------------------------------------------------------------------
(* Properties.                                                             *)

\* replay over the log's records: each must cover the hash before it.
Replay(records) ==
  FoldLeft(LAMBDA r, record :
             IF ~r.ok \/ record.pred # r.hash THEN [r EXCEPT !.ok = FALSE]
             ELSE [r EXCEPT !.hash = RecordHash(record),
                            !.bodies = Append(@, [ord |-> record.ord, body |-> record.body])],
           [ok |-> TRUE, hash |-> GENESIS, bodies |-> <<>>], records)

\* One boundary, two chains (sweep.rs): whatever mix of single seals, batches,
\* failures and reopened doors led here, replay of the log accepts it and ends
\* in the hash the door carries as wal_tip; the bodies it rebuilds are the
\* roots of the root chain under dense ordinals up to highest_commit; and the
\* last durable cut composes the two tips.
ReplayMatchesDoor ==
  LET r == Replay(wal)
  IN  /\ r.ok /\ r.hash = tip
      /\ r.bodies = [n \in 1 .. highest |-> [ord |-> n, body |-> Root(roots[n])]]
      /\ cut = [ord |-> highest, root |-> PriorRoot(roots), hash |-> tip]

\* Commit ordinals are assigned in intent order among the successes, although
\* a batch is checked only against what was sealed before it, never against
\* its own earlier members.
HistoryInIntentOrder ==
  /\ \A m, n \in DOMAIN roots : m < n => roots[m].intent.ord < roots[n].intent.ord
  /\ \A n \in DOMAIN roots : roots[n].intent.ord <= last

\* A Committed proof is only ever minted for a transaction that was applied
\* and fsynced first, on the single and on the batch path.
CommittedWasDurable ==
  \A p \in proofs : p.kind = "Committed" => p.intent \in fsynced

\* A transaction that was fsynced has its Committed proof, hence its ordinal
\* and its place in both chains, unless it went down with a batch that failed
\* at a later member: then it is in storage and in no history of the door.
DurableIsInHistory ==
  \A i \in fsynced \ dropped :
    \E p \in proofs : p.kind = "Committed" /\ p.intent = i

\* Once an intent has its proof nothing of it is applied again and no other
\* proof of it is minted: not by a retry, not by being sealed alone and again
\* in a batch, not one proof of each strength.
ProvedIsFinal ==
  [][\A p \in proofs :
       /\ applied'[p.intent] = applied[p.intent]
       /\ \A r \in proofs' : r.intent = p.intent => r = p]_vars

\* The module doc of sweep.rs: a barrier batches only writers whose arrival
\* overlaps it, so no member of an open window's cohort already has a
\* Committed proof (seal_durable mints none while the window is open).
CohortIsWaiting ==
  window => \A n \in DOMAIN cohort :
              \A p \in proofs : p.kind = "Committed" => p.intent # cohort[n]
=============================================================================
