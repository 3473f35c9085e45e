# A TLA+ development for KyzoDB

KyzoDB is an embedded Datalog database in Rust: a session engine over a
transactional store, which is an adapter (`kyzo-core/src/store`) on a vendored
copy of the fjall LSM engine with optimistic transactions. This directory holds
TLA+ models of its concurrent and crash-exposed parts, the TLC configurations
that check them, and TLAPS proofs of the properties of the store.

Paths below are relative to `src/crates/kyzo-core/src` unless they start with
`vendor/` or `crates/`. `PROJECT.json` maps every definition to source lines.

## 1. The system and its parts

| part | state | operations | what is hard | modelled in |
|---|---|---|---|---|
| transactional store (`store/fjall.rs`, `store/tx.rs`, `store/contract.rs`) | snapshots, system stamps, persisted watermark, write sets | write_tx, get, put, del, del_range, range scans, commit, commit_durable, sync, abort, read_tx | snapshot, mint, watermark and commit are separate steps of concurrent writers; a crash falls between any two | `TxStore` |
| optimistic oracle and snapshot tracker (`vendor/fjall/src/tx/optimistic`, `snapshot_tracker.rs`) | commit instants with their keys, counts of open snapshots, freed instant | validate, retain, open, close, gc | a record dropped too early is a lost update | `TxStore` |
| journal and recovery (`vendor/fjall/src/batch`, `db.rs`, `recovery.rs`) | batches, published and fsynced prefixes, poisoned flag | write, flush, fsync, recover | failed flush, torn write, kill, power cut | `TxStore` |
| backup (`store/backup.rs`) | snapshot and clock floor of a dump | dump, restore | the floor must cover the dumped rows | `TxStore` (dump) |
| segment cache (`project/current.rs`, `project/residency.rs`, `exec/op/stored.rs`) | generation counter, miss streak, installed segment | bump, witness, get, should_build, install, evict | bump, commit, snapshot and witness race; eviction is three locks | `Segments` |
| callbacks and standing queries (`session/observe.rs`, `react/standing.rs`, `react/incremental.rs`) | registry, channels, maintained rows | register, snapshot, capture, send, apply_pending, teardown | delivery after commit, on other threads; drains net many commits and may fail | `StandingQuery` |
| retry loop (`store/retry.rs`) and mutation path (`session/db.rs`) | attempts | begin, abort, commit, conflict | what a lost attempt leaves behind | `Segments`, `StandingQuery` |
| commit door (`store/sweep.rs`), log (`store/wal.rs`), root chain (`store/merkle.rs`) | intents, queue, cohort, window, ordinals, chains | admit, begin_fsync_window, seal, seal_durable, seal_durable_overlap_batch, open | mixes of seals, failures in a batch, superseded sessions | `SweepDoor` |
| epochs, authority, grants, nonce leases, checkpoint seals | epoch, incarnation, floors | advance, grant, lease, seal, open | crash and takeover between steps | planned |
| idempotency memo, object staging, replica custody | memo table, staged objects, replica tip | remember, stage, expire, ship, apply | retries and duplicated calls | planned |
| skip walk, bitemporal keys, LSM version selection | none (algorithms) | as-of reads | boundaries | planned |
| Datalog evaluation | delta stores | semi-naive rounds | agreement with naive evaluation | planned |
| catalog, constraints, jobs, capacity | rows and admission state | create, rename, drop, admit | interaction with transactions | planned |
| expressions, operators, aggregates, index structures, graph rules, parser, formats, server, language server, test tooling | | | data-heavy or pure input and output | not modelled |

The parts interact in the mutation path. A mutation reads the watched relations,
runs attempts on write transactions of the store, bumps the generation of every
touched relation, commits, evicts retired relations, and sends its events. Read
sessions open a store snapshot and go through the segment cache. The commit door
wraps a store transaction's `commit` or `commit_durable`; so far only tests and
the trials crate drive it.

## 2. The modules

### TxStore and SerialStore

`journal` is the sequence of batches in the write-ahead log; a batch's sequence
number is its place. `visible` and `synced` are its published and fsynced
prefixes. The vendored tracker and oracle appear with their own data: `snaps`
(count per instant), `freed`, and `committed` (instant to written keys). A write
transaction goes through `pc`: `idle`, `snap` (snapshot opened), `minted` (stamp
taken, `watermark_lock` held), `open`, `syncing` (committed, fsync pending), and an
end state. Each separately locked step of `write_tx` and `commit_durable` is an
action; `Publish` is one step because the oracle lock and the journal lock are
held throughout. Keys put, deleted or range-read are put on the read side of the
conflict check as `fjall.rs` does. `Kill` keeps every flushed batch, `PowerCut` any
prefix that contains the fsynced one, and a batch whose flush failed may be
recovered or not.

The batch commit discards the result of `write_batch`, so a data batch may be
`torn`: it has no end marker, yet the flush, the memtable apply and the fsync that
follow may succeed. Recovery truncates the journal at the torn batch (`Readable` is
what lies before it), so an fsync makes no more than that durable. `behind` is
history: the acknowledged transactions in or behind a torn batch. A watermark
record fits the journal's buffer, which is empty when a batch starts, and is never
torn.

`SerialStore` is the abstract promise: transactions run one after another, each
reading what its predecessors left, and a crash undoes only a suffix that was not
durable. `TxStore!Serializable` is the refinement, under the mapping that takes
the published data batches as the serial history.

Simplifications: values are the identity of their writer; the watermark keyspace
has one key; a `gc` pass between the close and the retain inside `with_commit` is
the same as one before that commit; `pullup` stores what `gc` computes when no
snapshot is recorded; skip scans' own span tracking and the refusal at `i64::MAX`
are left out. `persist` reads the poisoned flag before it takes the journal lock;
the model checks and fsyncs in one step. At most one batch of a journal is torn.
Two things that can follow a torn write are left out: a flush of memtables to
tables, which would save batches behind it, and bytes that parse as a damaged
batch, for which the open refuses instead of truncating. A power cut keeps a
prefix of the journal, never a batch without its predecessors.

### Segments

One relation. `head` counts the commits that changed it, and a snapshot is a value
of `head`, so the rows of a scan are that number. Mutations bump (`mark`), commit,
conflict and retry, or fail; a removal evicts in three steps. A read session calls
`segment_at`: `Witness`, `Get`, `ShouldBuild`, `BuildAndInstall`, `ClearMiss`, one
action per lock the code takes. `settled` and the `exact` field are history: they
record whether a witness happened while no write was between bump and commit or
newer than the snapshot.

`VisibleWritesCounted` holds through a removal's commit and the first two steps of
its eviction. The last step forgets the counter: a session that opened before the
removal and scans after it witnesses generation zero, below what its snapshot
sees. The comment at `session/db.rs:471-472` does not mention this case. No new
session resolves the relation by then.

### StandingQuery

`log` is the sequence of committed states of one relation. A mutation captures the
watched relations once, collects its event in every attempt, commits if no commit
after its snapshot wrote its key, and sends afterwards. A query registers, takes
its snapshot, then drains its channel: `Net` and `Patch` are the netting of
`apply_pending` and the filter of `incremental_eval` for stored relations. When
`incremental_eval` answers an error (`ApplyFails`) the channel has been drained and
the rows are kept, so later events are applied to a state that misses some. A
mutation with `:returning` collects whether or not the relation is watched.
`orphan` is a subscription left by a failed registration, which keeps mutations
collecting until a send prunes it. `upto`, `seen` and `fault` are history; `fault`
records reordered events, drains that mix old and new events, and failed applies,
by key, so that `OverlapAbsorbed` can say that the other keys are untouched.

`Commit` assumes an exact conflict check on the probed key. `tx_gc_lost_update`
shows that the store's oracle may drop the window of an open writer; a mutation
that commits through that hole is outside this module.

### SweepDoor

A session (epoch and incarnation) is a number. `current` is the session the caller
passes to every call. `recheck_session` compares the door with this value alone;
whether it is still the Store's own session is up to the caller, so the module
claims no fence against a caller with a stale copy. `Supersede` is the caller
passing the next session.

A digest is the sequence of everything it covers, so equal digests mean equal
history. `MintCommitted` is one call of `mint_committed_after_barrier` on the part
of the door it changes, with the log's append check and the door's own copy of the
tip; `MintAll` folds it over the members of a barrier. Intents are clonable in the
code, so callers may seal one again and again: `applied` counts how often each
reached storage, up to `MaxTries`. A transaction's commit answers `ok`, `refused`
(nothing applied) or `errored` (applied, fsync failed). `fsynced`, `dropped` and
`proofs` are history.

### MC modules

`MCTxStore`, `MCSegments`, `MCStandingQuery` and `MCSweepDoor` hold the small
sets and the symmetry sets of the configurations. Symmetry permutes threads (and,
in `tx_commit` and for standing queries, keys and values), which no definition tells
apart; the liveness run uses none.

Definitions marked `Mutant` are deliberate faults that no specification uses.
`PROJECT.json` names the definition each one replaces and the property that then
fails.

## 3. The runs

Passing runs:

| run | instance | states | shows |
|---|---|---|---|
| `tx_commit` | 2 writers, 2 keys and their range, 1 crash, failing flushes and torn writes, clock reading 0 | 1.2M | stamps agree with reads-from order and are never reused, acknowledged commits survive, no update is lost, and the store refines `SerialStore` through recovery, before any gc pass |
| `tx_readers` | 2 writers, 1 key, 1 dumping reader, 1 crash, 1 gc pass, clock reading 2 | 1.1M | dump floors cover; the tracker honours its counts; a commit with a protected snapshot misses nothing |
| `seg_races` | 2 mutators that write or remove, 2 sessions, 2 generations, builds may decline | 5.0M | witnessed generations count visible writes; settled serving is exact; the first up to the last step of an eviction, the second through it |
| `seg_fresh` | 1 mutator, 2 sessions, fair | 87k | the cache ends fresh |
| `sq_maintain` | 2 mutators, 2 keys, 2 values, 3 commits, 2 attempts, 2 registrations | 3.4M | events are the effects of commits; gapless in-order delivery maintains the rows; overlap is absorbed key by key |
| `sweep_history` | 3 intents per door, 2 sessions, 2 tries per intent, all outcomes | 4.2M | replay agrees with the door and the root chain, intent order, proofs only when durable, durable writes in the history unless their batch failed, nothing applied after its proof |

Runs that expect a violation check what a comment, a doc or an assertion of the
repository says and the code does not do (section 5).

Bounds. Two writers suffice for a stale read or a lost update, and one crash between
them for a stamp minted again or a commit lost at recovery; the third writer of `tx_gc_lost_update` is the
one whose double close frees the window. A clock reading of 0 is always behind the last
stamp and one of 2 is ahead of the first, which takes both branches of a mint; the
proofs cover clocks that jump. One torn batch per journal is enough: recovery
stops at the first. In `Segments` two sessions are a builder and
a reader and two generations let each be overtaken by the other. Three commits let
a drain net an older, a redundant and a newer event of one key. Three intents make a batch
with a member before and a member after the failing one, and two tries a retry of
each.

Deadlock is checked in the `tx` runs, `seg_fresh` and `seg_stale_serve`. The other
configurations switch it off where the system may rest: a removed relation admits
no session, the bounded commits and registrations are used up, or the door has no
caller left.

Fairness. Only `seg_fresh` is about liveness. It assumes weak fairness of the
steps of a `segment_at` call that has begun: they run on the session's thread
without waiting for another. That sessions keep scanning is in the property's
premise. Nothing is assumed of mutations.

## 4. The proofs

Five modules prove, for all sets of keys, ranges, transactions, readers and clock
readings and all bounds, from `TxStoreAssumption` alone, the theorems below. Each
extends the ones its lemmas come from: `TxStoreTypeProofs`, then
`TxStoreStampProofs`, then `TxStoreConflictProofs`, `TxStoreSnapshotProofs` and
`TxStoreDurableProofs`.

* `TypeCorrect` (types): `TypeOK`. The inductive invariant adds the journal's shape
  (`JournalInv`): only published batches are fsynced, every batch is published
  unless a flush failed, and a torn batch is published and never inside the fsynced
  prefix.
* `StampOrderHolds` and `NoStampReusedHolds` (stamps). Neither property is inductive: both
  need that a stamp's watermark precedes its rows in the journal (`RowsMarked`,
  `StampsMarked`), that watermarks increase along it (`MarksIncrease`), that the
  clock is at or above each (`ClockAhead`), and that open stamps are distinct.
  A recovered prefix keeps all of this because it drops rows before it drops the
  watermark in front of them.
* `ProtectedCommitHolds` (conflicts): `ProtectedCommit`, with garbage collection and
  with no premise about it. A commit whose own snapshot has not been freed shares no
  key it read or wrote with any commit since that snapshot. The invariant is that
  every commit after such a snapshot is in the oracle with its keys (`WindowKept`),
  and that keys looked at or written are on the read side (`Validated`).
  `NoLostUpdateIfProtected` follows for the whole history: if open snapshots are
  always protected, no update is lost. An update is therefore lost only after an
  open snapshot was freed; the violation run shows the double close freeing one.
* `AcknowledgedSurvivesHolds` (durability): `AcknowledgedSurvives`, for any number of
  crashes, failed flushes and torn writes. The invariant places each acknowledged
  transaction outside `behind` before the torn batch, and each one acknowledged as
  durable inside the fsynced prefix (`AckInv`).
* `TrackerHonoursCountsHolds` (snapshots): a gc pass never frees a counted instant.
* `DumpFloorCoversHolds` (snapshots): the floor of a dump covers the stamps in its
  snapshot.

Only model-checked: `Serializable`, and everything
about `Segments`, `StandingQuery` and `SweepDoor`. Liveness under fairness and
`ENABLED`, induction over data, and recursive operators are beyond the installed
provers; `EventuallyFresh` therefore stays with TLC.

## 5. Where the code and its text disagree

Each has a run whose counterexample shows it; `PROJECT.json` quotes the lines.

* `tx_gc_lost_update`: `with_commit` closes a snapshot that the transaction's nonce
  closes again. The extra close is taken from another snapshot of the same instant,
  and one gc pass then drops an open writer's conflict window.
* `tx_torn_write`: a batch whose journal write stopped short is flushed, applied,
  fsynced and acknowledged; recovery truncates the journal at it.
* `seg_stale_serve`: a session whose snapshot is older than a commit can witness
  the generation after that commit's bump and install the old rows under it.
* `sq_lost`: a mutation that captured its targets before a registration and
  commits after the query's snapshot sends nothing.
* `sq_redundant`: a drain nets a redundant assertion with a later retraction to
  zero, and the removed row stays.
* `sweep_cohort`: an intent sealed alone stays queued, joins the next cohort, and
  that window can no longer be closed.

The passing properties are stated so that they hold in spite of these: for
instance `SettledServesExact` says exactly when serving is right, `OverlapAbsorbed`
which deliveries are absorbed, and `AcknowledgedSurvives` which commits a torn batch
leaves alone. Three more limits of the code shape the statements. Nothing orders the
sends of two mutations by their commits. A failed `apply_pending` loses the events it
drained (`fault` records both). A batch of the door that fails in the middle leaves
its earlier members fsynced without a log record; `dropped` records them, and
`DurableIsInHistory` says that they are the only ones.

## 6. Not modelled, and the plan

Not modelled for good: byte encodings, cryptography, expression and aggregate
functions, numeric index structures, parsing, server and tooling. They are pure
functions over large data or plain input and output.

Planned, in order:

1. Restore and `raise_clock_floor` on top of `TxStore` (a second store seeded from
   a dump), `batch_put`, and skip-scan tracking.
2. `Authority`: epochs, incarnations, grants, nonce leases and checkpoint seals
   with crashes, composed with `SweepDoor` in place of its session numbers; log
   replay over several segments.
3. `Idempotency`, `Objects` and `Replica`: one module each, with retried,
   duplicated and lost calls.
4. Algorithms against reference definitions: the skip walk and the LSM version
   selection against a direct as-of read, semi-naive against naive evaluation,
   stratification, the failure lattice and its debt ledger, and the rule half of
   `incremental_eval`.
5. Catalog, constraints and jobs over the transactional store.
6. Proofs: `SweepDoor` (`ReplayMatchesDoor`, `HistoryInIntentOrder`,
   `ProvedIsFinal`), `Segments` (`VisibleWritesCounted`,
   `SettledServesExact`), `StandingQuery` (`EventsMatchCommits`), and the steps of
   the refinement of `SerialStore`.
