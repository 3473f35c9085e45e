------------------------------ MODULE Segments ------------------------------
(***************************************************************************)
(* The current-state segment cache of one stored relation: the generation  *)
(* counter a mutation bumps before it commits, the cache a read session    *)
(* consults, the stable-miss gate that admits a rebuild, and the eviction  *)
(* that follows a destroyed relation.                                      *)
(*                                                                         *)
(* Sources: project/current.rs (SegmentEngine), project/residency.rs       *)
(* (Residency), exec/op/stored.rs (segment_at), session/db.rs              *)
(* (execute_single, sys_write) and store/retry.rs.                         *)
(*                                                                         *)
(* The storage engine appears by what these files use of it: commits are   *)
(* totally ordered, `head` counts the commits that changed the relation,   *)
(* and a snapshot is the value of `head` when it was opened.  The rows a   *)
(* scan returns are abstracted to that number.                             *)
(***************************************************************************)
EXTENDS Naturals, FiniteSets

CONSTANTS
  None,           \* Option::None, an empty slot of a map
  Writer,         \* threads running mutations of the relation
  Reader,         \* threads running read sessions over it
  Destroyer,      \* writers whose mutation may be the relation's removal
  BuildOutcome,   \* what Segment::build may answer: {TRUE} or BOOLEAN
  MaxAttempts,    \* commit attempts before the conflict is returned
  MaxBumps        \* bound: generations explored

ASSUME SegmentConstants ==
  /\ Destroyer \subseteq Writer
  /\ BuildOutcome \subseteq BOOLEAN
  /\ MaxAttempts \in Nat \ {0}
  /\ MaxBumps \in Nat

VARIABLES
  head,      \* commits that changed the relation so far
  alive,     \* the relation exists in the newest state
  mark,      \* Residency.marks: the generation counter, or None
  miss,      \* Residency.misses: the streak, or None
  segment,   \* SegmentEngine.segments: the installed segment, or None
  wpc,       \* where each mutation is
  removes,   \* the mutation is the relation's removal
  wsnap,     \* the snapshot its current attempt opened
  tries,     \* attempts it has lost
  rpc,       \* where each read session is
  snap,      \* the snapshot the session holds
  live,      \* the generation its last segment_at witnessed
  settled,   \* history: no write was unsettled for it at that witness
  answer     \* the contents its last scan was answered with

engine == <<mark, miss, segment>>
writers == <<wpc, removes, wsnap, tries>>
readers == <<rpc, snap, live, settled, answer>>
vars == <<head, alive, engine, writers, readers>>

REBUILD_AFTER_STABLE_MISSES == 2

Streak == [gen : Nat, count : Nat]
Segment == [gen : Nat, contents : Nat, settled : BOOLEAN]
Answer == [contents : Nat, by : {"scan", "build", "segment"}, exact : BOOLEAN]

TypeOK ==
  /\ head \in Nat /\ alive \in BOOLEAN
  /\ mark \in Nat \cup {None}
  /\ miss \in Streak \cup {None}
  /\ segment \in Segment \cup {None}
  /\ wpc \in [Writer -> {"idle", "open", "bumped", "committed", "dropped",
                         "forgotten"}]
  /\ removes \in [Writer -> BOOLEAN]
  /\ wsnap \in [Writer -> Nat] /\ tries \in [Writer -> 0 .. MaxAttempts]
  /\ rpc \in [Reader -> {"idle", "open", "witnessed", "missed", "build",
                         "installed"}]
  /\ snap \in [Reader -> Nat] /\ live \in [Reader -> Nat]
  /\ settled \in [Reader -> BOOLEAN]
  /\ answer \in [Reader -> Answer \cup {None}]

Init ==
  /\ head = 0 /\ alive = TRUE
  /\ mark = None /\ miss = None /\ segment = None
  /\ wpc = [w \in Writer |-> "idle"] /\ removes = [w \in Writer |-> FALSE]
  /\ wsnap = [w \in Writer |-> 0] /\ tries = [w \in Writer |-> 0]
  /\ rpc = [r \in Reader |-> "idle"]
  /\ snap = [r \in Reader |-> 0] /\ live = [r \in Reader |-> 0]
  /\ settled = [r \in Reader |-> FALSE]
  /\ answer = [r \in Reader |-> None]

\* Residency::slot creates a missing counter at zero.
SlotValue == IF mark = None THEN 0 ELSE mark

-----------------------------------------------------------------------------
(* Mutations: execute_single and sys_write inside the retry loop.          *)

\* Mutation w returns to its caller; the locals of its attempts are gone.
Finish(w) ==
  /\ wpc' = [wpc EXCEPT ![w] = "idle"]
  /\ removes' = [removes EXCEPT ![w] = FALSE]
  /\ wsnap' = [wsnap EXCEPT ![w] = 0]
  /\ tries' = [tries EXCEPT ![w] = 0]

\* An attempt opens a fresh write transaction.  The relation must resolve;
\* a retry runs the same mutation again.
BeginAttempt(w) ==
  /\ wpc[w] = "idle" /\ alive
  /\ \E removal \in IF w \in Destroyer THEN BOOLEAN ELSE {FALSE} :
       /\ tries[w] > 0 => removal = removes[w]
       /\ removes' = [removes EXCEPT ![w] = removal]
  /\ wpc' = [wpc EXCEPT ![w] = "open"]
  /\ wsnap' = [wsnap EXCEPT ![w] = head]
  /\ UNCHANGED <<head, alive, engine, tries, readers>>

\* The query or a constraint refuses: abort_write, a fatal error, no bump.
AbortAttempt(w) ==
  /\ wpc[w] = "open"
  /\ Finish(w)
  /\ UNCHANGED <<head, alive, engine, readers>>

\* Mutant: a removal forgets the counter before it has committed.
BumpForgetsEarly(w) ==
  /\ wpc[w] = "open"
  /\ removes[w] \/ SlotValue < MaxBumps
  /\ mark' = IF removes[w] THEN None ELSE SlotValue + 1
  /\ wpc' = [wpc EXCEPT ![w] = "bumped"]
  /\ UNCHANGED <<head, alive, miss, segment, removes, wsnap, tries, readers>>

\* Every touched relation's counter advances before the storage commit.
\* Removing a relation retires it without touching it.
BumpBeforeCommit(w) ==
  /\ wpc[w] = "open"
  /\ removes[w] \/ SlotValue < MaxBumps
  /\ mark' = IF removes[w] THEN mark ELSE SlotValue + 1
  /\ wpc' = [wpc EXCEPT ![w] = "bumped"]
  /\ UNCHANGED <<head, alive, miss, segment, removes, wsnap, tries, readers>>

\* commit_write succeeds.  A removed relation stops resolving; its removal
\* conflicts with every attempt that resolved it and had not committed.
Commit(w) ==
  /\ wpc[w] = "bumped" /\ alive
  /\ removes[w] => wsnap[w] = head
  /\ head' = head + 1
  /\ alive' = ~removes[w]
  /\ IF removes[w]
     THEN /\ wpc' = [wpc EXCEPT ![w] = "committed"]
          /\ UNCHANGED <<removes, wsnap, tries>>
     ELSE Finish(w)
  /\ UNCHANGED <<engine, readers>>

\* commit_write loses to a commit after its snapshot: retry with a fresh
\* attempt, or return the conflict when the attempts are used up (a retry
\* that no longer resolves the relation is refused).  The advanced counter
\* stays.
Conflict(w) ==
  /\ wpc[w] = "bumped" /\ wsnap[w] < head
  /\ IF tries[w] + 1 < MaxAttempts /\ alive
     THEN /\ wpc' = [wpc EXCEPT ![w] = "idle"]
          /\ tries' = [tries EXCEPT ![w] = @ + 1]
          /\ UNCHANGED <<removes, wsnap>>
     ELSE Finish(w)
  /\ UNCHANGED <<head, alive, engine, readers>>

\* commit_write fails for any other reason: fatal, never retried.
CommitFails(w) ==
  /\ wpc[w] = "bumped"
  /\ Finish(w)
  /\ UNCHANGED <<head, alive, engine, readers>>

\* SegmentEngine::evict after a committed removal takes three locks in turn.
EvictSegment(w) ==
  /\ wpc[w] = "committed"
  /\ segment' = None
  /\ wpc' = [wpc EXCEPT ![w] = "dropped"]
  /\ UNCHANGED <<head, alive, mark, miss, removes, wsnap, tries, readers>>

ForgetMisses(w) ==
  /\ wpc[w] = "dropped"
  /\ miss' = None
  /\ wpc' = [wpc EXCEPT ![w] = "forgotten"]
  /\ UNCHANGED <<head, alive, mark, segment, removes, wsnap, tries, readers>>

ForgetMark(w) ==
  /\ wpc[w] = "forgotten"
  /\ mark' = None
  /\ Finish(w)
  /\ UNCHANGED <<head, alive, miss, segment, readers>>

-----------------------------------------------------------------------------
(* Read sessions: one snapshot, any number of segment_at calls.            *)

OpenSession(r) ==
  /\ rpc[r] = "idle" /\ alive
  /\ rpc' = [rpc EXCEPT ![r] = "open"]
  /\ snap' = [snap EXCEPT ![r] = head]
  /\ UNCHANGED <<head, alive, engine, writers, live, settled, answer>>

CloseSession(r) ==
  /\ rpc[r] = "open"
  /\ rpc' = [rpc EXCEPT ![r] = "idle"]
  /\ snap' = [snap EXCEPT ![r] = 0]
  /\ answer' = [answer EXCEPT ![r] = None]
  /\ UNCHANGED <<head, alive, engine, writers, live, settled>>

\* Nothing separates the generation from the snapshot: no bumped write is
\* still to commit, and none committed since the snapshot was opened.
Settled(r) ==
  /\ snap[r] = head
  /\ \A w \in Writer : wpc[w] # "bumped"

\* Mutant: a missing counter is witnessed as it is.
WitnessNoSlot(r) ==
  /\ rpc[r] = "open"
  /\ live' = [live EXCEPT ![r] = mark]
  /\ settled' = [settled EXCEPT ![r] = Settled(r)]
  /\ answer' = [answer EXCEPT ![r] = None]
  /\ rpc' = [rpc EXCEPT ![r] = "witnessed"]
  /\ UNCHANGED <<head, alive, engine, writers, snap>>

\* witness_after_snapshot: load the counter, creating the slot.
Witness(r) ==
  /\ rpc[r] = "open"
  /\ mark' = SlotValue
  /\ live' = [live EXCEPT ![r] = SlotValue]
  /\ settled' = [settled EXCEPT ![r] = Settled(r)]
  /\ answer' = [answer EXCEPT ![r] = None]
  /\ rpc' = [rpc EXCEPT ![r] = "witnessed"]
  /\ UNCHANGED <<head, alive, miss, segment, writers, snap>>

\* Generation::classify: an installed segment serves iff the stamps agree.
Fresh(r) == segment # None /\ segment.gen = live[r]

\* Mutant: classification that accepts an older generation as well.
FreshOrOlder(r) == segment # None /\ segment.gen <= live[r]

\* Session r's scan is answered with rows of version `contents`, and the
\* locals of its segment_at call are gone.
AnswerWith(r, contents, by, exact) ==
  /\ answer' = [answer EXCEPT ![r] =
                  [contents |-> contents, by |-> by, exact |-> exact]]
  /\ live' = [live EXCEPT ![r] = 0]
  /\ settled' = [settled EXCEPT ![r] = FALSE]
  /\ rpc' = [rpc EXCEPT ![r] = "open"]

\* Mutant: get serves whatever is installed that is not newer.
GetAnyAge(r) ==
  /\ rpc[r] = "witnessed"
  /\ IF FreshOrOlder(r)
     THEN AnswerWith(r, segment.contents, "segment",
                     settled[r] /\ segment.settled)
     ELSE /\ rpc' = [rpc EXCEPT ![r] = "missed"]
          /\ UNCHANGED <<live, settled, answer>>
  /\ UNCHANGED <<head, alive, engine, writers, snap>>

\* SegmentEngine::get: serve, or miss (absent and stale alike).
Get(r) ==
  /\ rpc[r] = "witnessed"
  /\ IF Fresh(r)
     THEN AnswerWith(r, segment.contents, "segment",
                     settled[r] /\ segment.settled)
     ELSE /\ rpc' = [rpc EXCEPT ![r] = "missed"]
          /\ UNCHANGED <<live, settled, answer>>
  /\ UNCHANGED <<head, alive, engine, writers, snap>>

\* The streak after one more miss at generation g (saturating: the count is
\* only ever compared with the threshold).
StreakAfter(g) ==
  IF miss # None /\ miss.gen = g
  THEN [gen |-> g, count |-> IF miss.count < REBUILD_AFTER_STABLE_MISSES
                             THEN miss.count + 1 ELSE miss.count]
  ELSE [gen |-> g, count |-> 1]

\* Mutant: a repeated miss restarts the streak instead of advancing it.
ShouldBuildStuck(r) ==
  /\ rpc[r] = "missed"
  /\ miss' = [gen |-> live[r], count |-> 1]
  /\ AnswerWith(r, snap[r], "scan", TRUE)
  /\ UNCHANGED <<head, alive, mark, segment, writers, snap>>

\* should_build: the second miss at one generation builds; a decline falls
\* back to the session's own scan.
ShouldBuild(r) ==
  /\ rpc[r] = "missed"
  /\ miss' = StreakAfter(live[r])
  /\ IF miss'.count >= REBUILD_AFTER_STABLE_MISSES
     THEN /\ rpc' = [rpc EXCEPT ![r] = "build"]
          /\ UNCHANGED <<live, settled, answer>>
     ELSE AnswerWith(r, snap[r], "scan", TRUE)
  /\ UNCHANGED <<head, alive, mark, segment, writers, snap>>

\* The scan of the session's snapshot; Segment::build may decline it.
BuildAndInstall(r) ==
  /\ rpc[r] = "build"
  /\ \E fits \in BuildOutcome :
       IF fits
       THEN /\ segment' = [gen |-> live[r], contents |-> snap[r],
                           settled |-> settled[r]]
            /\ rpc' = [rpc EXCEPT ![r] = "installed"]
            /\ UNCHANGED <<live, settled, answer>>
       ELSE /\ AnswerWith(r, snap[r], "scan", TRUE)
            /\ UNCHANGED segment
  /\ UNCHANGED <<head, alive, mark, miss, writers, snap>>

\* install's second lock: clear_miss, then the built rows answer the scan.
ClearMiss(r) ==
  /\ rpc[r] = "installed"
  /\ miss' = None
  /\ AnswerWith(r, snap[r], "build", TRUE)
  /\ UNCHANGED <<head, alive, mark, segment, writers, snap>>

-----------------------------------------------------------------------------
WriterStep(w) ==
  \/ BeginAttempt(w) \/ AbortAttempt(w) \/ BumpBeforeCommit(w)
  \/ Commit(w) \/ Conflict(w) \/ CommitFails(w)
  \/ EvictSegment(w) \/ ForgetMisses(w) \/ ForgetMark(w)

ReaderStep(r) ==
  \/ OpenSession(r) \/ Witness(r) \/ Get(r) \/ ShouldBuild(r)
  \/ BuildAndInstall(r) \/ ClearMiss(r) \/ CloseSession(r)

Next == (\E w \in Writer : WriterStep(w)) \/ (\E r \in Reader : ReaderStep(r))

Spec == Init /\ [][Next]_vars

\* A segment_at call that has begun runs to its answer: the session's thread
\* is scheduled.  Nothing makes a session scan or a mutation run.
Fairness ==
  \A r \in Reader :
    WF_vars(Get(r) \/ ShouldBuild(r) \/ BuildAndInstall(r) \/ ClearMiss(r))

FairSpec == Spec /\ Fairness

-----------------------------------------------------------------------------
(* Properties.                                                             *)

\* The relation was removed and its eviction has run to the end: evict has
\* forgotten the counter.
Evicted ==
  ~alive /\ \A w \in Writer : wpc[w] \notin {"committed", "dropped", "forgotten"}

\* The generation a scan witnesses counts every write its snapshot can see:
\* the bump precedes the commit (execute_single) and the witness follows the
\* snapshot (witness_after_snapshot), whatever attempts were lost between.  It
\* holds through a removal's commit and the first two locks of its eviction;
\* evict's last step drops the counter, and a session that outlives it
\* witnesses generation zero again.
VisibleWritesCounted ==
  ~Evicted => \A r \in Reader :
                rpc[r] \notin {"idle", "open"} => live[r] >= snap[r]

\* A session that scans while no write is unsettled, and is served a segment
\* that was built the same way, gets exactly its own snapshot's rows: equal
\* generations then mean no write between the two (segment_at).
SettledServesExact ==
  \A r \in Reader :
    answer[r] # None /\ answer[r].exact => answer[r].contents = snap[r]

\* What stored.rs says of every served segment: no intervening write, so a
\* scan is answered with its own snapshot's rows.
ServedIsSnapshot ==
  \A r \in Reader : answer[r] # None => answer[r].contents = snap[r]

\* The cache recovers: if sessions keep scanning and the counter stands still
\* (its bound is reached or the mutations stop), the installed segment carries
\* the live generation for good, however installs of older generations and
\* streak resets interleaved before (should_build, install).
EventuallyFresh ==
  ([]<>(\E r \in Reader : rpc[r] = "witnessed"))
    => <>[](segment # None /\ segment.gen = mark)
=============================================================================
