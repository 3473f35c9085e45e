---------------------------- MODULE StandingQuery ----------------------------
(***************************************************************************)
(* Commit callbacks and the standing queries kept up to date by them.      *)
(*                                                                         *)
(* A mutation reads the set of watched relations once, runs attempts that  *)
(* collect its events, commits, and only then sends the events to whoever  *)
(* is registered at that moment.  A standing query registers, then reads a *)
(* snapshot, and from then on drains its channel on demand, netting the    *)
(* signed rows of a whole batch before it applies them.                    *)
(*                                                                         *)
(* Sources: react/standing.rs, react/incremental.rs (the stored-relation   *)
(* half of incremental_eval), session/observe.rs (the callback registry),  *)
(* session/db.rs (execute_single) and session/admit.rs (event collection). *)
(* One stored relation; a row is a key and a value.  `log` is the sequence *)
(* of committed states of the relation, a snapshot is an index into it.    *)
(***************************************************************************)
EXTENDS Integers, Sequences, FiniteSets

LOCAL INSTANCE Functions

CONSTANTS
  None,          \* no value at a key
  Key, Val,      \* keys and values of the relation's rows
  Mutator,       \* threads running mutations
  Query,         \* standing queries
  MaxAttempts,   \* commit attempts before the conflict is returned
  MaxCommits,    \* bound: committed mutations
  MaxRegister    \* bound: registrations of each query

ASSUME StandingConstants ==
  /\ None \notin Val \cup Key
  /\ MaxAttempts \in Nat \ {0}
  /\ MaxCommits \in Nat /\ MaxRegister \in Nat

VARIABLES
  log,       \* committed states of the relation, oldest first
  wrote,     \* the key each of those commits wrote
  mpc,       \* where each mutation is
  op,        \* the key it writes and the value (None: a removal)
  watch,     \* the mutation collects the relation's events
  base,      \* the snapshot of its current attempt
  tries,     \* attempts it has lost
  event,     \* what its attempt collected, a CallbackCollector
  qpc,       \* where each standing query is
  rows,      \* MaintainedState of the relation
  chan,      \* the subscription's channel
  orphan,    \* the registry holds a subscription whose receiver is gone
  qsnap,     \* the snapshot registration read
  uses,      \* registrations so far
  upto,      \* history: the newest commit the query has applied
  seen,      \* history: the commits whose events reached the query
  fault      \* history: how deliveries and drains differed from the ideal

mutation == <<mpc, op, watch, base, tries, event>>
query == <<qpc, rows, chan, orphan, qsnap, uses, upto, seen, fault>>
store == <<log, wrote>>
vars == <<store, mutation, query>>

State == [Key -> Val \cup {None}]
Row == Key \X Val
Event == [key : Key, new : Val \cup {None}, old : Val \cup {None}, at : Nat]
Fault == {"mixed", "reordered", "failed"} \X (Key \cup {None})

TypeOK ==
  /\ log \in Seq(State) /\ Len(log) >= 1
  /\ wrote \in Seq(Key \cup {None}) /\ Len(wrote) = Len(log)
  /\ mpc \in [Mutator -> {"idle", "captured", "open", "committed"}]
  /\ op \in [Mutator -> [key : Key \cup {None}, new : Val \cup {None}]]
  /\ watch \in [Mutator -> BOOLEAN]
  /\ base \in [Mutator -> Nat] /\ tries \in [Mutator -> 0 .. MaxAttempts]
  /\ event \in [Mutator -> Seq(Event)]
  /\ qpc \in [Query -> {"absent", "registered", "live"}]
  /\ rows \in [Query -> SUBSET Row]
  /\ chan \in [Query -> Seq(Event)] /\ orphan \in BOOLEAN
  /\ qsnap \in [Query -> Nat] /\ uses \in [Query -> 0 .. MaxRegister]
  /\ upto \in [Query -> Nat] /\ seen \in [Query -> SUBSET Nat]
  /\ fault \in [Query -> SUBSET Fault]

RowsOf(s) == {<<k, s[k]>> : k \in {j \in Key : s[j] # None}}
Newest == log[Len(log)]
Idle == [key |-> None, new |-> None]

Init ==
  /\ log = <<[k \in Key |-> None]>> /\ wrote = <<None>>
  /\ mpc = [m \in Mutator |-> "idle"] /\ op = [m \in Mutator |-> Idle]
  /\ watch = [m \in Mutator |-> FALSE] /\ base = [m \in Mutator |-> 0]
  /\ tries = [m \in Mutator |-> 0] /\ event = [m \in Mutator |-> <<>>]
  /\ qpc = [q \in Query |-> "absent"] /\ rows = [q \in Query |-> {}]
  /\ chan = [q \in Query |-> <<>>] /\ orphan = FALSE /\ qsnap = [q \in Query |-> 0]
  /\ uses = [q \in Query |-> 0] /\ upto = [q \in Query |-> 0]
  /\ seen = [q \in Query |-> {}] /\ fault = [q \in Query |-> {}]

\* EventCallbackRegistry: the queries whose subscription is in the registry.
Registered == {q \in Query : qpc[q] # "absent"}

-----------------------------------------------------------------------------
(* Mutations.                                                              *)

\* current_callback_targets, read once before the retry loop.  A mutation
\* with :returning collects (force_collect) whether or not it is watched.
CaptureTargets(m) ==
  /\ mpc[m] = "idle" /\ Len(log) <= MaxCommits
  /\ \E k \in Key, v \in Val \cup {None} :
       op' = [op EXCEPT ![m] = [key |-> k, new |-> v]]
  /\ \E returning \in BOOLEAN :
       watch' = [watch EXCEPT ![m] = orphan \/ Registered # {} \/ returning]
  /\ mpc' = [mpc EXCEPT ![m] = "captured"]
  /\ UNCHANGED <<store, base, tries, event, query>>

\* What an attempt collects: the row it replaces is read from its snapshot.
Collected(m) ==
  [key |-> op[m].key, new |-> op[m].new, old |-> Newest[op[m].key], at |-> 0]

\* Mutant: the collector outlives the attempt.
AttemptKeepsCollector(m) ==
  /\ mpc[m] = "captured"
  /\ base' = [base EXCEPT ![m] = Len(log)]
  /\ event' = [event EXCEPT ![m] =
                 IF watch[m] THEN Append(@, Collected(m)) ELSE <<>>]
  /\ mpc' = [mpc EXCEPT ![m] = "open"]
  /\ UNCHANGED <<store, op, watch, tries, query>>

\* A fresh transaction and a fresh collector per attempt; old and new rows
\* are collected only for a watched relation.
Attempt(m) ==
  /\ mpc[m] = "captured"
  /\ base' = [base EXCEPT ![m] = Len(log)]
  /\ event' = [event EXCEPT ![m] =
                 IF watch[m] THEN <<Collected(m)>> ELSE <<>>]
  /\ mpc' = [mpc EXCEPT ![m] = "open"]
  /\ UNCHANGED <<store, op, watch, tries, query>>

\* The mutation returns; what its call held is gone.
Finish(m) ==
  /\ mpc' = [mpc EXCEPT ![m] = "idle"]
  /\ op' = [op EXCEPT ![m] = Idle]
  /\ watch' = [watch EXCEPT ![m] = FALSE]
  /\ base' = [base EXCEPT ![m] = 0]
  /\ tries' = [tries EXCEPT ![m] = 0]
  /\ event' = [event EXCEPT ![m] = <<>>]

\* A commit after the attempt's snapshot wrote the key: the probe of the
\* current row, made whether or not the relation is watched, is stale.
KeyWritten(m) ==
  \E n \in base[m] + 1 .. Len(log) : wrote[n] = op[m].key

\* commit_write succeeds: the probed row is a read the commit validates.
Commit(m) ==
  /\ mpc[m] = "open" /\ Len(log) <= MaxCommits
  /\ ~KeyWritten(m)
  /\ log' = Append(log, [Newest EXCEPT ![op[m].key] = op[m].new])
  /\ wrote' = Append(wrote, op[m].key)
  /\ event' = [event EXCEPT ![m] =
                 [i \in DOMAIN @ |-> [@[i] EXCEPT !.at = Len(log')]]]
  /\ mpc' = [mpc EXCEPT ![m] = "committed"]
  /\ base' = [base EXCEPT ![m] = 0] /\ tries' = [tries EXCEPT ![m] = 0]
  /\ UNCHANGED <<op, watch, query>>

\* Mutant: attempts are never used up.
ConflictUnbounded(m) ==
  /\ mpc[m] = "open" /\ base[m] < Len(log)
  /\ mpc' = [mpc EXCEPT ![m] = "captured"]
  /\ tries' = [tries EXCEPT ![m] = @ + 1]
  /\ UNCHANGED <<store, op, watch, base, event, query>>

\* commit_write conflicts on the probed row or on another row its query read:
\* the collector is dropped with the attempt, the captured targets are kept.
Conflict(m) ==
  /\ mpc[m] = "open" /\ base[m] < Len(log)
  /\ IF tries[m] + 1 < MaxAttempts
     THEN /\ mpc' = [mpc EXCEPT ![m] = "captured"]
          /\ tries' = [tries EXCEPT ![m] = @ + 1]
          /\ base' = [base EXCEPT ![m] = 0]
          /\ UNCHANGED <<op, watch, event>>
     ELSE Finish(m)
  /\ UNCHANGED <<store, query>>

\* The query, a constraint or the commit's I/O fails: a fatal error, never
\* retried, and the collector goes with the attempt.
Abandon(m) ==
  /\ mpc[m] = "open"
  /\ Finish(m)
  /\ UNCHANGED <<store, query>>

\* Earlier commits' events are still unsent when m sends its own: the key if
\* both wrote it, None if they wrote different keys.
Overtaken(m) ==
  {<<"reordered", IF op[n].key = op[m].key THEN op[m].key ELSE None>> :
     n \in {n \in Mutator :
             /\ mpc[n] = "committed"
             /\ \E e \in Range(event[n]), f \in Range(event[m]) : e.at < f.at}}

\* send_callbacks, after the commit: every subscription registered now gets
\* every event, and one whose receiver is gone is pruned.
SendCallbacks(m) ==
  /\ mpc[m] = "committed"
  /\ chan' = [q \in Query |->
                IF q \in Registered THEN chan[q] \o event[m] ELSE chan[q]]
  /\ seen' = [q \in Query |-> seen[q] \cup
                IF q \in Registered THEN {e.at : e \in Range(event[m])} ELSE {}]
  /\ fault' = [q \in Query |-> fault[q] \cup
                 IF q \in Registered THEN Overtaken(m) ELSE {}]
  /\ orphan' = (orphan /\ event[m] = <<>>)
  /\ Finish(m)
  /\ UNCHANGED <<store, qpc, rows, qsnap, uses, upto>>

-----------------------------------------------------------------------------
(* Standing queries.                                                       *)

\* register, first half: subscribe.
Register(q) ==
  /\ qpc[q] = "absent" /\ uses[q] < MaxRegister
  /\ qpc' = [qpc EXCEPT ![q] = "registered"]
  /\ uses' = [uses EXCEPT ![q] = @ + 1]
  /\ UNCHANGED <<store, mutation, rows, chan, orphan, qsnap, upto, seen, fault>>

\* register, second half: read the relation's current rows.
TakeSnapshot(q) ==
  /\ qpc[q] = "registered"
  /\ qsnap' = [qsnap EXCEPT ![q] = Len(log)]
  /\ upto' = [upto EXCEPT ![q] = Len(log)]
  /\ rows' = [rows EXCEPT ![q] = RowsOf(Newest)]
  /\ qpc' = [qpc EXCEPT ![q] = "live"]
  /\ UNCHANGED <<store, mutation, chan, orphan, uses, seen, fault>>

\* The signed rows of one event: a row on both sides is no change.
Plus(e) == {<<e.key, e.new>>} \ {<<e.key, e.old>>, <<e.key, None>>}
Minus(e) == {<<e.key, e.old>>} \ {<<e.key, e.new>>, <<e.key, None>>}

\* The net multiplicity of row r over a batch.
Net(es, r) ==
  Cardinality({i \in DOMAIN es : r \in Plus(es[i])})
    - Cardinality({i \in DOMAIN es : r \in Minus(es[i])})

\* Mutant: a flat set of signed rows, retractions applied last.
PatchFlat(rs, es) ==
  (rs \cup UNION {Plus(es[i]) : i \in DOMAIN es})
    \ UNION {Minus(es[i]) : i \in DOMAIN es}

\* Mutant: a flat set of signed rows, assertions applied last.
PatchAssertLast(rs, es) ==
  (rs \ UNION {Minus(es[i]) : i \in DOMAIN es})
    \cup UNION {Plus(es[i]) : i \in DOMAIN es}

\* incremental_eval on a stored relation: an assertion of a present row and
\* a retraction of an absent one change nothing.
Patch(rs, es) ==
  (rs \cup {r \in Row : Net(es, r) > 0}) \ {r \in Row : Net(es, r) < 0}

\* The keys of which one drain holds both events the snapshot contained and
\* newer ones.
Mixed(q) ==
  {k \in Key : \E e, f \in Range(chan[q]) :
     e.key = k /\ f.key = k /\ e.at <= qsnap[q] /\ f.at > qsnap[q]}

\* apply_pending: drain everything queued, net it, apply it as one patch.
ApplyPending(q) ==
  /\ qpc[q] = "live" /\ chan[q] # <<>>
  /\ rows' = [rows EXCEPT ![q] = Patch(@, chan[q])]
  /\ upto' = [upto EXCEPT ![q] = chan[q][Len(chan[q])].at]
  /\ fault' = [fault EXCEPT ![q] = @ \cup {"mixed"} \X Mixed(q)]
  /\ chan' = [chan EXCEPT ![q] = <<>>]
  /\ UNCHANGED <<store, mutation, qpc, orphan, qsnap, uses, seen>>

\* incremental_eval answers an error for a patch that is not empty (a rule's
\* aggregate refuses a row): the state is kept, but the channel was drained.
ApplyFails(q) ==
  /\ qpc[q] = "live"
  /\ \E r \in Row : Net(chan[q], r) # 0
  /\ fault' = [fault EXCEPT ![q] = @ \cup {<<"failed", e.key>> : e \in Range(chan[q])}]
  /\ chan' = [chan EXCEPT ![q] = <<>>]
  /\ UNCHANGED <<store, mutation, qpc, rows, orphan, qsnap, uses, upto, seen>>

\* The subscription's receiver and the maintained state go.
Gone(q) ==
  /\ qpc' = [qpc EXCEPT ![q] = "absent"]
  /\ rows' = [rows EXCEPT ![q] = {}]
  /\ chan' = [chan EXCEPT ![q] = <<>>]
  /\ qsnap' = [qsnap EXCEPT ![q] = 0]
  /\ upto' = [upto EXCEPT ![q] = 0]
  /\ seen' = [seen EXCEPT ![q] = {}]
  /\ fault' = [fault EXCEPT ![q] = {}]

\* register fails after subscribing (no snapshot, no such relation, no plan):
\* there is no StandingQuery to drop, so the registration stays behind.
RegisterFails(q) ==
  /\ qpc[q] = "registered"
  /\ Gone(q) /\ orphan' = TRUE
  /\ UNCHANGED <<store, mutation, uses>>

\* Drop (teardown included): unregister, then the receiver goes.
Teardown(q) ==
  /\ qpc[q] = "live"
  /\ Gone(q)
  /\ UNCHANGED <<store, mutation, orphan, uses>>

-----------------------------------------------------------------------------
MutatorStep(m) ==
  \/ CaptureTargets(m) \/ Attempt(m) \/ Commit(m)
  \/ Conflict(m) \/ Abandon(m) \/ SendCallbacks(m)

QueryStep(q) ==
  \/ Register(q) \/ TakeSnapshot(q) \/ RegisterFails(q)
  \/ ApplyPending(q) \/ ApplyFails(q) \/ Teardown(q)

Next == (\E m \in Mutator : MutatorStep(m)) \/ (\E q \in Query : QueryStep(q))

Spec == Init /\ [][Next]_vars

-----------------------------------------------------------------------------
(* Properties.                                                             *)

\* Every event a query is sent is the effect of exactly one commit, with the
\* row that commit replaced: retries send nothing of a lost attempt, and the
\* row read before the commit is still the row it replaced.
EventsMatchCommits ==
  \A q \in Query :
    /\ \A i \in DOMAIN chan[q] :
         LET e == chan[q][i]
         IN  /\ e.at \in 2 .. Len(log)
             /\ e.old = log[e.at - 1][e.key] /\ e.new = log[e.at][e.key]
    /\ \A i, j \in DOMAIN chan[q] : chan[q][i].at = chan[q][j].at => i = j

\* A query whose events arrived in commit order, from the first commit after
\* its snapshot and without a hole, and whose drains were all applied, always
\* holds the relation as of the last commit it applied, however many commits
\* each drain netted together.
MaintainedIsPrefix ==
  \A q \in Query :
    /\ qpc[q] = "live" /\ fault[q] = {}
    /\ seen[q] = qsnap[q] + 1 .. qsnap[q] + Cardinality(seen[q])
    => rows[q] = RowsOf(log[upto[q]])

\* Every commit has sent its events and q has drained its channel.
Quiet(q) ==
  /\ qpc[q] = "live" /\ chan[q] = <<>>
  /\ \A m \in Mutator : mpc[m] # "committed"

\* Every commit that wrote k, from some point on, q's snapshot at the latest,
\* reached q.
Whole(q, k) ==
  LET commits == {n \in DOMAIN log : wrote[n] = k}
  IN  \A n \in commits :
        n > qsnap[q] \/ (\E s \in seen[q] \cap commits : s < n) => n \in seen[q]

\* q holds exactly the newest row of key k.
Exact(q, k) == {r \in rows[q] : r[1] = k} = {r \in RowsOf(Newest) : r[1] = k}

\* Key by key, what goes wrong elsewhere does no harm: if the events of one key
\* reached the query without a hole and in order, no drain netted events of
\* that key the snapshot already contained with newer ones, and no failed
\* apply_pending held an event of it, then once quiet its row is exact,
\* whatever was lost, reordered, mixed or dropped for the other keys.
OverlapAbsorbed ==
  \A q \in Query, k \in Key :
    Quiet(q) /\ Whole(q, k) /\ (\A f \in fault[q] : f[2] # k) => Exact(q, k)

\* What standing.rs says of registration: there is no window where a commit
\* is lost, so once quiet every commit after the snapshot was delivered.
NoCommitLost ==
  \A q \in Query : Quiet(q) => qsnap[q] + 1 .. Len(log) \subseteq seen[q]

\* What standing.rs says of redundant events: filtering absorbs them, also
\* when one drain nets them with newer events.
RedundantAbsorbed ==
  \A q \in Query, k \in Key :
    Quiet(q) /\ Whole(q, k) /\ (\A f \in fault[q] : f[2] = k => f[1] = "mixed")
      => Exact(q, k)
=============================================================================
