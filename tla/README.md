# TLA+ models of the relay

Specifications, model-checking configurations and machine-checked proofs for the
Nostr relay in `src/`. Paths below are relative to the repository. `PROJECT.json`
holds the index: components, runs, the mutants that show each property can
fail, the lines each definition stands for, findings, hazards and theorems.

## 1. The system

One process serves WebSocket clients. Per connection a task reads messages and
sends replies; one writer task commits events in batches; connections hand
stored events to each other through a broadcast channel.

| Part | State | Operations | Talks to |
|---|---|---|---|
| `event.rs` events | none | `validate`, `verify_id`, `is_replaceable`, `is_ephemeral`, `is_expired`, `is_protected` | - |
| `db.rs` database | five redb tables: events, three indexes, whitelist | `open` (with a migration), `write_event_batch`, `write_event`, `delete_events_by_ids`, `add_pubkey`, `remove_pubkey`, `query`, counts and lists | called by writer, connections, admin |
| `writer.rs` writer | a queue of 4096 messages; entries, skip marks and results of the current batch | `submit`, `submit_batch`, `writer_loop` | takes messages of connections, answers over oneshot channels, calls the database |
| `connection.rs` connection task | pending writes and deletions, `stream_ended`, subscriptions, authenticated pubkeys, violation count | select loop, drain loop, `handle_event`, `handle_req`, `handle_close`, `handle_auth` | client, writer, database, broadcast channel, abuse control |
| `relay.rs` broadcast | a channel of 4096 events | `send`, `recv`, lag | connections |
| `relay.rs` abuse control | last accepted event and strikes per pubkey | `check_rate_limit`, `record_abuse`, `is_suspended`, `abuse_snapshot` | connections, admin |
| `subscription.rs` filters | none | parsing, `matches_event`, `is_oversized` | connections, database |
| `admin.rs` | none of its own | whitelist changes, snapshot | database, abuse control |
| `main.rs`, `config.rs`, `nip11.rs`, `homepage.rs`, `og.rs`, `error.rs` | constants after the start | accept loop, shutdown, texts | - |

What is hard, and what makes each part correct:

* **Database.** Five tables must change together. A replaced event can only be
  taken out of the tag index through the event itself; loops may stop between
  any two table operations by an error or a crash; a migration may be cut
  short. Correct: indexes and events agree, one event per replaceable place,
  truthful results, removals only for a reason.
* **Writer.** Duplicates and losers of a place are skipped before the
  transaction, so that outcomes and entries no longer line up one to one, and
  results go back through two kinds of channels. Correct: skipping changes
  nothing but the work done, and each message gets its own results.
* **Connections.** Deletions, writes, replies and broadcasts of up to 65 drained
  messages happen in phases; sends fail in the middle; the query of a REQ races
  with commits and broadcasts of others. Correct: what is acknowledged is
  stored, what is stored is announced once, subscriptions see no gap, and a
  client that never stops sending stops nobody.
* **Reading.** A query chooses one of four index paths, reads range after range
  under one limit, and marks what it has seen in a different order on different
  paths; a REQ makes several queries and the admin's report reads five lists, while the
  writer commits. Correct: an answer is one picture of the database, sound,
  complete up to its limit and the newest first; no list misses what was there
  all the time.
* **Abuse control and admission.** Two counters with two windows, read and
  updated under separate locks by many connections, with records that are made,
  restarted and pruned on the way. Correct: a suspension is earned, nobody
  is charged for events of others, the records forget nothing that counts, and a
  pubkey taken off the whitelist is stopped on connections that authenticated
  long before.

`PROJECT.json` lists the hazards line by line, with the properties that speak of
them, or with the reason why none does.

## 2. Modules

```
Nostr         events, kinds, the order between two events of one place
  EventStore    what the database promises: events, a whitelist, one call at a time
  Db            db.rs, one loop iteration per step      -- refines EventStore
    MCDb          small instance
    DbProofs      (with NostrLemmas) invariants and refinement, proved
  BatchRule     what a batch of the writer should write and answer
    BatchLemmas   what that comes to for batches of any length, proved
    WriterRound   what a round of the writer amounts to for everyone else
    Writer        writer_loop, one loop iteration per step -- refines WriterRound
      MCWriter
      WriterProofs    invariants and refinement, proved
    Pipeline      connections + WriterRound + broadcast + subscriptions
      MCPipeline
      PipelineProofs  what is acknowledged, what is sent, proved
        DeliveryProofs  who announces, and what subscribers see, proved
  Filter        filters, and the index ranges that a query reads for one
    Reads         REQ and the admin's report, entry by entry, with commits in between
      MCReads
      ReadsProofs     what answers and the report contain, proved
AbuseBook     what the abuse control promises: an account of strikes
  Admission     handle_event, relay.rs, the whitelist, from lock to lock -- refines AbuseBook
    MCAdmission
    AdmissionProofs   who gets past the checks, who is charged or suspended,
                      and the refinement, proved
```

**Nostr.** An event is its id: the id is a hash of the other fields
(`verify_id`), so those are functions of it. Ids are numbers, as the code only
compares them. `Beats` is the order the writer and the database use; `Resolve`
is what should remain of a set of events.

**EventStore** is the abstract specification. A request is made with its
arguments (`AskPublish(B)`, `AskDelete(pk, T)`) and stands in `asked`, `asker`
and `named` until it ends in one of three ways: with its effect and the answer
"ok" (`Publish` makes the stored set `Resolve(stored \union named)`, `Delete` takes
away what `asker` may remove of `named`), with the answer "err" and no effect
(`Refuse`), or with neither (`Forget`, a crash).

**Db.** `db` holds the committed tables, `work` the tables as the open transaction
sees them. redb allows one write transaction, so `pc` names the function that holds
it. Each iteration of a loop over a batch, over deletion targets or over events to
migrate is a step, and `Fail` (a `?`) or `Crash` may come between. `answer` is what
the last call returned. In the refinement the request under way is the batch, or
`author` and `targets`, so that a commit must do what *its* arguments ask for: one
that drops an event of the batch, keeps half of it and returns an error, or deletes
for somebody else is no step of EventStore. `write_event` has one event and begins
and ends in two steps. The inner loop of `delete_replaceable` over the entries of
one place is part of the iteration it runs in: no other code runs in between, and an
abandoned transaction leaves nothing behind at whatever point it is abandoned. A
starting file is one written by this version, or by one without a tag index.

**BatchRule / WriterRound / Writer.** `BatchRule` states which entries of a
batch are written (`IsKept`) and what each is answered (`Verdicts`, `Failures`).
`WriterRound` is the writer as the rest of the relay sees it: `Collect`, then
`Commit` or `Fail` in one step, then `Answer`, with deletions of others in
between. `Writer` is the loop itself: flattening, `seen_ids`,
`best_replaceable`, `skip`, the outcome iterator, and the two kinds of response
channels. `write_event_batch` is one step there, justified by the refinement of
EventStore. `Phase` is the refinement mapping: everything up to the transaction
is collecting, everything after it is answering. The answers are settled by the
transaction and put together later, so the mapping shows what BatchRule settled
(`settled`, a history variable) until the messages are answered, and what was really
sent from then on.

**Pipeline.** Each connection has a task with a program counter:

| `pc` | code (`connection.rs`) |
|---|---|
| `select` | the `tokio::select!`, 337 |
| `drain` | the drain loop, 383-434 |
| `purge` | the pending deletions 437-450, then the submission |
| `await` | waiting for the writer's answer |
| `reply` | OKs and broadcasts, 452-500 |
| `off` | closed; may connect again |

The writer's steps are those of `WriterRound`, with the queue and the response
channels joined to them: `WriterRecv` is its `Collect` and takes from the queue,
`WriterAnswer` its `Answer` and wakes the connections. The broadcast channel keeps
the last `BroadcastCap` events per receiver. Every admission decision is left open:
an event may be admitted (`TakeEvent`, `TakeEphemeral`), refused (`TakeOther`), or
be the client's last message (`Leave`, `DrainEnded`). A filter is the set of events
that it matches. `committed` (all that a transaction ever stored), `acked`,
`removed`, `got`, `lost` and `orphaned` are history variables that only properties
read. A connection whose client asks for nothing is not followed in the channel: its
task takes each broadcast event and does nothing with it. Queries are taken to stay
below their limits.

**Filter / Reads.** A filter is a record with the fields that the client gave
(all are optional in the code). A prefix is the set of the ids or pubkeys that begin
with it. `Ranges` has what each of the four paths of `query` reads, in order;
`Checked` says which paths look at the events with `matches_event`. Db shows that the
indexes lead to exactly the stored events, so that a range is a set of events
here. Reads follows one request: `BeginQuery` takes the snapshot `snap`,
`NextRange` and `Entry` are the iterations of the loops, `EndQuery` returns; the
report of the admin is a `ReadList` after the other. Requests share nothing but
the database, so one of them stands for all, with commits (`Change`, of one
event or one deletion each) and the clock in between. `always` and `ever`, what was there
throughout and at some time, are history.

**AbuseBook / Admission.** `handle_event` is split where it touches state that other
connections share: `Begin` (up to the suspension, the event and the authentication),
`Admit` or `Refuse` (`check_rate_limit`), `RecordAbuse` (`record_abuse` with its
pruning) and `RecordViolation` (the connection's own count), with the whitelist
before them. Another thread may do anything in between, and the clock may tick. A
reading of the clock and the lock after it are one step. An event is its author,
whether `validate` accepts it (`genuine`), and whether it has the `-` tag
(`protected`). `Listed` and `NotListed` read the whitelist, which `AdminAdd` and
`AdminRemove` change at any time; `outlaw` is history. Protected events differ from
others only when authentication is not required in general; the `rolling_window` run
is such an instance. AbuseBook has no records: strikes are counted from the first
one until the window ends, and time itself closes windows and suspensions. `recent`,
the times of the last strikes, is history in Admission and part of the account: it
changes with every strike that matters, so a record that lost one is not a stutter.
It holds as many as it takes to suspend (`Enough`; a limit of 0 suspends at the
first strike, as a limit of 1 does).

`SuspensionEarned` speaks of the step that starts or prolongs a suspension. Of a
state it would be wrong to say that whoever is suspended has their *last*
strikes in one window: an event that was already refused when its author was
suspended over another connection adds its strike afterwards, and that strike
may open a new window while the suspension lasts. Nothing is wrong with the
relay there: the suspension is neither ended nor prolonged. Short suspensions
(as in the `admission` run) do not show the difference; the proof did.

## 3. Runs

| Run | Instance | Shows |
|---|---|---|
| `db` | 5 events: three profiles of one author (two in the same second), a deletion request, a profile of another author; batches of 2; any old file | `IndexesAgree`, `OneNewest`, `ResultsTruthful`, `RemovalsJustified`, and `RefinesStore`: Db implements EventStore, each call doing what its arguments ask for, or nothing |
| `writer` | 3 competing profiles with a tie, and a note; messages of 1 or 2 events, repeats included; batch size 3, exceeded by the last message; any stored set before | `WritesTheBest`, `RoundIsOneTransaction`, `ResultsRouted`, and `RefinesRound`: Writer implements WriterRound |
| `publish` | 2 clients with overlapping events (one profile in common, an older one, a deletion request); a lone queue place | `AckCovered`, `OneAnnouncer` |
| `listen` | a publisher (older and newer profile, in any order, and an ephemeral event) and a subscriber; channel of 2 | `NoGap`, `OnlyCommittedSent` |
| `progress` | the same event from two clients, one sending REQ for it and CLOSE without pause, also in its drain loop behind the event | `NoGap`, `EveryWriteAnswered` (liveness) |
| `delivery` | a publisher; a subscriber that sends ephemeral events of its own; channel of 1 | `EveryBroadcastDelivered` (liveness) |
| `admission` | two pubkeys over two connections, one of them also forged and put on and off the whitelist; authentication required; limit 2, window 1, suspension 2, records pruned at once; time 0..2 | `SuspensionEarned`, `OnlyListedCharged`, `OnlyAuthorsCharged`, `RefinesBook`: Admission implements AbuseBook |
| `reads` | 5 events (two notes, two profiles, a deletion request that expires); filters for each path, with prefixes, repeated authors and kinds, limits, since and until; a REQ of two filters; the report; any stored set; 2 changes, time 0..1 | `AnswersSound`, `AnswersComplete`, `NewestOfAKind`, `OneVersion`, `PlacesSeen`, `ReportBracketed` |
| `expired` | as `reads`, 1 change | **violated**: `ExpiredNotReturned` |
| `pipelined_deletion` | a publisher of a profile, a request to delete it and an ephemeral event | **violated**: `DeletionTakesEffect` |
| `unannounced` | the same, and a subscriber | **violated**: `StoredReachesSubscribers` |
| `rolling_window` | one sender of protected events, no authentication required otherwise; limit 3, window 2, time 0..5 | **violated**: `RollingWindow` |

Every safety property of Db, Writer and Pipeline is quantified over all
interleavings with failed transactions, failed sends, connections lost and
re-opened, and process crashes, as far as the module has them. Deadlock is checked
in every run but `reads` and `expired`, where the one request ends (`pc` is `done`).

**Bounds.** `MaxBatch` is the one bound added in Db (2 is the smallest batch in
which an event meets one before it; longer ones are covered by the proofs), and
`MaxTime` the one in Admission (long enough for a window and a suspension to end and
the next strike to follow); `Managed` there names the pubkeys that the admin
changes. `MaxChanges` in Reads bounds the commits during one request: two let one
commit take an event away and the next put another in its place, with parts of the
request before, between and after them; `MaxTime` lets an event expire before,
during or after it. `MaxDrain`, `BatchSize`, `QueueCap` and `BroadcastCap` are
parameters of the program, set so small that their limits are reached: a drain of 1
gives groups of two messages (enough for an order between two), a batch of 2 mixes
two connections, a queue of 1 makes them wait, a channel of 1 or 2 makes receivers
lag. Events are few but of every kind that is treated differently. Tasks never
number more than two: the writer serves each alike, and each property speaks of at
most one publisher and one subscriber or of two publishers. With a deletion request
too, the instance of `listen` is too large to be checked in minutes; a deleted event
that still waits in the channel is left to the theorems.

**Fairness** (`FairSpec`, liveness runs only). Weak fairness of a step of a
task and of the writer: the tokio runtime polls whatever can go on, and the
writer's deadline passes. It includes that a send ends, since the peer reads or
the connection breaks; the code sets no time limit of its own. An iteration of the drain loop
never waits (`poll_fn` returns at once), hence `DrainStep`. Strong fairness of
`Submit`: the channel to the writer serves its waiting senders in turn. Strong
fairness of `RecvBroadcast`: `select!` polls its arms in random order, so an
arm that is ready again and again is taken. Nothing is assumed of clients.

**Findings.**
1. *A deletion request pipelined behind its target misses it.* The drained
   deletions run (`connection.rs:437`) before the drained events are written,
   also those sent before the request. Both are answered OK and the event
   stays. The test at `tests/relay/relay_tests.rs:363` ("deleted event should
   not be returned") awaits each OK and so never drains the two together.
2. *Stored events of a lost sender are not announced.* When the send of one OK
   fails (`connection.rs:489`), `?` drops the results that are left, though
   their events are stored and subscribers wait for them; a client that sends
   two events and a close frame is enough, as nothing can be sent after the
   close. README says "store + broadcast".
3. *The strike window does not roll.* It restarts as a whole when its first
   strike is too old (`relay.rs:102`), and strikes on both sides of the restart
   are never counted together. `README.md:103` calls it a rolling window.
4. *Some queries return expired events.* `query` checks the expiry in
   `matches_event`, which the path by full authors (`db.rs:463`) and the path by
   kinds (`db.rs:505`) skip when they have no tags or prefixes to check. The test at
   `tests/relay/relay_tests.rs:563` ("expired event should not be returned")
   asks by id.

## 4. Proofs

`DbProofs` proves for all events, authors, tags and batch lengths:

| Theorem | Statement |
|---|---|
| `Invariant` | `Spec => []IInv` |
| `TypeCorrect`, `IndexAgreement`, `OneEventPerSlot`, `TruthfulAnswers` | `TypeOK`, `IndexesAgree`, `OneNewest`, `ResultsTruthful` always hold |
| `JustifiedRemovals` | `RemovalsJustified`, a property of steps |
| `ImplementsStore` | `Spec => RefinesStore` |

*Argument.* Read alone the properties are not inductive: a commit copies `work`
into `db`, so `IInv` also describes the open transaction. While a batch is
written (`Batching`), the working tables are sound, hold at most one event per
place and only events of before or of the batch, and cover everything offered
so far (each is there, or a better one of its place). While deleting, they are
the committed events less the targets done. While migrating, they are the
committed tables with the tags of the events done. A
single write has one event (`Writing`), and whenever no call is
under way its arguments are empty (`Unasked`). The table lemmas
(`InsertSound`, `DeleteReplaceableSound`, `WriteIntoSound`, ...) reduce table
operations to operations on sets of events, as long as the indexes are sound;
`NostrLemmas` gives the order theory: `Beats` is a strict total order on ids
(`BeatsOrder`), covering is transitive and monotone, and a set that covers and
is one per place *is* `Resolve` (`ResolveUnique`) -- from which the refinement
follows at each commit (`StoreStep` has a case for each action). TLC checked `IInv` on the instance of `db` before it was proved.

`WriterProofs` (with `BatchLemmas`) proves for all events, messages and batch
sizes:

| Theorem | Statement |
|---|---|
| `WriterInvariant` | `Spec => []IInv` |
| `WriterTypes`, `BatchIsBest`, `SkippingLosesNothing`, `ChannelsGetTheirOwn` | `TypeOK`, `WritesTheBest`, `RoundIsOneTransaction`, `ResultsRouted` always hold |
| `LoopsImplementRound` | `Spec => RefinesRound`: the loops implement WriterRound |

*Argument.* `IInv` has a conjunct per loop. `LinedUp` says where each entry came
from (a bijection between entries and the places in the messages) and that each
message of several events has one slot. `Deduping` and `Resolving` give the
marks after `i - 1` iterations: an entry is skipped if the same event came
earlier, or if one of the entries resolved so far has a better event for the
place; at the end of the loop (`Resolved`) that is what BatchRule keeps.
`Outcomes` is the hard one: the iterator over the outcomes is in step with the
loop, because the outcomes that are left are as many as the entries from `i` on
that are not skipped, in their order. `Decided` ties all to what BatchRule
settled, `Resulting` and `Distributing` follow the results into the vectors and
channels. `BatchLemmas` shows by the least position that violates it, instead
of an induction, that a batch keeps the event itself or a better one of each.
TLC checked `IInv` on the instance of `writer` before it was proved.

`PipelineProofs` and `DeliveryProofs` prove for all connections, events,
subscriptions and capacities:

| Theorem | Statement |
|---|---|
| `PipelineInvariant`, `DeliveryInvariant` | `Spec => []IInv`, `Spec => []DInv` |
| `PipelineTypes` | `TypeOK` always holds |
| `AnswersKept` | `AckCovered`: what is acknowledged is stored, or something better, or was deleted |
| `NothingUncommittedSent` | `OnlyCommittedSent`: what is sent, or waits to be sent, is ephemeral or was stored by a transaction |
| `AnnouncedByOne` | `OneAnnouncer`: of all who were given an event only one announces it |
| `NothingFallsThrough` | `NoGap`: the query of a REQ and the broadcasts after it leave nothing out |

*Argument.* A message travels from its task through the queue into a round and
comes back as a response. `Mail` says that it is in one of these places only, and
only while its connection waits with the same events pending; `Fitting` that
results have the shape of the message; `Promised` that a result other than an
error is for an event that is covered by what was ever committed; `Recorded` that
a result "stored" is for an event that was itself committed, and that the database
holds nothing that was not, which gives `OnlyCommittedSent` when a reply
broadcasts. `AckCovered` follows when the reply is sent. For the broadcast, a *token* is the right to
announce: a place in a response, or in a settled round, with the answer
"stored". `Single` says that an event has no second token unless it was deleted
in between, over all connections and rounds; `Followed` that whoever has a
subscription is followed by the channel, so that an event with a token still
reaches them, which is what `NoGap` leaves open.

`ReadsProofs` proves for all stores, filters, requests and changes:

| Theorem | Statement |
|---|---|
| `ReadsInvariant` | `Spec => []IInv` |
| `ReadsTypes` | `TypeOK` always holds |
| `OnlyWhatIsAskedFor`, `AllThatIsAskedFor` | `AnswersSound`, `AnswersComplete` |
| `NewestFirst`, `NoTwoVersions`, `ProfilesSeen` | `NewestOfAKind`, `OneVersion`, `PlacesSeen` |
| `ReportFair` | `ReportBracketed` |

*Argument.* `HistoryKept` brackets the store, and so the snapshot of the query that
is under way, between `always` and `ever`. `Scanning` is the invariant of the scan: on each
of the four index paths, whatever the query has come across and was to return is
in its results, and what it has not come across is in a range or an entry still
to be read, unless the limit was reached first. `Answered` keeps what has been
shown of finished queries while later ones run, and `Reported` does so for the
lists of the report.

`AdmissionProofs` proves for all connections, pubkeys, clients and limits:

| Theorem | Statement |
|---|---|
| `AdmissionInvariant`, `BooksAgree` | `Spec => []IInv`, `Spec => []BookInv` |
| `AdmissionTypes` | `TypeOK` always holds |
| `ListedOnly` | `OnlyListedCharged` always holds |
| `AuthorsCharged`, `SuspensionsEarned` | `OnlyAuthorsCharged`, `SuspensionEarned`, properties of steps |
| `BookKept` | `Spec => RefinesBook`: Admission implements AbuseBook |

*Argument.* `IInv` there says of each connection
with an event under way that the event is genuine and authenticated as far as
it must be (`Verified`; needed because authentication is asked about at
`Begin` and used at `Admit` and `RecordAbuse`, several steps of others later)
and that an author who is on the whitelist now has been on it since the event
came in (`Lawful`; the admin may add and remove the author in between). All
but two actions leave `limits` and `records` alone or empty them, and
`WithChanges` and `PrunedKeeps` show that those two change them for one pubkey.
`BookInv` adds `StrikesKept`, the tie between a record and the history: as many
of the last strikes as the record counts, up to the limit, lie in its window, and
`until` is at most one suspension ahead. So a strike that brings the count to the limit has the
others in the same window before it (`StrikeEarns`). In the refinement a record counts in the
book as long as its window lasts; `StrikeRecords` shows that pruning takes only
records that no longer count and are not suspended, and `CurrentFacts` that a
record restarted late is, for the book, one that had been closed in time. TLC
checked `StrikesKept` on the instance of `admission` before it was proved.

*Assumptions.* Those named in the modules, and no other: `EventAssumption` and
`FilterAssumption` (the fields of events and filters have their types),
`MaxBatchAssumption`, `WriterAssumption` (messages are not empty, the batch size
is positive: `submit_batch` returns early on an empty list, and the size is a
constant of the code), `PipelineAssumption` (capacities are positive),
`ReadsAssumption` (finitely many events, as they are in one file; requests are
sequences of filters; there is a tag name) and `AdmissionAssumption` (numbers are
numbers; every limit and time may be 0). TLC evaluates each in a run.

Every invariant, action property and refinement that a passing run checks is
now also a theorem. Only model-checked are the two liveness properties,
`EveryWriteAnswered` and `EveryBroadcastDelivered`: the prover reasons about neither
fairness nor ENABLED.

## 5. Not modelled

Signatures, content rules, JSON (corrupt events in the file included), text
limits, HTTP routing, the configuration and the start-up texts: pure functions
or I/O. Of the admin's report the whitelist and the abuse records, each one copy. A
file written by this version, then by an older one, then by this one again
(`db.rs:47`). Delivery of one event twice, by the query and live (`got` is a
set), the order in which subscribers see versions of a profile, and the memory
that `rate_limits` takes (`relay.rs:87`, never pruned): no document promises
anything there. How long a client that does not read can hold up its own task. The
benchmark client in `examples/`.

## 6. Plan

Done: Nostr, EventStore, Db and its proofs, BatchRule, WriterRound, Writer,
Pipeline composed with WriterRound, Filter, Reads, AbuseBook, Admission with the
whitelist.

Done too: the proofs of Writer, Pipeline, Reads and Admission.

Next: properties of steps of Pipeline, which has none so far (such as what a
failed send, a lag or a crash may take away from a subscriber, and that a stored
event leaves only for a better one or at the request of its author, seen from
the clients); Reads with the writer of Pipeline in place of `Change`.

## 7. Running

`tlc -config Publish.cfg MCPipeline` and so on, with the module and
configuration that `PROJECT.json` names for each run; `tlapm` on each of
`NostrLemmas`, `BatchLemmas`, `DbProofs`, `WriterProofs`, `PipelineProofs`,
`DeliveryProofs`, `ReadsProofs` and `AdmissionProofs` for the proofs.
