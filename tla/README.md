# A verification model of cognets_broker

TLA+ modules, TLC runs and TLAPS proofs about the NGSI-LD context broker of
this repository. Paths below are relative to the repository (`src/` in the
source references of `PROJECT.json`); every definition that models code is tied
to its lines there in the `map` of that file.

The broker is a set of stateless HTTP handlers and three background loops over
MongoDB and Redis. Nothing is held in memory between two calls, no call is in a
transaction, and every handler awaits between its database calls. What makes
the system hard is therefore not any one function but the order in which the
calls of several handlers, workers and brokers meet in the collections. That is
what the modules model.

## 1. Inventory

| Component | State | Operations | Talks to |
|---|---|---|---|
| Entity service `services/entities.rs` | collection `entities` | create, delete, merge, replace, append, update, patch, delete_attr, replace_attr, five batch operations, query, get | notifications, mutation log, contexts |
| Temporal service `services/temporal.rs` | collection `temporal_entities` (document and history) | upsert, delete, append, patch and delete of instances, queries | mutation log |
| Subscription service `services/subscriptions.rs` | collection `subscriptions` | create, list, get, patch, delete | the delivery worker's `mark_delivery` |
| Notification service `services/notifications.rs` | none | enqueue_notifications: list, resolve, match, enqueue | subscriptions, contexts, queue |
| Mutation log and anti-entropy `services/federation.rs` | collection `swarm_mutations`, cursors in `peers` | record_local_swarm_mutation, list_since, sync_peer_mutations, apply_swim_event, apply_*_mutation | entities, queue, other brokers over HTTP |
| SWIM membership `services/federation.rs` | collection `peers` | sync_seed_peers, announce, merge_peer, expire, the round of the worker, event intake | queue, other brokers |
| Delivery queue `federation/queue.rs` | a Redis stream, its consumer group and pending list | enqueue, read, post, ack, mark_delivery | HTTP endpoints, subscriptions |
| Repositories `persistence/mongo.rs` | the collections | get, insert (unique index), replace (upsert), delete, list with a limit | MongoDB |
| Query language `query/language.rs` | none | parsing and evaluation of q and scopeQ | |
| Query planner `query/planner.rs` | none | the filter and limit MongoDB is given, geo filters, representations | MongoDB |
| Context resolution `query/context.rs` | none | resolve_context_terms | documents on the web |
| Discovery `services/discovery.rs` | none | types and attributes of the stored entities | entities |
| Pure helpers `utils/json.rs`, `services/common.rs` | none | merge patch, preparation and projection of payloads | |
| Info, headers, configuration, routing | none | reads and parsing | |

How a write travels: a handler reads a document, changes it, writes it, lists
the subscriptions and enqueues notifications, stamps and inserts a mutation and
enqueues one push per configured seed. The delivery worker posts the pushes; the
receiver merges the sender's peer record, looks the mutation up in its log,
reads the stored document, compares versions, writes, notifies and logs.
Independently every broker's worker runs rounds: it seeds placeholders,
announces itself, publishes suspicions, and pulls from every other peer record
the mutations after that record's cursor, applying them in the same way.

How a question is answered: the handler parses q and scopeQ, has MongoDB filter
by what it can express, reads the linked entities if q walks along a
relationship, and for each candidate fetches the JSON-LD contexts it refers to
before it decides in memory. Matching an event against the subscriptions goes
the same way, with code of its own.

What makes each part correct, and what endangers it:

- **Mutation log and anti-entropy.** Every mutation reaches every broker that
  pulls; a cursor never passes what was not logged; an own mutation is never
  applied again; an older version never replaces a newer one; equal logs mean
  equal documents. Endangered by decision and write being two calls, by stamps
  taken before the insert, by relays, by equal timestamps, by deletions that
  leave nothing behind, by failures in the middle of a page.
- **Membership.** No invented incarnation, no dead broker that was never
  suspected, an own record that accusations cannot touch, refutations that win,
  recovery of running brokers. Endangered by unsynchronised merges, stale
  write-backs, duplicated and late events, crashes.
- **Delivery.** Every message posted, once and in order, acknowledged only when
  posted; counters that count real posts on top of what clients write into them.
  Endangered by crashes between read and post, lost replies, failing
  acknowledgements, entries that do not decode or have no usable address, and
  read-modify-replace on documents that patches and deletions also write.
- **Entity and temporal services.** What is told and recorded was stored, what
  is answered as a success was both, the items of a batch are all reported, and
  a peer that replays the log holds what the broker holds. Endangered by races
  between read and write, failures between write, notification and recording,
  and clocks read twice.
- **Questions.** An operator means the same in q, scopeQ and subscriptions,
  whatever shape an attribute has; an answer is exact; every request ends.
  Endangered by two evaluations (MongoDB's and the one in memory), by limits
  applied before the second, by contexts that refer to each other or fail, by
  a recursive descent over texts that shares its helpers.

The hazards, each at its line and with the properties that watch it, are listed
in `PROJECT.json`.

## 2. Plan

| Step | Modules | Status |
|---|---|---|
| 1 | `SwarmReplication`: replication of documents between brokers | done |
| 2 | `SwimMembership`: membership of a swarm | done |
| 3 | `DeliveryQueue`: stream, worker, counters | done |
| 4 | `SwarmReplication_proofs`, `SwimMembership_proofs` | done |
| 5 | `EntityService`: the writing handlers and batches, notifications, mutations, failures | done |
| 6 | `TemporalService`, `TemporalHistory`: handlers, histories, readers | done |
| 7 | `QueryValues`, `QueryLanguage`, `EntityQuery`, `QueryService`, `QueryMeaning`: parsing, matching, planning, contexts, discovery, subscriptions | done |
| 8 | `DeliveryChannel`, refined by `DeliveryQueue`; `DeliveryQueue_proofs` | done |
| 9 | What followers of one origin hold, in `SwarmReplication_proofs` | done |
| 10 | `EntityService_proofs`, `EntityReplay_proofs`, `TemporalService_proofs`, and `SequenceFolds` for the folds they are about | done |
| 11 | `QueryService` apart from the languages it evaluates, and `QueryService_proofs`: its loops over contexts, candidates and subscriptions | done |
| 12 | Membership and replication in one module, where the write-back of a stale peer record also moves its cursor back | open |

Modules that theorems are about reach no recursive operators. `QueryLanguage` has
them, and `QueryMeaning`, which says what it means that the languages are right, so
those are checked by TLC only. Where the code folds (the
replay of a log, a sum, the records of a history that a filter keeps), the
models use `FoldLeft` or a recursive function.

## 3. Modules

### SwarmReplication (with MCSwarmReplication)

| Variable | Code |
|---|---|
| `db` | `entities`: per id the document's `modifiedAt` (`ver`) and which write made it (`val`) |
| `log` | `swarm_mutations` |
| `cursor` | `last_mutation_cursor_nanos` of each peer record |
| `outbox` | the pushes in the broker's Redis stream |
| `client` | a write handler between two awaits |
| `task` | a pull of the worker or an intake of `POST /internal/swim` between two awaits |
| `served` | history: what pages contained |

A client write is `BeginWrite` (the read; 409 and 404 answers change nothing),
`WriteStore`, `Stamp` (notifications done, `recorded_at` taken), `InsertLocal`,
`Publish`; `BatchDelete` is a batch of one, which deletes without a read and
takes its version later. A pull is `StartPull` (one GET, any page the database
may answer with), then per mutation `Dedupe`, `GetExisting`, `Apply`,
`InsertRemote`, and `Finish`, which saves the cursor. A push runs the same steps
from `Deliver` on. `FailClient`, `FailTask`, `LosePush` are the ways a handler,
a round and a push end early, as often as they like. Enqueueing notifications
inside an apply changes none of these variables and is part of `FailTask` when it
fails.

The two mutation kinds (entity, temporal entity) share this control; an id of
`Entities` may stand for either. Timestamps are readings of one clock that all
brokers share: the code orders writes by wall clocks and its README says so.
`StampGap = 1` makes readings distinct, `StampGap = 0` lets two fall together.

### SwimMembership (with MCSwimMembership)

`peers` is the collection `peers`, per broker and peer_id: a broker's own id, or
the endpoint of a seed, under which a placeholder is kept. `task` holds a
worker's round or a handler's request between two awaits, `net` the events that
were enqueued and not delivered, `up` who is running; `issued` and `accused` are
histories. A round is `StartRound`, `ReadSeed`/`WriteSeed` per seed, `SeedsDone`,
`Announce`, `ReadForMerge`, `StoreMerged`, `Expire`, `ListPeers`, then `SyncPeer`
or `SyncFails` per listed record, `EndRound`. `Deliver` is the intake of an
event, `PublishMutation` the membership side of a write. Time is asynchronous:
any set of records may be past its timeout when `Expire` looks.

### DeliveryQueue, DeliveryChannel

`stream`, `delivered`, `pending` are the Redis stream, the position of the
consumer group and its pending list; `worker` is the loop between two awaits;
`subs` the subscription documents, reduced to the two counters and whether they
have a `notification` to hold them; `posts`, `lost` and `claimed` are histories.
Producers are `ListSubscriptions`, `EnqueueOne`, `EndLoop` (a notifying write) and
`EnqueueSwim`. The worker is `ReadBatch`, `Post`, `GetSubscription`,
`ReplaceSubscription`, `Ack` and their failures. A read whose reply is lost after
Redis gave the entries out is `ReadLost`. An entry of kind `"deep"` is one that
`serde_json` refuses to decode, `"nowhere"` a SWIM event whose endpoint is no URL,
which `SkipPost` passes over before it is acknowledged.

A patch is merged as the client sent it. `Patched` has every document that may leave
of the counters: values of `Claims`, the old ones, or no notification at all.
`claimed` keeps what clients wrote, with the number of posts made by then, and
`CountersNeverAhead` bounds each counter by such a value, or 0, and the posts since.
A patch that falls between a post and its count writes its value before that post
(`Settled`). `Storable` is the edge of a BSON integer.

`DeliveryChannel` is what the queue promises: messages are dealt with in the
order they were accepted, each attempted once or given up, none left undealt
with. `ImplementsChannel` maps the stream to what was accepted, the outcomes to
the attempts, and what was given out less what the worker still has to post to
the position of the channel. An entry counts as attempted at its post, so a
failing acknowledgement, a counter update or a crash after it changes nothing.

### EntityService (with MCEntityService)

`store` is the collection, documents are functions from members to values with
the reserved members the code knows. `handler` is a request between two awaits:
the items it still has to do, the document it is about to write (`plan`), the
events it still has to tell and the mutations it still has to record. One
operator per handler (`create`, `merge`, `append_attrs`, ...) computes the next
document from the one read; `Settled` holds the order in which handlers go on:
single requests write, tell, record; a batch writes all items first and then
tells and records, but a batch merge goes through all three per item. `Refuse` and
`ReadRefused` are the 400, 404 and 409 answers, `DuplicateKey` the race that the unique index
decides, `Fail` a failing call at any await, `Crash` the end of the process.
`Due` is what a handler has written and still has to tell and record, `Through`
the end of an item. A batch records a mutation under the member `id` of the document
it wrote (`entity_id`), other handlers under the id of the request. `Replayed` folds the log as a peer applies it.
Requests have at least one item, and where the handler takes the id of an item
from its payload, that is the item's id (`RequestAssumption`); what is stored at
the start has the id it is stored under and a time that is not in the future
(`StoreAssumption`).
`writes`, `told`, `log`, `raced` are histories; `raced` holds the entities on which two
requests were active at one time.

### TemporalService, TemporalHistory (with MCTemporalService)

The same for temporal entities: `Start`, `Read`, `LookExists` and `WriteTemporal`
(the repository's upsert, a find and a replace), `delete_entity`,
`RecordMutation`, `Fail`. A history is a sequence of records; a random instance
id is a name no other record has, and since the snapshot of an upsert is built
from the payload a second time, its names differ from the stored ones.
`TemporalHistory` holds what readers compute: the window and lastN, grouping by
attribute, the instance that is retrieved, aggregates (an average is the pair of
its sum and its count). `Where` is `retain` and `filter`, picking elements
position by position; `LatestFirst` is the stable sort, giving each element the
place after those that come before it. The times in payloads and filters are
numbers, 0 and -1 standing for what is absent (`RequestAssumption`,
`FilterAssumption`), and the value of an attribute, if it has a numeric one, is an
integer.

### QueryValues, QueryLanguage, EntityQuery, QueryService, QueryMeaning (with MCQueryService)

`QueryValues` has what all of them share: JSON values, which are tagged records,
and what texts a regular expression matches. In `QueryLanguage` an expression is a sequence of tokens; the
parser's scans for separators at the top level, its stripping of parentheses and
its descent through alternatives, conjunctions and terms are modelled over
those. Evaluation follows the code operator by operator: which instances an
attribute path reaches, what values an instance has by its kind, compaction by
the terms of a context, coercion, comparison, patterns. `QueryLanguage` also has scopeQ.

`EntityQuery` holds what is pure around it: the plan and its filter with what
MongoDB makes of each clause, the check in memory, representations, discovery
and the matching of subscriptions. Coordinates are cells on a line. What is recursive,
it takes as parameters: `ParseQ`, `ParseScopeQ`, `QMatches`, `ScopeQMatches`,
`UsesLinked`, `SimplifiedValue`. The configurations give them the definitions of
`QueryLanguage` (`parse_q_or`, `parse_scope_alternatives`, `q_expression_matches`,
`scope_expression_matches`, `q_expression_uses_linked_entity`,
`simplify_attribute_value`), so TLC evaluates the languages of the code, and the
theorems hold for any language in their place.

`QueryService` is the handlers: `Find`, `LoadLinked`, then per candidate
`BeginResolve`, `Resolve` per entry of the context queue or `FetchFails`,
`MatchEntity`, and `AnswerQuery`; `Retrieve`, `Discover`; and for events `ListSubscriptions`,
`MatchSubscription` or `EnqueueFails`, `EndNotify`. `Write` is another handler changing the store
in between. `Contexts` is every JSON value a context is or leads to, `Onward` what one
refers to; a resolution leaves one of `TermsOf` what it starts with, since a term may
have several definitions and the order of the documents decides between them. What an
answer must contain is therefore bounded from two sides: an entity that matches
whichever definitions win (`Certain`), and one that matches for some (`Possible`).

The constants are what clients may send and store: entities have a URI for their id
and any text or array for their type (`EntityAssumption`), contexts lead to contexts
(`ContextAssumption`), parameters are there or not, and subscriptions have the members
that matching reads (`RequestAssumption`). `LinkAssumption` is about the languages: a
filter that names no linked entity does not look at any, so it is the same with the
linked graph as without. TLC evaluates it for the languages of the code, with
every filter of the run, every entity, every set of terms and every graph.

`QueryMeaning` puts service and languages together and holds the two properties that
are about the languages alone, `WritingsParse` and `OperatorsAgree`, and `GroupsReadBack`.

### SwarmReplication_proofs, SwimMembership_proofs, DeliveryQueue_proofs, EntityService_proofs, EntityReplay_proofs, TemporalService_proofs, QueryService_proofs, SequenceFolds

Theorems and their lemmas, see section 6.

In each module the definitions that stand directly before another one with the
same parameters and are used nowhere (`NewerStrictly` before `Newer`, and so on)
are plausible mistakes in that code: substituting one makes TLC find the
property named with it in `PROJECT.json` violated. They show that the property
can fail.

## 4. Runs

| Run | Shows |
|---|---|
| SwarmSingleOrigin | one origin, a follower that pulls from it, one that pulls from both: each log is a prefix of the origin's, documents are not behind the log, with interrupted rounds |
| SwarmConcurrent | two origins, two clients, one intake: no served mutation is skipped, no own mutation reapplied, everything logged is at its origin; the type invariant |
| SwarmEventual | one origin that pushes and is pulled from: every mutation arrives although pushes get lost and rounds fail, any number of times but not for ever; what is unseen stays ahead of the cursor |
| SwarmResurrects | violated: an apply recreates an entity whose later deletion is logged |
| SwimJoin | membership of two brokers from empty stores, with a crash: incarnations are never invented, own records stay alive, refutations outrank |
| SwimLeaf | a third broker as accuser: none is dead that was not suspected; the type invariant |
| SwimRecover | running brokers that are held for dead become alive |
| Delivery | order, uniqueness, counters, reasons for giving up, and the refinement of the channel with its liveness, with patches that write the counters, faults, a crash, a lost reply, and entries that do not decode or have no usable address |
| EntityRequests | two requests of every operation and batch, racing: effects follow the store, successes are stored and recorded, batches report all, the log replays to the store, writes change what they name |
| TemporalRequests | three requests, two at a time, on one history: nothing is lost, versions and times agree, the log replays; every reachable history read with every filter |
| QueryRequests | some hundreds of requests against three entities and against one without a type, with a write in between: expressions read back, operators agree, answers are exact, discovery and subscriptions agree with queries, contexts resolve, all are answered |
| QueryGroups | violated: a group of alternatives within alternatives does not read back |

Each violated property is a sentence of the repository, quoted with the finding
in `PROJECT.json`; the trace of the run is the sequence of calls that breaks it.
`IMPLEMENTATION_STATUS.md` says that deliveries are not retried and that order is
last-write-wins by `modifiedAt`: the runs do not count those limits as findings.
A failed post is not retried in any of them, and the applied order is judged by
`modifiedAt` alone.

### What the code does and no property promises

Properties exclude these cases by name where they would otherwise fail; a reader
of the code should know them.

- A second client at a broker can insert an earlier stamp late, equal stamps can
  straddle the end of a page, and a relayed mutation enters the relay's log under
  its origin's time: each puts a mutation behind a cursor. `UnseenIsAheadOfCursor`
  is checked without them.
- An apply whose notification fails, because the `@context` of a local subscription
  cannot be fetched, has written the snapshot and ends the round before the mutation
  is logged. The next round applies it again and fails again: as long as the context
  stays out of reach the mutation is not logged and what lies behind it in that
  peer's log waits. `EventuallyReplicated` therefore only speaks of brokers of
  whose pages some pull always gets through again.
- The version check and the write of an apply are two calls, and equal versions
  are accepted in any order: documents agree with the log only where one broker
  writes.
- The expiry of a silent peer is only published to the seeds: in a store that
  nobody echoes it back to, the peer stays alive. The write-back of a pull can lower the
  incarnation of a peer record.
- A PATCH of a subscription may write `timesSent` and `timesFailed`, and deliveries
  count on from there; the failures may then exceed the deliveries.
- A read whose reply is lost leaves its entries pending for ever, unposted; a SWIM
  message whose endpoint is no URL is acknowledged unposted.
- `mark_delivery` can undo a patch, and it and `patch` bring a deleted
  subscription back. The read-modify-replace handlers of entities lose writes of
  each other and bring a deleted entity back.
- A write whose notifications fail is stored, answered with an error and not
  recorded; a batch creation that meets a racing one answers 500 with earlier
  items stored and unrecorded; a batch merge reports as failed what it wrote and could not tell.
- `append_attrs` and `update_attrs` move `modifiedAt` on without recording a
  mutation when no attribute changes. `delete_attr`, `replace_attr` and
  `patch_attr` accept reserved members. After one of them removes or changes `id`, a
  batch update of the entity records its mutation under an empty or another
  name, and peers apply it there. A batch upsert that merges overwrites `createdAt`.
- Two racing temporal upserts both answer that they created the entity; the
  mutation of one carries other random instance ids than it stored;
  `patch_instance` changes the record and neither its `observedAt` nor the
  entity's attribute.
- `README.md` line 105 writes a range in q as `attr..lower,upper`; the code
  accepts `attr==lower..upper`. `contains` is asked of MongoDB as
  `$geoWithin`, `overlaps` and `equals` as `$geoIntersects`, `disjoint` is refused.
- Discovery counts an entity of several types for the first. A subscription with
  a q that does not parse is accepted and never matches; its `format` knows `keyValues`
  and not `simplified`, which a query's does. An entity whose `type` is an empty array is
  accepted and left out by discovery. An empty type or attribute name is
  discovered, and an empty type selected by a subscription, but a query drops it from its
  list. A `distinctCount` is a count.

### Bounds and why they are enough

- Two brokers show every race between a push, a pull and a local write; a third
  is needed only for a relay that does not write (SwarmSingleOrigin) and for an accuser
  besides the accused and the watcher (SwimLeaf). Two or three writes give a create, a competitor and a
  later write on one entity.
- `PageLimit` 1 or 2 stands for 200: pages that are cut and pages that are not.
- Pulls, pushes and handlers of the swarm runs fail any number of times. Elsewhere
  one failure or crash is enough to interrupt any one step; two would only interrupt
  twice. Liveness runs leave failures in.
- `MaxInc` 2 with two rounds reaches saturation in SwimLeaf and SwimJoin, and leaves
  accusations at 0 and 1 that a refutation must outrank.
- Streams of three entries with a batch of two give a batch that is full,
  one that is not, and an entry behind a batch. Clients write the count 2, and
  a document holds at most 3: one more delivery can be counted and a second cannot.
  The SWIM events of the run are those that do not decode or have no address; one
  that is posted differs from a notification in counting nothing, and the proofs
  include it.
- Two entity requests of 23 kinds on two entities, from an empty store and one
  with an entity, and two clock readings: every pair of operations meets in
  every interleaving, and stamps are equal or different. Batches of three items
  have one that is refused between two that are not.
- Three temporal requests allow an upsert, an append and an operation on an
  instance either of them made.
- The requests of QueryRequests take every operator over every kind of
  attribute, every tree of two levels and its writings with optional
  parentheses, and every clause of the filter; the entities have several
  instances, types, languages and scopes, and contexts that refer to each other. One
  write falls into any of a handler's awaits, and one fetch fails at any.

`CHECK_DEADLOCK FALSE` is set in the bounded runs because the bounds on writes,
rounds and messages end every behaviour. QueryRequests looks for deadlocks: an
answered request stutters in `Idle`, and any other stop would be an error.

## 5. Fairness

- SwarmReplication: the worker's loop has no exit and goes through all peers
  whatever the others answered (`sync_swarm_once` logs an error and continues), so
  a pull that can start again and again does (strong fairness of `StartPull`), and
  a task under way proceeds (weak fairness), each of its calls returning an answer
  or an error. Which of the two is open: a pull may fail in every round, so
  `EventuallyReplicated` names the pulls that do. Clients, deliveries and failures
  have no fairness: nothing makes a client finish, and a push may be lost.
- SwimMembership: the rounds go on and their awaits return; a pull from a broker
  that keeps running succeeds again and again (strong fairness of `SyncPeer`);
  a record whose broker stays down is past its timeout in some later round.
- DeliveryQueue: the loop has no exit, Redis calls return, posts end by the
  outbound timeout, and a process that ended is started again (weak fairness of
  `Work` and of `Restart`). Producers, faults and crashes have none.
- QueryService: a handler is a task whose calls return, MongoDB's with an answer
  or an error and fetches within the outbound timeout (`app/state.rs`), so it
  keeps taking steps until it has answered, whatever the writers do
  (`HandlerRuns`, weak fairness of the handler's steps).
- EntityService and TemporalService only carry safety properties.

## 6. Theorems

Checked by TLAPS for every number of brokers, clients, handlers and entities,
every set of requests, stores and filters, every page and batch limit and every
bound, from the named assumptions on the constants (`ConstantsAssumption`,
`MembershipAssumption`, `DeliveryAssumption`, the assumptions on bounds,
requests, stores and filters of `EntityService` and `TemporalService`, and those of
`QueryService` named in section 3), which TLC evaluates in the runs. Where a theorem needs more, its hypothesis is named here
and with it what of the code it stands for.

**SwarmReplication_proofs.** `TypeCorrect`. `OriginInvariance`: the inductive
invariant `OriginInv` says where a mutation can be, namely in its origin's log
before any other log, stream, page or task has it (`PushesAtOrigin`,
`PublishedAtOrigin`, `TasksAtOrigin`). `LoggedAtOrigin` alone is not inductive,
because a push could carry a mutation that was never logged; with it a task that
looks an own mutation up always finds it, which gives
`OwnMutationsAreNotReapplied`.

`NoServedMutationIsSkipped` is proved under the assumption
`StampGap = 1`: two readings of the clock differ. `CursorInv` adds to
`OriginInv` that recorded times identify mutations, those of handlers between
stamp and insert included (`StampsUnique`), that pages only contain what the peer has
logged, and what a pull under way still owes (`PullCovered`): everything it was
ever served up to its cursor is logged or in hand, and everything up to the
last entry of its page is logged, in hand or still in the page. With equal
recorded times a page that is cut may contain either of two entries, and the
property fails.

`SwarmReplication_proofs` also has what the brokers that only follow hold, where one
client of one broker writes (`OneWriter`: one origin, one client, readings of the clock
that differ). Without it the properties fail, as section 4 says: a second client
inserts its stamps out of order.
- `NothingFallsBehindCursors`, under `RelaysInOrder`: nobody is pushed to, or
  followers pull from the origin alone. `UnseenInv` adds to `CursorInv` that the
  origin logs in the order of its stamps (`WritesAtOrigin`, `StampsAreLast`), that
  cursors are complete, what lies below one being logged, and the same for a
  pull under way with its page (`PullComplete`). The property speaks of the
  cursors alone, and a page that was read in between decides whether the next
  cursor is right.
- `FollowersHoldPrefixes`, without pushes: the log of each follower is a prefix
  of the origin's, also where it pulls from another follower.
- `DocumentsKeepUpWithLogs`, without pushes: `DocumentInv` adds which mutation
  explains each document (`DocumentsExplained`) and that what is about to be
  applied is new (`AppliesAreNew`), which rests on versions being in the order of
  the log (`VersionInv`).
- `FollowersDoNotResurrect`: the rule that the run SwarmResurrects violates
  holds here. What breaks it are pushes and second writers, not pulls that fail.

**SwimMembership_proofs.** `TypeCorrect`. `Invariance`: `IInv` says that every
record, stored, listed for a pull, carried by an event or held by a merge under
way, is founded: its incarnation was claimed by the broker it is about, it is
dead only where a suspicion was published, and a broker's own record is alive.
The safety properties only speak of stored records; the invariant has to follow
the record through all the places a stale copy can rest. From it follow
`IncarnationsComeFromTheirBroker`, `OwnRecordStaysAlive`, `RefutationsOutrank`,
`DeadWereSuspected`.

**DeliveryQueue_proofs.** `TypeCorrect`; `Invariance`: `IInv` says that the worker's
batch is exactly what the group gave out last (`BatchIsLast`), that every post
lies behind what of it is still to be posted (`PostsAreBehind`), and that the
entries in hand decode and are pending (`HeldArePending`). The order of posts
alone is not inductive: that the next post is later than all others rests on
where the batch lies. From it follow `PostsAreInOrderAndSingle`,
`StrandedForCause`, and with `RemainingFits`, which ties the length of what
remains to the group's position, `ImplementsDeliveryChannel`: every step of the
queue accepts, attempts or gives up messages of the channel, or leaves it alone.

`CountersInvariance` adds to `IInv` that every counter in every copy of
a subscription's document is covered by what a client wrote, or 0, and the posts made
since (`StoredCovered`, `EditsCovered`, `CountedCovered`): the stored ones, those a
patch has read, and the one the worker is about to write. The post of the entry
in hand must not be among those before the document is read (`Uncounted`), or
reading could count it twice; likewise a value that a client writes meanwhile lies
before that post (`BasesSettled`). What is covered stays covered because the number
of posts only grows. From it follows `CountersAreCovered`.

**EntityService_proofs.** `EntitiesAreKept`: the inductive invariant `EntityInv`.
Its core is what a request under way holds: an item it works on, a document to
write, writes not yet told and recorded, and for every item that is through a
write of its own that is recorded, silent or still in hand (`Work`, `AtStep`,
`Books`). The properties speak of answers and of what is recorded; that an answer
is right rests on what was in hand before it, through the three orders in which
single requests, batches and batch merges write, tell and record. From it follow
`HandlersAreTyped`, `SuccessesAreStoredAndRecorded` and `BatchesReportEveryItem`
(with `ReportsInv`, for requests that have been answered), and
`EffectsAreOfTheStore`. `EntitiesAreCreatedOnce` needs that between two insertions
of an entity the store was without it, `WritesAreNamed` what each handler's document
differs in from the one it read, as long as nobody else wrote in between.
`EffectsAreOfTheStore` and `SuccessesAreStoredAndRecorded` name a write by the id it
is stored under or the one in its document (`NamesOf`): the handlers accept an
attribute called `id` (section 4), and a batch then records under what it left there.

**EntityReplay_proofs.** `ReplayedLogsAreStores`, under `NoDocIsNone`
(what stands for no document has no `modifiedAt`). The invariant `ReplayInv` says,
as long as no call failed and no request was answered 500, for
every entity that no two requests raced for, no local request wrote and no document
without its own id bears the name of (`Misnamed`): the
store is what the log makes of it, or one request works on the entity and owes the
log the write it has made, or it is about to write. The property
only speaks of a broker at rest, so the invariant has to say what is missing
while a handler is between write and record, and that no step leaves it missing
for good. That the document recorded wins when it is replayed needs `TimesInv`: what
the log has made so far is not newer than what is about to be recorded.

**TemporalService_proofs.** `TemporalsAreKept`: `TemporalInv` types documents,
histories and records, stored and held by handlers, bounds their times by the
clock, and ties each write to its one request. On it rest `TimesAlwaysAgree` (with the
versions in the log), `CreationsAreTold` (a handler that looked whether the
entity exists knows so until it writes, unless two requests race, `CreatedInv`),
`HistoriesAreKept` (`KeepsInv`: a handler's new history keeps what its request
does not name of the stored one, as long as nobody races it) and, under
`NoDocIsNone`, `TemporalLogsAreStores`, along the lines of `EntityReplay_proofs`.
About the readers, for every history a broker can hold and every filter:
`SelectionsTakeTheLatest`, since `LatestFirst` gives every record a place of its own
and those of later times the earlier ones, and `ReadersSeeOneHistory`.

**QueryService_proofs.** For any filter languages (section 3), stores, requests,
documents of the web and numbers of writes and failures, without further hypotheses.
`HandlerInvariant`: `StoreInv` (one entity per id) and `ControlInv`. The core of the
latter is `Walked`: a resolution has popped some entries, its queue and these lead to
all that can be reached, the URLs among them are the visited ones, and the terms are
theirs. The property speaks of the end of a resolution, when the queue is empty; then
what was popped is closed under `Onward` and holds the start, so it is all
that can be reached. That a URL is not fetched twice does not lose what it leads to,
because it is among what was popped. From it follows `TermsAreReached`.

`AnswersAreExact` needs `QueryInv` for the loop over candidates: what was found and not
looked at, and what matched, are different entities of those that MongoDB's filter
selects; without a limit of MongoDB's they include all that certainly match, and with
one they are as many as it allows of entities that all match. The second is where the
proof could fail: MongoDB is only given the limit when neither q nor scopeQ is asked,
and only then is its filter the whole check (`FilterIsCheck`). In
every state before the answer the linked graph is that of the store, or there is none
and the filter names no linked entity, which is where `LinkAssumption` is used.

`NotifiedOnce` needs `NotifyInv` for the loop over subscriptions: what is left to look
at is the end of the list, each one before it was sent one message if it has an
endpoint and the event concerns it under terms its contexts may leave, and none if not,
and those behind it were sent none, but for the message whose enqueue failed (`FailedAt`). That ids differ makes counting messages by id count
them by subscription (`OneMoreSent`).

`DiscoveryAgrees` and `SubscriptionsSelect` compare two pieces of code that are written
apart. `DiscoverInv` says that the answer is what is discovered in the store; the rest is
about the operators: an entity counted for a type or an attribute is one that the
query's check finds, and a subscription's selectors, filters and
representation are those of the queries with the same parameters (`SameQuery`). Proving
these found the cases that the properties now exclude or name: entities without a type,
empty names, and the format `simplified` (section 4).

**SequenceFolds** shows that `FoldLeft` exists and is the iteration one expects
(`FoldIsIterated`, `FoldOfAppend`). The induction theorems of the library take an
operator as a parameter, which the provers cannot instantiate; here induction is
over a set of numbers (`InductionUpTo`), and the step that is folded is a constant
of the module, which the proof modules instantiate with theirs (`Replay`, `Sums`).

Only model-checked, and why:
- All liveness, the fairness half of the refinement included: fairness and ENABLED are
  out of the prover's reach.
- `WritingsParse` and `OperatorsAgree`: they are about what the parser and the evaluation
  compute for every expression, which takes induction over expressions and texts, and
  `QueryLanguage` is made of recursive operators, which the prover cannot use. For the
  same reason `LinkAssumption` is an assumption of the theorems about `QueryService`;
  TLC evaluates it for the filters of the run.
- `NeverRecreateDeleted` and `GroupsReadBack` are violated in general, and shown by
  their runs.

## 7. Not modelled

- HTTP routing and response formatting (`api.rs`), request headers, the info
  service and configuration: they parse, pass on and print, and keep no state.
- Validation of payloads beyond what decides a handler's path: the syntax of
  URIs, the shapes of attributes, `prepare_subscription`.
- Attribute names with escaped dots and escapes within quoted values: an
  expression is a sequence of tokens.
- Real coordinates: a geometry is a set of cells on a line, and what MongoDB makes
  of each operator is taken from its documentation.
- Paging by offset, and the order of lists.
- Tenants are independent and one is modelled. MongoDB and Redis are taken at
  their word: each call is atomic and durable.
- Membership and replication share the peer records; each module sees its own
  members of them.
