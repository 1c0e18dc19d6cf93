# Terroir.ma: models and proofs

Terroir.ma certifies Moroccan terroir products (AOP, IGP, Label Agricole) under
Law 25-06. It is a NestJS application over PostgreSQL (TypeORM, READ COMMITTED),
Redis and Kafka. This directory models the certification chain, its ledger and
numbers, the inspections that move it from the side, and the QR codes by which
the public checks a certificate; the events through which cooperatives,
laboratory tests and notifications hang together, with the consumer that carries
them; the copies in Redis; and the migrations that build the tables all of it
relies on. TLC checks the models on small instances; TLAPS proves the safety
results for every instance (section 5 says which stay with TLC).

All paths below are relative to the repository.

## 1. Inventory

| Component (under `src/modules` or `src/common`) | State | Operations | Talks to |
|---|---|---|---|
| **Certification chain** `certification.service.ts` | rows of `certification`, ledger `certification_events`, counters `certification_seq` | request, twelve transitions, renewal, queries, exports | QR service (call), producer (call after commit), consumer (called by it) |
| **Laboratory results listener** `certification.listener.ts` | none of its own (the ledger is its memory) | `handleLabTestCompleted` | Kafka consumer, certification service |
| **Inspections** `inspection.service.ts` | `inspection`, `inspection_report` | schedule, complete / file report, assign inspector | writes `certification.current_status` itself |
| **QR codes** `qr-code.service.ts` | `qr_code`, `qr_scan_event`, Redis `qr:verify:*` (5 min) | generate, verify, deactivate, evict, download | reads `certification`; called by grant, revoke, renew |
| **Kafka consumer** `kafka-consumer.service.ts` | map topic -> handler, offsets of the group `notification-group` | `subscribe`, `startConsuming` | all listeners |
| **Producers, schema registry** | none, schema ids | `publish*`, `registerAll`, `encode` / `decode` | Kafka; errors are logged and swallowed |
| **Batches and laboratory tests** `product/` | `production_batch`, `lab_test`, `lab_test_result`, `harvest`, `processing_step`, objects under `lab-reports/` | `submitLabTest`, `recordResult`, `uploadReport`, create, log, add; listener on `lab.test.completed` | Kafka, MinIO |
| **Product catalogue** `product/` | `product_type`, `product`, `lab`, `product_document` | create, update, deactivate, accredit, revoke, upload | MinIO |
| **Cooperatives** `cooperative/` | `cooperative`, `member`, `farm` | register, verify, update, deactivate, members, farms; listener | Kafka |
| **Notifications** `notification/` | `notification`, `notification_template`, `notification_preference`, two kinds of copies in Redis | send, preferences, templates, seed; five listeners | Kafka, SMTP, SMS |
| **Export documents** `export-document.service.ts` | `export_document` | request, validate | certification (read) |
| **System settings** `system-settings.service.ts` | `system_setting`, a copy per group in Redis (300 s) | get / update group | - |
| **Statistics and dashboards** | copies in Redis (300 s) | `getStats` (twice), `getDashboard` | every table (read) |
| **Database migrations** `src/database/migrations` | all tables, `typeorm_migrations` | `migration:run`, `migration:revert` | the entities |
| **Audit log, PDF, guards, metrics, plumbing** | `audit_log` | - | - |

What is hard here:

- **Check, then act, without a lock.** Every transition reads the entity, checks
  `current_status`, and only then opens the transaction of `applyTransition`,
  which saves *that* entity. `em.save` selects the row again and updates the
  columns in which the entity differs from it. There is no version column.
- **Several commits per operation.** A grant takes its number in one
  transaction, decides in a second, writes QR rows in two more statements and
  then publishes; a renewal inserts its successor after its transaction. Any of
  these can be the last thing the process does; nothing resumes.
- **Messages.** A message can be missing (the producer logs an error and goes on),
  written twice, or delivered again after a crash or a rebalance; a handler's
  error is logged and the message counts as handled. One topic has one handler,
  whoever else subscribed to it.
- **A second writer.** `InspectionService` updates `current_status` directly.
- **Caches filled late.** A scan stores what it computed from rows it read
  several awaits ago; eviction looks up the key of the one active QR row.
  Settings, preferences and templates are copied and evicted the same way.
- **Statements without a transaction.** Outside `applyTransition` no operation
  has one: results, verdicts, objects, rows and messages are written one after the
  other, by calls that overlap and may die in between.
- **A schema with a history.** Seventeen migrations, one of which repairs drift,
  run and are reverted on databases with rows.

What makes each component correct: the ledger only grows, by transitions of the
chain, and accounts for every row; numbers are unique and belong to a grant on
record; a laboratory message counts once; a grant has inspection and laboratory
on record; announcements follow commits; a refusal reaches scanners; a granted
certification has one active QR code; reports close inspections; every committed
offset has been handled; a message, a verdict and a row say what other rows bear
out; a suspension stands until somebody lifts it; a copy is stale only for a
reason and not for ever; the tables fit the entities whatever was reverted before.
`PROJECT.json` lists the hazards, each at its line, with the properties that
watch it.

## 2. Modules

| Module | Models | Role |
|---|---|---|
| `CertificationStates` | statuses, `assertStatus` / `applyTransition` pairs | shared vocabulary |
| `CertificationChain` | `CertificationService` and its lab listener | detailed specification |
| `DecisionLedger` | what `certification_events` promises | abstract specification |
| `CertificationLifecycle` | the state machine users have in mind | abstract specification |
| `Inspections` | `InspectionService`, composed with `CertificationChain` | detailed specification |
| `QrVerification` | `QrCodeService`, its cache and scans, the calls that drive it, and whoever moves the status | detailed specification |
| `EventBus` | start-up, consumer, offsets, producer, end of the process | the way of a message |
| `ConsumerGroup` | what the group promises of its messages | abstract specification |
| `LabTests`, `Cooperatives`, `Notifications` | `LabTestService`, `CooperativeService`, `NotificationService.send` | each extends `EventBus` |
| `PlatformEvents` | the listeners | composes the four modules above |
| `SystemSettings`, `Preferences`, `NotificationTemplates`, `Statistics` | rows and their copies in Redis | components of `Operations` |
| `ExportDocuments`, `Catalogue` | `ExportDocumentService`; product types, laboratories, documents, records | components of `Operations` |
| `EntityTables`, `SchemaMigrations` | the entities' columns; the migrations | component of `Operations` |
| `Operations` | - | the independent components side by side |
| `MCChain`, `MCInspections`, `MCQr`, `MCEvents`, `MCOperations` | - | instances for TLC |
| `CertificationChainProofs`, `CertificationLedgerProofs`, `InspectionProofs` | - | proofs, each extending the one before |
| `QrProofs` | - | proofs about `QrVerification` |
| `EventProofs`, `LabProofs` | - | proofs about `PlatformEvents`, the second extending the first |
| `OperationProofs`, `MigrationProofs` | - | proofs about `Operations`: the caches, catalogue and documents; the migrations |

### CertificationChain

`certification` is the table; a row keeps status, number, batch and
`renewedFrom` (who, when, why and the validity dates are left out: the number
stands for the columns a grant writes). `certificationEvents` is the ledger in
commit order; an entry keeps from, to, the number of a grant, and `cause`, the
`eventId` of a laboratory message (the `correlationId` of the listener; REST
calls have none). `lastSeq` is `certification_seq`. `call` is the program counter
and the local entity of every HTTP request and of the consumer.

| Code | Actions |
|---|---|
| `findById` + `assertStatus` of an operation | `SubmitRequest` ... `RenewCertification` (all instances of `Start`) |
| `generateCertificationNumber`, its own transaction | `GenerateCertificationNumber` |
| `applyTransition`: insert the event, `SELECT` of `em.save` | `LoadForSave` |
| `applyTransition`: `UPDATE` of the differing columns, commit | `CommitTransition` (`Merged`, `NumberFree` for the UNIQUE constraint) |
| QR service call of grant, revoke, renew | `CallQrService` (its effects are in `QrVerification`) |
| insert of the renewal's draft | `CreateSuccessor` |
| `publish*` | `Announce` |
| a delivery of `lab.test.completed`, first or repeated | `HandleLabTestCompleted`, then `ReceiveLabResults` or `SkipLabResults` |
| an error or the end of the process at any of these points | `Abort` |

Under READ COMMITTED another transaction may commit between any two of these
steps. The event insert shares a step with the select because it is invisible
until the commit; the final update and the commit share one because the update
locks the row.

The consumer is one caller: KafkaJS runs `eachMessage` one message at a time per
partition, and the model assumes one consumer process and one partition at a
time for the topic.

In the process as it is put together, the laboratory's listener never gets its
message (`PlatformEvents` below). `CertificationChain` models it as it is written and
unit-tested, for what it does when it is called.

### Inspections

Extends the chain with `inspection`, `inspectionReport` (at most one per
inspection, UNIQUE) and `visitorCall`. `ScheduleInspection` inserts the row,
`MarkCertification` writes the certification; `CompleteInspection` reads,
`UpdateInspection` closes, `SaveReport` inserts, `MarkCertification` writes. Each
is one statement and they share no transaction, so `AbortVisitor` can fall
between any two.

**The results about `CertificationChain` are results about `CertificationService`
alone.** Once inspections run beside it, `LedgerCausal`, `StatusExplained` and
`GrantedAfterFullChain` are false (run `inspections_ledger`), and `StatusAccounted`,
`GrantedAfterInspectionAndLab` and `BypassedLedgerSpec` are what is left of them.

### QrVerification

Keeps of a certification only its status, from the end of its first laboratory on. Here
`applyTransition` is one step: a save writes this one column either at its update
or, when the row already had the new status at the select, not at all, and both
are the same as one write at one moment.

Three parties move the status. The calls of `CertificationService` (`StatusOps`) are the
decisions, and the way back to one from an inspection: `startInspection`,
`completeInspectionChain`, `requestLab`. The consumer's `receiveLabResults` (`FindWaiting`,
`ReceiveLabResults`) is part of that way. And `MarkCertification` is the `UPDATE` with which
`InspectionService` schedules and completes inspections: it asks nothing of the status and
evicts nothing. What a scanner was told before it outlives the grant: a stored "valid" stays
until its five minutes are over, while the certification is `INSPECTION_SCHEDULED` and
later ones. `reopened` is history: the answers an inspection has so overtaken, each until a
decision makes it true again; the statements on answers name it as the one exception. `Inspections`
has the calls around `MarkCertification`; nothing is assumed here of when it happens, so the
QR part has at least all their behaviours.

A scan is `MissCache`, `FindQrCode`
(active row, expiry), `ReadCertification`, `StoreAnswer`; a scan answered from the
cache changes nothing and has no action. `ExpireEntry` is the Redis TTL,
`ExpireQrCode` the clock passing `expires_at`. A token stands for the row and the
signature; a new one is taken for each issue because the signature covers the time
of issue. Scan counters, scan events and the image download are left out.

### EventBus and PlatformEvents

`EventBus` is the process as Kafka sees it. `Boot` runs the `onModuleInit` hooks in the
order of the imports of `AppModule`, each of which puts handlers in the Map; the
schemas are registered, and only then is HTTP served (`Serving`). `Join` is the
assignment of partitions: at the committed offset, or, with `fromBeginning: false` and
none committed, at the end. `Fetch`, the handler, and `Resolve` are `eachMessage`;
`Commit` is kafkajs's, some time after; `Crash` and `Rebalance` take the consumer back
to what is committed. `Send` writes a message once, twice or not at all.

Three modules extend it. `LabTests`: every statement of `submitLabTest`, `recordResult`
and `uploadReport` is an action, and so is the message; no call asks for a status, so
any number of results may race. `Cooperatives`: each call looks and later writes;
`update` is three steps, the look, the `SELECT` of `save` (`DiffCooperative`) and the
`UPDATE` of the columns that differ (`SaveCooperative`), since `save` writes back what the
entity had. `Notifications`: the row of a message, pending and then sent.

`PlatformEvents` composes them. `Handle` says what each of the four listeners does with a
message *if the Map has it*. The imports of `AppModule` end with cooperative, product,
certification, notification, so of the listeners of `lab.test.completed` the
notification's is left, and of those of `cooperative.registration.verified` the
certification's, which logs. Several properties rest on that, `OneResultPerCall` and
`SuspensionHolds` among them: what keeps the product listener from doubling results, and
the cooperative listener from lifting suspensions, is the order of imports.
`certification` is the status of a batch's certification around the laboratory only.

`ConsumerGroup` is what is promised of the messages of a topic once `notification-group` reads
it, without processes, listeners or notifications: it has at most one message in hand,
takes them in order from the committed offset on and leaves none out, may lose the one in
hand, and commits forwards past what it has handled. `GroupSpec` is this specification with
the message `eachMessage` works on (`InHand`) for its own.

### Operations

Seven components that share no state with each other, one module each; `focus` chooses
which of them moves in a behaviour, so that TLC does not multiply them.

`SystemSettings`, `Preferences` and `NotificationTemplates` have a row (or several), a copy,
and calls for which every `await` is a step. Two fields of a copy are history: `expires`
(it was stored with a time to live) and `raced` (its row had changed between the
`SELECT` and the store). A template's code, channel and language are one `code`. An
update of a template is what TypeORM's `save` makes of it: `FindTemplate`, the `SELECT` of
`save` with the columns that differ (`DiffTemplate`), the `UPDATE` of those alone
(`SaveTemplate`), and the eviction of the copy under the code *the call has in hand*
(`EvictTemplate`). When another update has changed the row's code between
`SELECT` and `UPDATE`, that is not the row's code, and the copy under the row's code stays.
`owes` is history: the code the row had after the `UPDATE`, until its copy is
evicted by the call. `Statistics` stands for all three sets of
figures: several queries, each of its own moment, one copy, no eviction.

`ExportDocuments` runs beside one certification that moves as the chain and inspections
move it. `Catalogue` has product types (the `UPDATE` names its columns), a laboratory,
documents with their objects, and the records that are inserted and announced.

`SchemaMigrations` keeps the schema as facts: a table has a column, a column is NOT
NULL without default, a named constraint exists. Each migration is a list of
statements reduced to what it needs, what must be absent, what it removes and adds;
`Run(n)` applies all pending ones up to a release in one transaction, `Revert` undoes
the last. Between commands, releases write rows that a later constraint forbids
(`RowsChange`). `EntityTables` has the columns of the 24 entities. The module has no
parameters: what TLC explores is all there is.

## 3. Runs

| Run | Instance | What it shows |
|---|---|---|
| `chain` | 2 requests, consumer, 1 message, 2 certifications, up to 10 ledger events on the first, 2 numbers | the invariants of the chain and `LedgerSpec`, with every interleaving and crash |
| `chain_serial` | 1 request, consumer, 2 messages, 2 certifications, 10 events each | `LifecycleSpec`: without racing HTTP calls the rows follow the state machine |
| `decision` | as `chain` | violation of `DecisionIsFinal` |
| `inspections` | 1 chain request, consumer, 2 messages, 2 inspection calls, 1 inspection, 10 events | what survives the bypass, two calls racing to complete one inspection included |
| `inspections_ledger` | 2 inspection calls | violation of `StatusExplained` |
| `qr` | 2 calls (decisions and new codes), inspections, consumer, 1 scan, 2 tokens, failures | `ActiveWithinCalls`; `RefusalReachesScanners` |
| `qr_serial` | 1 call, inspections, consumer, 2 scans, 3 tokens, no failures but the consumer's | `OneActiveQr`, `AnswersFollowDecisions` |
| `qr_revocation` | 1 call, inspections, consumer, 1 scan, 2 tokens | violation of `RevocationIsImmediate` |
| `events` | 2 calls, laboratory's or cooperatives'; 1 batch, 1 test; 1 cooperative, 1 member; 2 messages per topic; 1 interruption | at-least-once handling, support of verdicts and messages, one result per call, repeats of notifications, suspensions and registrations; `GroupSpec`, `MessagesGetHandled` |
| `events_lab_results` | 1 laboratory call, no interruption | violation of `LabResultsAdvanceCertification` |
| `operations` | each component with 2 or 3 calls, 2 keys, 2 codes, 2 rows (1 of the templates), 2 queries; all migrations | see section 2; `CachesSettle` |
| `migrations_revert` | as `operations` | violation of `RevertGivesPriorSchema` |

Bounds. `MaxEvents` bounds the ledger length at which calls still start: ten is
the ten transitions from the request through grant to a revocation or renewal,
so a full chain is reached with room for one racing entry. `MaxSeq` bounds a
counter: two numbers let two grants race, or one be burned. The second
certification of `chain` serves requests and successors (`RestOfChain = 0`); that of
`chain_serial` goes all the way. Ten events in `inspections` are
four from a filed report to a grant and six more to a second one, after an inspection has
thrown the certification back; its two inspection calls are on one
inspection, so that they race to complete it. Three tokens in `qr_serial` allow two
regenerations. `qr` calls only the decisions (`MCDecisions`), not the way back to them from an
inspection, which `qr_serial` and `qr_revocation` have; a refusal needs no more, and every
status but `GRANTED` counts as one. Requests, visits and messages are interchangeable and reduced by
symmetry where the properties are safety. `CHECK_DEADLOCK FALSE` because the
bounds and the supply of tokens make every instance stop in the end.

In `events` two calls are what it takes for a race, and two messages on a topic for a
redelivery beside a duplicate; `MaxInterruptions = 1` allows one crash or rebalance
anywhere, and with it a message that is handled twice. The calls are on one kind of
endpoint at a time (`focus` of `MCEvents`): a laboratory's and a cooperative's calls meet
only in the consumer, which handles one message after the other either way; the
proofs have them together. In `operations`, an update needs one other call to race
with and a third to read what is left: of templates one row, two calls that update or
deactivate it, and a third that seeds, creates and sends over and over (two rows of
one code are in the proofs only); `MaxChanges = 2` lets the tables change between two queries and again
after the store. Calls on settings, preferences and templates each update
once, while reads repeat, so that writing ends and `CachesSettle` says something.

Not reached within these bounds: two grants of one certification racing with a
third call (a granted row whose number a stale save erased needs three calls in
flight at once). The proofs have no such bound.

Fairness. In `QrVerification` only `ExpireEntry` is weakly fair: Redis drops an entry when its time is
over whatever the service does. No fairness is assumed of calls, scans or
messages: a request can die anywhere, and nothing in the code resumes it.
`PlatformEvents` is fair to what the event loop and kafkajs do by themselves: starting
up and joining, fetching a topic that has a message, the handler and its statements,
and resolving; not to commits (none of the properties needs one to happen), calls,
crashes or rebalances. `Operations` is fair to the statements of a call that has begun,
each of which is answered or fails, and to the expiry of copies that have a time to
live; calls are never obliged to start, and any of them may fail.
`MessagesGetHandled` speaks of messages from the group's committed offset on, once it has
one: before that, `fromBeginning: false` may skip them, and the model does.

Mutants. Each property of a passing run has a mutant, an operator
`<Definition>_<Change>` beside the definition it replaces, with which TLC
finds the property violated.

## 4. What the code does that its documents do not say

- **Decisions are not final** (`decision`). Two calls that both read `UNDER_REVIEW`
  both pass `assertStatus`; the later save overwrites the earlier decision.
  `docs/diagrams/certification-state-machine.mermaid:19-20` ends the machine at
  denied and revoked. The ledger keeps both decisions, which is why `DecisionLedger`
  promises less than a state machine.
- **The ledger does not have every transition** (`inspections_ledger`), against
  `certification-event.entity.ts:5`.
- **Revocation is not immediate for scanners** (`qr_revocation`), against the comment at
  `qr-code.service.ts:263-264`. `RefusalReachesScanners` is what does hold: the answer
  dies with its five minutes.
- **No certification hears of its laboratory result** (`events_lab_results`), against
  `certification.listener.ts:42-43` and `docs/domain/kafka-events.md:38`. The topic has
  one handler, the notification's.
- **Reverting 007 does not restore the schema** (`migrations_revert`), against
  `docs/runbooks/database-migrations.md:131`. The columns its `up` drops are mostly not
  given back, and its UNIQUE on `inspection_report.inspection_id` stays, so that a new
  `migration:run` fails unless 003 is reverted as well (`FailuresExplained`,
  `SchemaIsBuilt` say how far it goes; `EntitiesFit` that the entities fit all the same).

Met on the way, without a run of their own: a message that is delivered again is
notified again (`RepeatsExplained` says how often; `docs/domain/kafka-events.md` asks for
idempotent consumers); a notification is marked sent although no listener gives an
e-mail address; running 005 again, or 007's status columns, sets the statuses of existing
rows back; two stale updates of a cooperative can leave it active with no verifier; two updates of
a template can leave a stale copy under its new code although both have evicted, since
each evicts the code it has in hand (`TemplateStaleExplained`); an inspection of a granted
certification leaves scanners with the stored "valid" until it expires
(`AnswersFollowDecisions`);
a deactivated template whose code has a file falls back to the file (the repository
has no `assets/templates`, so nothing is seeded or fallen back on as it stands); the
audit interceptor writes a row for requests that succeed only; the dashboard counts
statuses (`VERIFIED`, `PENDING`, `PASSED`) that the entities never take.

## 5. Proofs

`ChainAssumption` (the consumer is not a request, messages have a batch, bounds are
numbers, `None` is none of the values) and `InspectionAssumption` (`None` again) are the only
assumptions on the constants of the chain; the sets may be of any size, infinite ones
included. The other modules assume as little (`QrAssumption`, `BusAssumption`,
`LabAssumption`, `CoopAssumption`, `EventsAssumption`, `SettingsAssumption`,
`TemplateAssumption`, `StatisticsAssumption`, `CatalogueAssumption`: the bounds are numbers,
the null values are none of the others, keys are a non-empty sequence); `OperationProofs`
takes `Codes # {}` where it needs it. Two groups of theorems are about
calls made one at a time and say so in their hypothesis, `Requests = {r}`: the properties
they state are false when calls overlap, and the instances TLC checks them on have one
request as well. What else runs (consumer, scans, failures) is not restricted by it.
`ActiveCodesBounded` asks for finitely many calls, without which its bound means nothing.

*`CertificationChainProofs`.* `TypeOK` is not inductive on its own: a commit uses the
local entity, so `CallsWellFormed` says that a call past its check still holds an
entity in the status the check asked for. `LedgerCausal` and `StatusExplained` need
more than types: the row may have moved on since the read, so the entry a call is
about to write is justified by history and not by the row. `CallsExplained` says it:
the status a call was checked against is one its ledger has reached. `LedgerInv` is the
conjunction and is inductive. `GrantedAfterFullChain` follows from it without another
induction: the chain is a line, so each status on record has its predecessor on
record (`PredecessorReached`, `ChainIsALine`).

*`CertificationLedgerProofs`.* `NumberInv`: a pending grant has a number at most the
counter it came from, on no entry and with no other call; hence `NumbersNeverReused`.
`LabInv`: requests carry no message, and the consumer only one that is not on record;
hence `LabEventOnce`. `RowInv`: rows, and the snapshots calls hold, only carry numbers
on record for that certification; hence `RowNumberExplained`. `LedgerRefines` puts these
together: every commit is a step of `DecisionLedger` and every other step a stutter.

`SuccessorInv` counts, for every certification, the rows that name it as their predecessor
and the renewals about to insert one, against the renewals on its ledger; a renewal moves
from the second to the first, or dies and leaves their sum smaller
(`SuccessorsAreExplained`).

The last part is about one request beside the consumer. `SerialInv` says that a call
between its check and its commit acts on a row that is still as it read it (`Current`), and
that only rows in or past `GRANTED` have a number. The two callers cannot disturb each
other: the consumer commits only what it found in `LAB_TESTING`, and no request finds
anything there (`EdgesOneByOne`), so they never work on one certification. Then every
insert of a row and every commit is a step of `CertificationLifecycle`, and all the rest
stutters: `OneByOneRefines`,
and `DecisionsAreFinalOneByOne`, the counterpart of the violation in run `decision`. What
takes a decision back is the overlap of two requests, not a crash, a retry or a
message.

*`QrProofs`.* `TypeInv` adds to the types that a scan past its lookup holds a token that was
issued, and that what it is about to store may be stored. For calls that overlap,
`CountInv` counts active codes and calls about to insert one. Only `Deactivate` brings a call
to its insert, and then no code is active and the calls alone are counted; an insert takes
its call out of the count for the code it puts in; nothing else adds to either. So there
are never more active codes than calls (`ActiveCodesBounded`). The rest is for operator
calls made one at a time, beside the consumer and inspections. `Undisturbed`: what a call, or the
consumer, found of the status still holds when it saves, unless an inspection has marked
the certification since. `ToldFits`: whatever the copy says of a token, or a scan is still
to store, was true of its certification at one time (`Follows`), and without an inspection
statuses do not go back beyond that: either the status is one `After` the answer, or the answer
is among those `reopened`. It needs no assumption on failures, so
`AnswersFollow` has `AnswersFollowDecisions` under `Spec` as well as under `QuietSpec`.
`OneQrStaysActive` is under `QuietSpec` only, since a call that dies between deactivating
and inserting leaves no code: `CallKnows` is what the call in flight knows of the
certification it works on, and `ActiveInv` has exactly one active code everywhere
else.

*`InspectionProofs`.* `VisitInv` adds to the types that a report belongs to a completed
inspection of the same certification, and that a call about to write
`INSPECTION_COMPLETE` finds a report; `ReportedIsCompleted` is part of it. `AccountInv`
is `LedgerInv` with "on record" weakened to "on record or the doing of an inspection on
record" (`Accounted`): an entry need no longer start where an earlier one ended, but
inspections put a row in two statuses only, so the walk back from `GRANTED` along the
chain (`GrantNeedsLab`) stays on the ledger down to `LAB_TESTING`; hence
`GrantedAfterInspectionAndLab`. The invariants on numbers, messages, row numbers and
announcements never mention the status of a row, and the status is all that inspections
write: `VisitorFrame` says so, and `LedgerSideSound` carries them over; hence
`KeptBesideInspections` and `BypassedLedgerRefines`.

*`EventProofs`.* `StepsOfTheBus` sorts the steps of the composition by what they do to the
bus, once. `ListenersInv` says who can have a topic: `LastListenerWins` computes the Map after
all hooks, and every topic of the cooperative and product listeners is one of the
certification or notification listener too. `CoopInv` then adds to the types what a
call in flight carries and, for `SuspensionHolds`, that a call whose entity was read
as active is in `overlap` of a cooperative that is suspended now: it was under way when
the row was last written so. `RegistrationsStand` follows from the same invariant.

*`LabProofs`.* `LabInv` adds what a call has behind it (`LabCarries`): past the insert its
result is in the table, past the update the test is completed, past the upload the
object is there. Rows keep their batch and their completion (`TestsKept`), which carries
all of that over the steps of other calls; hence `RowsSupported` and
`OneResultPerCall`. `LogInv` gives messages their shape, and `SendAdds` says that a topic
only gains copies of what was sent; hence `AnnouncedIsRecorded`, and with the rows
`OutcomesSupported`. `OffsetInv`: while the
process consumes, everything between the offset the group began at and the one it
reads next has been handled; hence `CommittedMeansHandled`.

For the notifications, `FetchInv` says where a message in hand comes from, and `NotifiedInv`
that a handler inserts at most one row each time it is called. `TrialInv` counts the calls of
the handler for an event: the copies of its message (`Places`) for every round of reading
that an interruption has ended, and in the round that goes on the copies read so far
(`Tried`), each at most once because the position only moves forward. A copy that is
read is a copy there is; hence `RepeatsExplained`. `PlatformTypes` collects the types.

For `GroupKeepsItsPromise`, `GroupInv` relates the offsets to each other and to the topic: a
group that has committed has done so past where it began; while the process consumes, it
reads before neither of the two and never past the next message to come. With `OffsetInv`
every step maps to one of `ConsumerGroup`: `Join` to `Begin`, `Fetch` to `Take`, `Resolve` to
`Finish`, `Crash` to `Drop`, publishing to `Publish`, and what handlers do in between to a
stutter.

*`OperationProofs`.* One invariant per cache. A copy that differs from its row is `raced`, or the
call that wrote the row last is still on its way to the eviction, or failed before it.
A template's copy has two more reasons: its row has another code by now, or the call that
wrote the row under this code `owes` it an eviction for ever, having evicted the code it had in
hand. `CopyExplained` says this of one code and one copy, for an arbitrary set of columns written
(`WrittenRow`).
For `UpdateAnswersItself`, `AloneOf` follows an update that overlaps no other call: the keys
written so far are its own, the copy is gone after the eviction, and it answers from
rows that are all its own.

In the catalogue, calls at their write have their object or record behind them; the row
an update was based on still exists; two rows never share a code. `DocumentsFollowTheGrant`:
a call about to insert found the certification granted, and either it still is or
`lost` says when it was not. `OperationTypes` adds the migrations and the figures to the
invariants of the module: the types of all of `Operations`.

*`MigrationProofs`.* TLC's run of the migrations is complete, since they have no parameter;
the proof says why it comes out as it does, and which migration is the odd one. `Shaped`
is the inductive part of `MigrationInv`: a table that `residue` does not name is as it was
built (`Built`), one it names is as 007's down left it (`Reverted`), and where the
inspections or the export documents are so, the inspection reports are too. Two schemas
are compared one table at a time (`Same`) by what they have and require of it, and a
migration treats equal tables equally (`AfterSame`), so that each table needs looking at
only where a migration changes it (`ChangedBy`, `OthersSpared`). `DownUndoes` goes through
the downs: all but that of 007 give `Built` back, hence `OtherRevertsRestore`, the
counterpart of the violation in run `migrations_revert`. `RevertedElsewhere` and `RunAgain`
are about 007: it restores four of the tables it touches, and of the five it does not, a
second up makes `member` and `product_type` what the first one made them, and cannot run at
all on the others, because the unique key of the reports is still there (`Possible007`).
So a run that got past 007 has nothing left over (`UpStep`), and one that fails has a
reason (`UpPossible`, `DownPossible`). `PendingShaped` carries this over the migrations of
one run, and `BuiltFits` holds what is built in the end against the 24 entities.

`Built` and `Pending` are recursive functions. What they compute is proved by building
them up to each point (`BuiltSteps`, `PendingShaped`), with the induction over an interval
that `IntervalInduction` gets from the well-foundedness of `<` on the naturals: stated with
a set, it needs no operator as a parameter.

Only model-checked: liveness (`RefusalReachesScanners`, `MessagesGetHandled`, `CachesSettle`),
which is out of the prover's reach. Every invariant and action property, and every
refinement, of a passing run is proved. The five runs that end in a violation are
counterexamples; of two of them (`decision`, `migrations_revert`) the proofs say what it
takes.

## 6. Not modelled

- *Authentication and roles*: a token and a list of roles are compared once per request,
  without state. In the models any call may be made at any time, by anybody.
- *Audit log*: rows are inserted after the answer, if that works, and read by nobody but
  the administrator.
- *Documents in PDF*, *HTTP plumbing, metrics and configuration*, *pitch and manual
  generators*: formatting, wiring and scripts.
- Of modelled components: `assignInspector` (inspector columns only), scan counters and
  scan events, `updateMember`, a cooperative's change of its ICE by
  `update` (rows are named by the ICE they were registered with), the plain inserts of products and laboratories, rendering
  and mailing, payloads, what statistics count, column types, indexes and the
  constraints of the tables that nothing here depends on, and everything read-only.
- `BatchService.updateStatus` and `ExportDocumentService.updateOnssaReference` have no caller.

## 7. Plan

The certification's own topics on `EventBus`, with the handlers of the notification
listener that are not modelled by a message yet.
