# Verification of zplus

TLA+ models of zplus, a multi-tenant platform of NestJS services behind a Kong
gateway, with TLC runs on small instances and TLAPS proofs for every instance.
Paths below are relative to the repository; `PROJECT.json` lists components,
runs, mutants, the map from definitions to source lines, findings, hazards and
theorems.

## 1. The system

| component | state it keeps | operations | what makes it hard |
|---|---|---|---|
| notification-service, delivery pipeline | a row per notification; timers and sends in memory | create, send per channel, retry, scheduler, cancel, mark as read | every handler loads a row, awaits, saves it; channels run in parallel; timers die with the process |
| notification-service, the rest | templates, preferences, tokens, tenants | create/read/update/delete, calls to mail, SMS and push providers | default rows created on first read |
| kafka library: circuit breaker | state, failure count, next attempt, in memory | `fire`, `success`, `failure`, `reset` | calls settle in an order and a state other than those they started in |
| kafka library: consumers | offset at the broker, task in memory | `subscribe`/`eachMessage`, retries, dead letter queue | crashes, rebalances, a member that does not know it lost its partition |
| kafka library: event store, schemas | none | publish | – |
| api-gateway (Kong plugins in Lua) | breaker state and request windows in Redis | access and log phase of every request | read in one phase, written back in another; commands that are not atomic together |
| auth-service | users, sessions, refresh tokens, MFA settings | login with lockout, refresh, reset | counters and tokens read, changed and saved without a lock |
| billing-service | plans, subscriptions, invoices, payments | REST operations, daily scheduler, provider webhooks | numbers computed from the last row; webhooks repeat |
| file-service | files, versions, folders, shares, objects in MinIO or S3 | upload, new version, download, folder operations, sharing | a tree kept twice (parent links and paths); whole rows saved by downloads |
| frontend | IndexedDB caches and outbox, tokens | pages; offline queue and its replay | several replays of one queue at once |
| module-marketplace | modules, versions, dependencies, installations, flags | install, update, check dependencies | checks before writes |
| tenant-service | tenants, domains, packages, modules of a tenant | create, verify and default a domain, upgrade | swapping the default domain |
| user-service | users, roles, permissions, teams, settings | REST operations, bulk import | cycle check on the team hierarchy before the update |
| crm-service, hrm-service | contacts, employees and so on | create/read/update/delete | – |

The services talk to each other over Kafka (`kafka/lib`, wrapped by each
service's `modules/kafka`) and REST through the gateway. Inside a service,
modules talk through NestJS events: `notifications.service.ts` emits
`notification.created` and `notification.retry`, which
`notification.processor.ts` handles; billing and tenant events come in through
`KafkaService.subscribe` and end in `NotificationsService.create`.

What has to hold, per component:

- delivery pipeline: a notification goes out once it is due, is retried a
  bounded number of times, its row tells the truth about what was sent, and
  what is finished or canceled stays so;
- circuit breaker: its state follows the failures, it opens for a bounded
  time, and it never gets stuck between open and closed;
- consumer group: from where it began to read no message is skipped, one that
  cannot be processed is put aside and does not stop the others;
- folders: paths agree with the parent links as long as names are plain, the
  tree has no cycle, deleting a folder touches its own descendants only;
- file versions and shares: the current version exists and can be decrypted,
  numbers have no gaps, a link counts what it hands out for download (what it
  hands out for preview is not counted);
- tenant account: guesses by login are bounded, what was ended does not come
  back, a login keeps one refresh token, recent passwords do not return;
- gateway breaker: it opens when the service fails, and only then;
- outbox: a request made offline is sent or tried often enough, and leaves;
- teams and module dependencies: no cycles; installations have what they need;
- domains: one default per tenant. Invoices: unique numbers.

## 2. Plan

All six steps are done, each with its abstract contract or its inductive
invariant and proofs. The order is by how much of the system rests on the
component and by how hard it is to test.

| step | modules | composed of / abstract specification | runs | theorems |
|---|---|---|---|---|
| 1 | `NotificationDelivery`, `NotificationMC` | implements `DeliveryContract` | 3 | types, 6 invariants, 2 action properties, refinement |
| 2 | `CircuitBreaker`, `CircuitMC` | – | 1 | state and count, probe |
| 3 | `KafkaConsumer`, `ConsumerMC` | implements `TopicContract` | 2 | types, nothing skipped, offsets, refinement |
| 4 | `FolderTree`, `FolderMC` | a forest stored as links and as paths | 2 | types; no cycle, distinct siblings, paths that match the links when requests do not overlap |
| 5 | `FileVersions`, `FileMC` | files, versions, objects and share links together | 2 | types, 5 invariants |
| 6 | `TenantAccount`, `AccountMC` | one user, the tokens and the requests | 1 | types, 4 invariants |
| 7 | `OfflineSync`, `OfflineMC` | composes `Outbox` (web client) and `GatewayBreaker` (Kong) | 1 | types, 2 invariants |

What would come next: the check for cycles among module dependencies
(`module-dependencies.service.ts`), as a recursive function over small graphs;
the invoice and payment operations once the billing entities and services agree
with one another.

## 3. The modules and the code

### NotificationDelivery (`notification-service/src/notifications`)

One notification: rows never refer to one another. `row` is its row (the
columns the handlers write), `op[h]` the asynchronous handlers: one per pair of
a round of sending and a channel, one per cron run, one per user request.
`timers` are the armed `setTimeout`s of `markAsFailed`, `due` says that
`scheduledFor` has passed. `retried`, `dispatches`, `failures` and `reached`
are history variables, written only.

| code | actions |
|---|---|
| `NotificationsService.create` | `CreateImmediate` (inserts and emits `notification.created`, so that the first round starts), `CreateScheduled` |
| `NotificationProcessor.handleNotificationCreated`, `sendToChannel` | `StartRound`, part of every action that emits; then per channel `SendAccepted` or `SendFailed` |
| `markAsDelivered`, `markAsFailed` | load (in the send's step), `Diff`, `Commit` or `CommitFailed` |
| `handleNotificationRetry` | `RetryFires` |
| `processScheduledNotifications` | `ScanFind`, `Diff`, `ScanCommit` |
| `cancel`, `markAsRead` | `CancelLoads` or `ReadLoads`, `Diff`, `Commit` |
| a database error, a restart | `SaveThrows` (with or without the UPDATE having happened), `Crash` |

TypeORM's `save(entity)` re-reads the row and updates the columns in which the
entity differs. That makes three steps of each handler, and lets it overwrite
what others wrote in between, with its own columns only.

`DeliveryContract` is the abstract specification: accepted, tried until one
try succeeds or `MaxRetries` have failed, then final. It is what the pipeline
implements when nothing overlaps, with `used` mapped to `retryCount` and
`outcome` to the status.

### CircuitBreaker (`kafka/lib/circuit-breaker.ts`)

`fire` is `Admit` or `Reject` up to its `await`, then `Succeed` or `Fail`;
`Reset` is the public method and `Tick` the clock. `lockout` counts the ticks
until `Date.now() > nextAttempt`. `MaxCount` is where `failureCount++` stops
growing (2^53 for a JavaScript number); TLC uses a small one.

### KafkaConsumer (`kafka/lib/kafka-service.ts`)

A consumer group on one partition. `eachMessage` is `Deliver` or
`DeliverUnparseable`, then `HandlerSucceeds`, `HandlerFails` with `BackoffEnds`,
or `HandlerGivesUp`; `sendToDlq` is `DlqAppends`, `DlqAcknowledged` and
`DlqFails`. The producer retries and is not idempotent, so that a send whose
acknowledgement is lost appends the message again (`DlqAppendsAgain`, at most
`sendRetries` times); `sent` counts sends, `dlq` copies. The kafkajs client and
the broker are external: `Commit`, `Assign` (through `Reassign` and
`Rebalance`), `Notice`, `Crash`. A member that lost the partition works on until
a heartbeat tells it.

The topic grows (`Produce` moves `end`). A member starts from the committed
offset; as long as there is none it starts where `fromBeginning` says, which is
off by default: at the end the topic has then (`StartPosition`). `base` is where
the group last began that way. Until the first commit a crash, a stop or a
rebalance may therefore move `base` past messages that came in meanwhile or were
being worked on. `TopicContract` is the abstract specification: from `base` on
the messages are finished one after the other, the committed offset follows
behind and reaches the last; only a group that has not committed and does not
read from the beginning may pass over messages (`PassOver`).

### FolderTree (`file-service/src/modules/folders/folders.service.ts`)

`folder` is the table, `op[q]` a request between two of its queries: a handler
issues one query after the other, without a transaction. Each operation has an
action for its first query (`CreateStarts`, `UpdateStarts`, `MoveStarts`,
`DeleteStarts`, `PurgeStarts`) and shares those for the following ones:

| code | actions |
|---|---|
| the parent is looked up, `isChildFolder`, the check for duplicates, the path | `FindParent`, `Walk` (per ancestor), `Check`, `ComputePath` |
| `save` | `Diff`, then `Save`, or `Insert` if the row is new or gone |
| `updateChildrenPaths` | `FindChildren`, `Rewrite` (per row) |
| `deleteFolderSubtree` | `Subtree` |
| `remove` of the children, of the folder | `FindChildren`, `RemoveChildren`, `RemoveSelf` |
| a database error, a crash | `Fails` |

A path is the sequence of its names, as long as these are `Plain`. The service
checks names for nothing but being empty and escapes nothing: `_`, `%` and `\`
act in a `LIKE` pattern, a `/` makes one name look like two, and `String.replace`
interprets `$`. A path with such a name in it is `Odd`, which stands for any
path: `LIKE` with it, or on it, may find any of the folders concerned or not
(`Like`, `Unclear`), and what is rebased from or onto it is odd again
(`Rebased`). Among plain names `LIKE 'p/%'` is exactly `Below`. `names` is the
set of names given in a behaviour, one of `InUse`.

The foreign key by which files refer to their folder is not modelled: it can
only refuse a removal, as `Fails` does. Folders of other tenants never meet
these, since every query asks for the tenant. The history variable `intact` says
that nothing has put paths and links apart: no name that is not plain, no move
whose `newParentId` was left out, and no request cut short between its first and
its last write (`HalfWay`), by a crash or by a path that outgrows its column.
All of these but the last count among the `faults`. A failure before the first
write does no harm and leaves `intact` alone.

### FileVersions (`file-service/src/modules/files`, `sharing`)

`file`, `version` and `share` are the tables, `stored` the object store, and
`op[r]` a request between two awaits. Each version has a content of its own;
`current` and `meta` of a file row name the versions that `currentVersionId` and the
encryption metadata belong to.

| code | actions |
|---|---|
| `createFile` | `CreateFile` (inserts the row), `StoreObject`, `SaveVersion`, `Diff`, `Save` |
| `createNewVersion` | `NewVersion` (loads the row), `FindLast` (the last number), then the same |
| `downloadFile` | `Find`, `Pick` (the version of the row that was loaded), `Diff`, `Save` (to count itself), `Stream` |
| `GET public/:accessKey/download` | `ValidateAccess`, `Count`, `FindShared`, then as above |
| `GET public/:accessKey/preview` | `Preview` (validates as well; only a view is counted), `FindShared`, then as above |
| `updateFile`, `updateFileStatus`, `deleteFile` | `UpdateMetadata` or `ChangeStatus`, `Diff`, `Save` |
| `createShare`, `updateShare`, `deleteShare` | `CreateShare`; `UpdateShare`, `DiffShare`, `SaveShare`; `DeleteShare` |
| an error of a store, a crash | `Fails` |

### TenantAccount (`auth-service/src/modules/auth`)

`user` is the row of one tenant user, `token` the tables of refresh and revoked
tokens, `op[r]` a request between two statements. A password is compared with
the row that was read, so that the comparison is part of the read. `tries`
(wrong passwords compared by logins), `probes` (those compared by
`changePassword`), `recent` and `ended` are history.

| code | actions |
|---|---|
| `LocalStrategy.validate`, `login` (which validates a second time) | `Login`, then `Lock`, `Miss` or `Clear`, `LoginAgain`, `Issue` |
| `RefreshTokenStrategy.validate`, `refreshToken` | `Refresh`, `Retire`, `Issue` |
| `logout` | `Logout`, `Block`, `RevokeAll` |
| `forgotPassword`, `resetPassword`, `changePassword` | `ForgotPassword`; `ResetPassword` or `ChangePassword`, then `Write` and `RevokeAll`; `ChangeRefused` (the current password is wrong: nothing is counted or locked) |
| the end of a lock and of a reset link, an error or a crash | `LockLapses`, `OfferLapses`, `Fails` |

### OfflineSync: Outbox and GatewayBreaker (`frontend/src/lib/offline`, `api-gateway/kong/custom-plugins/circuit-breaker`)

`Outbox` has the object store of IndexedDB and the runs of `processOutbox`:
every mounted hook of every tab starts one when the browser is online, so that
several go over the same items, each with the attempts it loaded.
`GatewayBreaker` has the hash in Redis and the requests inside Kong: the access
phase reads the hash (`Refuse`, `Pass`), the log phase counts on what was read
and writes everything back (`RecordSuccess`, `RecordFailure`, or
`RecordNothing` if Redis cannot be reached). Neither has a next-state relation
of its own: `OfflineSync` joins them with `letter`, the item a connection
carries and the run that waits for it. A send is `SendThrough`, `SendRefused`
(503 of the breaker) or `SendNowhere`; the service answers with `Accept` or
`Reject`, and `Lose` is a response that does not arrive. To the outbox a
refusal, a rejection and a lost response are the same. Where OpenResty does not
let the log phase open a connection to Redis, every log phase is a
`RecordNothing`: the model has those behaviours among others.

## 4. The runs

| run | question | properties | result |
|---|---|---|---|
| `delivery_races` | two channels, a cron run and a request overwrite each other: is the row still truthful, can it be stranded? | `TypeOK`, `FailedIsEarned`, `DeliveredIsReal`, `LogIsSound`, `RoundsAreCaused`, `PendingIsAlive` | holds |
| `delivery_faults` | two crashes or database errors: what is lost, what is repeated? | `DispatchedOnce`, `DormantStaysDormant`, `DueLeavesSchedule` | holds |
| `delivery_sequential` | nothing overlaps: does it do what it promises? | `LogIsComplete`, `ContractSpec` | holds |
| `circuit_breaker` | three callers whose calls end in any state: can the circuit get stuck? | `TypeOK`, `ProbeInFlight`, `ProbeDecides`, `NeverStuck` | holds |
| `consumer_group` | two members, crashes, rebalances, failing handlers and sends, repeated dead letters, no committed offset at first: what gets lost behind the point where the group began to read? | `TypeOK`, `NothingSkipped`, `OutcomePerDelivery`, `ContractSpec` | holds |
| `consumer_unparseable` | does a message that is not JSON reach the dead letter queue? | `UnparseableReachesDlq` | violated, finding 1 |
| `folder_sequential` | one request at a time, perhaps cut short: does the tree survive, do paths and links agree unless it was half-way or a name was not plain? | `TypeOK`, `NoCycle`, `SiblingsDistinct`, `PathsMatchLinks`, `LiveUnderLive`, `RequestsEnd` | holds |
| `folder_purge` | does purging stay within the purged folder? | `PurgeIsLocal` | violated, finding 2 |
| `file_versions` | an upload, downloads, previews, edits and a link race, one step fails: what can a reader meet? | `TypeOK`, `CurrentIsStored`, `DownloadsDecrypt`, `NumbersAreConsecutive`, `OvershootIsBounded`, `DownloadsAreCounted` | holds |
| `file_contents` | does a download get a version of the file it names? | `ServesOwnVersion` | violated, finding 3 |
| `tenant_account` | two requests log in, refresh, log out, change the password, guess it in both ways, one step fails | `TypeOK`, `TriesBounded`, `SessionsEnd`, `OneTokenPerLogin`, `NoReuse` | holds |
| `offline_sync` | two runs over the outbox and the gateway's breaker between them and the service | `TypeOK`, `EarnedOpen`, `NothingLost`, `OutboxEmpties` | holds |

### Findings

1. The parse error branch of `eachMessage` hands the message to `sendToDlq`,
   which parses the value again, throws inside its own `try`, and logs: the
   message is committed and is nowhere.
2. `permanentlyDeleteFolder` finds the children by their path. A deleted folder
   keeps its path while a new one may take over its name: purging the deleted
   folder removes the live children of the new one, without any overlap.
3. `createFile` inserts an active row before it has a version. A download in
   between searches for the version with id `null`, and TypeORM leaves a null
   condition out of the query: it finds any version of the tenant and streams
   it under the new file's name, although the code means to refuse
   (`files.service.ts:534`).

How far each of them reaches is proved. No message that does not parse ever
gets into the dead letter queue, whoever delivers it and how often
(`UnparseableNeverInDlq`). A purge of a folder that was not deleted before
removes live folders only along the links, as long as requests come one at a
time, none is cut short and names are plain (`PurgeOfLiveIsLocal`): among plain
names the second finding needs a deleted folder. A download that had a current
version to go by serves a version of its own file, whatever else goes on
(`OwnVersionServed`): the third one needs a file without.

Where requests overlap in the plain check-then-write way, no run is spent on
it. The properties say what holds all the same, and the hazard says what does
not: two moves, A into B and B into A, both pass `isChildFolder` and are both
saved; two uploads take the same number; two channels lose an entry of
`deliveryAttempts`; a cancel overwrites a delivery.

Nor is a run spent on what follows at sight, although the models have all of it
and the properties make room for it:

- renaming, deleting or purging a folder `a_b` or `a/b` takes the children of
  `axb`, or of `b` in `a`, along, with requests one after the other
  (`PathsMatchLinks`, `LiveUnderLive` and `PurgeOfLiveIsLocal` ask for plain
  names; `NoCycle`, `SiblingsDistinct` and `RequestsEnd` do not);
- a link hands a file out by its preview route as often as anybody asks, without
  counting towards `maxDownloads` (`DownloadsAreCounted` is about downloads);
- whoever has an access token may guess the current password at
  `changePassword` without end (`TriesBounded` bounds the guesses of logins, and
  says that these others need an issued token);
- a group with `fromBeginning` off loses messages at a restart before its first
  commit (`NothingSkipped` and the contract are about what lies behind `base`).

### Bounds

- `delivery_races`: two rounds of sending (`MaxRounds`), two channels, retry
  budget 2: enough for four sends in flight at once, both orders of every
  pair of saves, and a budget used up by lost and by counted failures. One
  request is enough, because a second one only adds another late save of the
  same columns.
- `delivery_faults`: one channel, three rounds, two faults: one fault loses a
  dispatch or an acknowledgement, the second hits the recovery.
- `delivery_sequential` has the most rounds (9, budget 8): nothing overlaps, so
  that long runs are cheap; no behaviour is cut off by `MaxRounds`.
- `MaxRounds` and `MaxFaults` stand in guards only. A deadlock there means that
  every handler is done, which is where the service really stops, hence
  `CHECK_DEADLOCK FALSE`.
- `circuit_breaker`: three callers, threshold 3: two late failures after the
  circuit opened, and a success between failures. A threshold of one caller
  less is reached by sequential calls as well.
- `consumer_group`: three messages with an unparseable one in the middle, one
  retry, two faults: both members may believe they own the partition, each at
  another message. One resend makes two copies of a dead letter. `fromBeginning`
  is off, as by default, so that `base` moves; with it on, which
  `consumer_unparseable` has, `base` stays 0 and there are fewer behaviours. The
  topic is finite and a group may go to sleep behind its end, hence no deadlock
  check.
- `folder_sequential`: three folders make a grandparent, two names a conflict
  and a path taken over from a deleted folder. A behaviour gives two plain names,
  or a plain one and one that is not (`InUse`): a third name would only multiply
  the states. One fault (`MaxFaults`): one such name, one failure, or one move
  without `newParentId`. Ids are never used again, so
  that a behaviour ends when all folders are purged (no deadlock check).
  `MaxPath` is 3, so that only an interrupted request lets a path outgrow its
  column; without that limit of the schema interrupted requests could let
  paths grow for ever. `folder_purge` has the same folders and one plain name.
- `file_versions`: two requests overlap, one of which may upload; three
  versions, so that a stale save can undo an upload and be undone by the next;
  a link with a limit of one, one edit and one failure (`MaxEdits`,
  `MaxFaults`). Version ids are interchangeable (`VersionSymmetry`).
  `file_contents` has two files, so that there is another one to serve.
- `tenant_account`: two requests, of which one may refresh and change the
  password (`Serial`), so that the premise of `OneTokenPerLogin` and `NoReuse`
  holds while the other one logs in and out; two tokens, which makes one
  refresh; two attempts before a lock, a history of two, and four passwords, so
  that a fresh one is left when three are remembered. Logins start while the row
  counts fewer than `MaxCount` failures. `MaxFaults` is 1:
  one failure or one wrong password at `changePassword`, which changes nothing
  else, so that both together would show no more. Passwords other than the first
  and tokens are interchangeable, and no property is temporal.
- `offline_sync`: one item, because items meet only in the order of a run,
  and the proofs of `NothingLost` and `EarnedOpen` are for any number of them;
  two runs and two connections, so that both runs send the item at the same
  time and both phases of two requests interleave; one retry; the breaker opens
  at half of at least two calls, and up to three are counted (`MaxTotal`),
  which is enough to open it, to let it lapse and to decide about it. One
  error of IndexedDB or closed tab. Items are not added again, so that the
  system stops when all have left.

### Fairness

`NotificationDelivery!FairSpec`: an awaited send or query settles, an armed
timer fires, the cron job runs every minute, time passes. No user has to send
a request and no fault has to happen. `CircuitBreaker!FairSpec`: the clock runs
and an awaited call settles (kafkajs has a request timeout); nobody owes the
breaker another call. `KafkaConsumer!FairSpec`: a handler settles, the client
fetches and commits, a stale member notices, the broker reassigns a partition
whose owner has left. `FolderTree!FairSpec`: a query is answered, so that a
request goes on. `OfflineSync!Fairness`: a run goes on, the gateway waits for
a service no longer than its timeout and always reaches the log phase, and
`Start`, an assumption on the environment: as long as something is queued, the
user comes back online and some hook starts a run. Nothing obliges the service
to accept: `OutboxEmpties` holds because attempts run out. `FileVersions` and
`TenantAccount` claim no liveness: their handlers are straight lines of awaits
that end or fail. All of it is weak fairness, per handler, caller, member,
request, run or connection.

## 5. What is proved

Proofs are in `*Proofs` modules, checked by TLAPS for every value of the
constants under the named assumptions `DeliveryAssumption` (natural bounds,
disjoint sets of handlers), `BreakerAssumption` (the threshold is positive and
below `MaxCount`), `ConsumerAssumption` (the group is finite),
`FolderAssumption` (NULL and undefined are no ids, some names are plain, the odd
path is none of plain names), `FileAssumption` and
`AccountAssumption` (Null is no id, the requests are finitely many, limits are
positive), `GatewayAssumption` (the threshold is a percentage) and
`OutboxAssumption` (keys are numbers).

- **NotificationDeliveryProofs.** `DeliveryInv` extends what the row promises to
  every entity a handler still holds (`Honest`), since any of them may be
  written later, and says that a send is counted in `failures` before it can
  arm its timer. From it: `FailedIsEarnedAlways`, `DeliveredIsRealAlways`,
  `LogIsSoundAlways`, `RoundsAreCausedAlways`. `HandlersInv` (which kinds,
  stages and statuses a handler may have) gives `DormantForever`;
  with the count of pending dispatches it gives `DispatchedOnceAlways` for one
  cron run, and with `MaxFaults = 0` `PendingIsAliveAlways`. `SequentialInv`
  says that whoever is active is alone and that its copy is up to date; on it
  rest `LogIsCompleteAlways` and `SequentialImplementsContract`, the step
  simulation of `DeliveryContract` for any retry budget.
- **CircuitBreakerProofs.** `BreakerInv` is inductive as it stands:
  `CountMatchesState` is what makes a late failure in a half-open circuit open
  it again, and hence `ProbeInFlight` inductive; `BreakerTypes` follows from it
  as well.
- **KafkaConsumerProofs.** `ConsumerInv` says of each member that everything up
  to its resolved offset, from `base` on, is accounted for and that it works on
  the next one, and of the group that `base` lies before its first commit;
  from this and the order of delivery follow `NothingSkippedAlways`,
  `CommitsAdvanceAlways` and `GroupImplementsContract`, in which the finished
  messages behind `base` are shown to be one segment that starts there. `BudgetInv`
  bounds three sets for each message: the members that work on it (`Open`), and
  the runs of its handler that their deliveries have spent (`Spent`) and have
  left (`Left`); `CopiesInv` adds the resends that a send still has. Their
  cardinalities give `OutcomePerDeliveryAlways`. Since a
  member that sends is `Working`, on a message that was parsed, `ConsumerInv`
  also gives `UnparseableNeverInDlq`.
- **FolderTreeProofs.** `TypeInv` holds for any number of overlapping requests.
  `NoCycleAlways` assumes that there is one request at a time, and allows any
  failures. Its invariant `ForestInv` says that rows refer to existing rows, and
  of a move on its way that some set of folders contains everything
  `isChildFolder` has passed, is left by links only at the root or at the
  folder looked at next, and does not contain the moved folder. When the move
  is saved, a new cycle would have to run through this set without leaving it,
  so that it would have been one before. Two moves that overlap, A into B and
  B into A, show that the assumption is needed. `SiblingsDistinctAlways`, under
  the same assumption, rests on `SiblingInv`: from the check for duplicates
  until the row is written, the name is free in the place (`Free`, `Place`)
  where the write will put it, which for a move without `newParentId` is not
  the place the check looked at, and the columns `save` leaves out are those in
  which the row agrees with the entity.
- **FolderPathsProofs.** `PathsMatchLinksAlways` and `LiveUnderLiveAlways`, again
  for one request at a time and while `intact`. `PlainInv` says that then all names
  and paths, in the table and in the request, are plain, so that by `BelowPlain`
  `LIKE` finds exactly what is below (`JoinedPlain` and `RebasedPlain` are about
  the two ways in which paths are made). While a request is on its way,
  paths and links do differ, so that `TreeInv` says of each kind and stage what
  the tree is (`Matched`) or what it will have become: `Completable` computes
  from the rows still to be rewritten (`Awaiting`) the path that every folder
  will have in the end, and says that those match the links; each `Rewrite`
  leaves them as they are. `Deletable` says what a half-done delete has left.
  Three lemmas carry the argument. `DistinctPaths`: two live folders do not
  share a path. `BelowByLinks`: what is below a folder's path is below it by the
  links, one step at a time. `AdmittedNotBelow`: a parent that `isChildFolder`
  admits, which goes by the links, is not below by the path either. None of them
  needs induction on the depth of the tree: the folders for which it fails would
  be a set that the links never leave, which `NoCycle` excludes.
  `PurgeOfLiveIsLocal` adds what a purge knows (`PurgeInv`): the path of its
  folder, and then all that is below it; while the folder is live, `BelowByLinks`
  says that this is what the links put there. For a deleted folder there is no
  such lemma, and `folder_purge` shows why.
- **FileVersionsProofs.** `TypeInv` adds the shape of every request to the
  types. `StoreInv` says of rows and of every loaded entity that its version
  exists, belongs to the file and is stored, and of an upload that its own
  version is nobody else's yet; `DecryptInv` that current and metadata are
  `Together` in all of them, and `OwnVersionServed` needs `StoreInv` only; `NumberInv` that the versions of a file are
  numbered 1..n and that the one upload on its way knows n (`Serial`,
  `Orderly`). `CountInv` counts requests by what they still owe the link
  (`Pending` and `Serving`), which gives both `OvershootAlways`
  and `DownloadsAreCountedAlways` from cardinalities of finite sets; a preview is
  in neither set.
- **TenantAccountProofs.** `TriesInv` relates the guesses to the counter of the
  row and to the requests that have compared and not yet counted (`Missing`),
  which gives the bound on logins (`LoginTries`); `ProbeInv` says that a guess at
  `changePassword`, which nothing bounds, came with an issued token;
  `SessionInv` says that a token of an ended login is valid for nobody but
  refreshes on their way; `OneInv` that the tokens of a login and a refresh
  of it are at most one; `ReuseInv` that history and password are the last
  entries of the window `recent`, whose entries differ.
- **OfflineSyncProofs.** `OutboxInv` says that no copy of an item, in the store
  or in a run, claims more attempts than were made (`StoreInv`, `RunInv`), and
  that who is about to delete an item has a reason (`DeleteInv`). `GatewayInv`
  says that what a request has seen is earned as the hash is
  (`CheckedInv`): errors only grow, and counting a further failure keeps a rate
  above the threshold there (`RateGrows`), so that a late write is harmless to
  `EarnedOpen`.

Model-checked only: all liveness (`DueLeavesSchedule`, `NeverStuck`,
`RequestsEnd`, `OutboxEmpties`, and the fairness part of both contracts), which
needs ENABLED. Every invariant and every action property of a run is proved.

## 6. What is left out

- Wording, templates, rendering, logging, timestamps other than whether they
  are set, and the numbers of milliseconds of backoffs.
- The daily archiving job of the scheduler: it only marks metadata.
- The Kafka producer (`produce` is a call through the circuit breaker and
  keeps no state of its own), administration functions and the event schema.
- Of files: tags, presigned URLs, listings, and of links permissions, passwords,
  expiry dates and view counts (`getPublicShare` and `validateShare` compare, and
  at most count a view). Of accounts: system users, registration, OAuth, the expiry of tokens,
  multi-factor authentication. Of the web client: the cache of responses and
  the other stores. Of the gateway's breaker: `successes`, `window_size` and
  `health_check_interval`, which nothing reads.
- Not modelled: the components marked `not_modelled` in `PROJECT.json`, with the
  reason. They are most of the repository by lines: pages and components of the
  web client, controllers, entities and data transfer objects, and services
  whose operations are a read or a write of one row, about which there is
  nothing for a model to say. The billing scheduler refers to columns and methods
  that its entities and services lack, so that its behaviour is not determined
  by the source.

## 7. Running it

    tlc -config delivery_races.cfg NotificationMC
    tlapm NotificationDeliveryProofs.tla
    tlapm FolderPathsProofs.tla

Each configuration names its run; `PROJECT.json` gives the module. For every
property there is a mutated definition next to the original one (`...Forever`,
`...Misspelt`, `FailedCopyOneEarly` and so on): with it in place of the
original, the property must fail.
