# A verification development of isales-api

`isales-api` is a FastAPI process (one uvicorn worker) between a web console, PostgreSQL, Redis,
a call engine and a scheduler. This directory holds TLA+ modules of the parts where its logic can
go wrong, TLC configurations that check them on small instances, and TLAPS proofs.

    tlc -config <run>.cfg <module>      # module: see the tables below
    tlapm <module>_proofs.tla           # proofs: see section 4

Source paths are relative to `src/isales_api/`.

## 1. Inventory

| Component | Source | State it keeps | Operations | What is hard |
|---|---|---|---|---|
| Call event fan-out | `routers/ws.py`, `ws/manager.py`, `ws/redis_subscriber.py` | per campaign: connections, subscriber task, shutdown timer; one lock | connect, disconnect, delayed stop, fan_out, subscribe/listen, shutdown | many coroutines, a timer racing reconnects, Redis failures, tasks that end by themselves |
| Lifespan, sessions | `main.py`, `common/db.py`, `common/redis.py` | engine, session maker, Redis client | start, shutdown; commit or rollback per request | shutdown against running tasks; one transaction per request |
| Routing configuration | `routers/campaigns.py`, `routers/role_configs.py`, `routing_validation.py` | role rows, rules, tools of a campaign | POST/PATCH campaign, PUT rules, POST/PATCH/DELETE role | cross-row consistency checked by reads in concurrent transactions |
| Prompt versions | `routers/prompt_versions.py` | versions, `is_active` per scope | create, update, delete | at most one active; row locks in crossing order |
| Leads import | `routers/leads.py` | rows of a file in one transaction | POST /leads/import | batches, bad rows, failure in the middle |
| Leads, holidays, campaign columns | `routers/leads.py`, `routers/holidays.py`, `routers/campaigns.py` | rows | POST, PATCH, DELETE of one row | load, flush, refresh and commit against other writers of the row |
| Paginated lists | the six list endpoints in `routers/` | none | COUNT and a page by OFFSET | rows that come and go between two statements and two pages; ties in the order |
| Campaign control | `routers/campaigns.py` | Redis list and set, campaign row | start, pause, delete, progress | order, lost answers, deletion meanwhile |
| Provider credentials | `routers/provider_credentials.py` | one row per provider and field | upsert, delete | commit then re-read, delete against re-creation |
| TTS preview | `routers/campaigns.py` | provider, pooled connection | POST tts-preview | failures in a stream; the pool |
| Analytics | `routers/analytics.py` | none | three aggregates | boundaries |
| Edge devices | `routers/edge_devices.py` | none | status | boundary of the threshold |
| Campaign devices, validation | `routers/campaigns.py` | binding rows | one INSERT or DELETE per request | constraints live in isales-common |
| Edge tokens, auth | `edge_token.py`, `auth/` | none | mint, verify | libraries |
| Seed script | `../scripts/seed_pipeline_stream_campaign.py` | the routing rows of a campaign | replace roles, prompt versions and rules | runs beside requests; locks in another order |
| Helpers, deployment | `../scripts`, `../deploy` | none | a generator of test events, a systemd unit | - |

How they interact: the lifespan builds the manager and calls its `shutdown()`; the engine publishes
on Redis channels which the subscriber tasks read; start and pause are pushed to a Redis list that
the scheduler pops, and progress reads the scheduler's set; everything else meets in PostgreSQL,
each request in a session that `get_session` commits or rolls back after the handler.

What makes each part correct is stated as properties in its module; the hazards they are aimed at
are in `PROJECT.json`, each at its line.

## 2. Modules and code

### ConnectionManager (with EventFeed)

One variable per dictionary of the manager (`connections`, `tasks`, `shutdownHandles`), the lock as
the queue of those who asked for it, and one program counter per coroutine: `handler` for
`ws_calls`, `stopper` for a timer and the `_maybe_stop_subscriber` task it spawns, `sub` for a
subscriber task. A socket connects once (a browser that reconnects is another socket), so its name
also stands for the subscriber its connect starts and for the timer its disconnect arms.

An action is what a coroutine does between two awaits that can yield. `connect` is `Accept` (ask for
the lock), then `Join`, or `StartSubscriber` (SUBSCRIBE under way, lock held) and `Subscribed` or
`SubscribeFails`. `disconnect` is `Leave` and `Disconnect`. `_maybe_stop_subscriber` is
`StopperStarts` and `KeepSubscriber` or `StopSubscriber`; the stopper's `await task` has no effect of
its own. `fan_out` is `Receive` (snapshot) and one `Deliver` per `send_text`, in any order, since the
snapshot comes from a set. `_run`'s `except` is `SubscriberFails`: a lost connection has ended the
subscription, an error of `decode()` has not. Its `finally` is `SubscriberEnds`, or `CleanupSkipped` when
`unsubscribe` raises (which is swallowed, with `close` left out) or when a stop cancels a task that is
still cleaning up after an error, for no clause there catches `CancelledError` (`"cut"`); the channel may
then stay with Redis. `Shutdown` is the manager's `shutdown()`, which uvicorn's lifespan runs once all
handlers have returned; it takes no lock.

- `asyncio.Lock` is FIFO. A waiter at the head holds the lock: a free lock is taken at once.
- A fired timer is in stage `"spawned"` until its task runs for the first time. A disconnect in
  between may find the campaign's handle still there; it then arms no timer and relies on the
  spawned stopper, which stops the subscriber earlier than five seconds, and never leaves it running.
- `call_later` has no clock here: a timer may fire at any time after it was armed.
- Redis registers a SUBSCRIBE some time after the client sent it (`Register`). `owed` records the
  events published from then on, per connected socket; nothing promises those published before.
- `Faults` chooses which failures happen: in the factory (`"subscribe"`), in `listen()`/`decode()`
  (`"listen"`) or in the `unsubscribe` of the finally clause (`"unsubscribe"`). A stop that
  cuts the finally clause of a failed task needs no fault of its own.

`EventFeed` is the abstract specification: each client receives consecutive events, in order, none
twice. `ConnectionManager` implements it with `published` and `recv` mapped to themselves
(`Feed == INSTANCE EventFeed`).

### RoutingConfig

The roles, rules and tools of one campaign. A request is one transaction at READ COMMITTED
(PostgreSQL, `../README.md` and the CI workflow): the statements of the handlers are steps
(`Begin...` the `session.get`, `Check...` the second read and the validation, `UpdateCampaign`,
`FindChildren`, `LockChildren` the writes, `Commit`), each reading what is committed then. The seed
script (`../scripts/seed_pipeline_stream_campaign.py`) is one more operation, `"seed"`: it checks
nothing and locks the roles before the campaign's row, where a PATCH does it the other way round, so
that PostgreSQL may have to end one of the two (`DeadlockVictim`). SQLAlchemy
facts the model takes into account: the identity map (`saw` holds what the session has loaded and
does not change), an UPDATE only of the columns that differ from it, and autoflush (the UPDATE of a
role goes out before its label is counted). UPDATE and DELETE wait for a row another transaction has
locked; a DELETE that has waited skips rows deleted meanwhile and does not see inserted ones.
`Creations` are payloads of POST /campaigns, which `Init` validates as `create_campaign` does.
`PayloadsAssumption` says which fields the schemas give each request, `SeedAssumption` that the
constants of the seed script, which nothing validates when it runs, are valid (`_SLOTS` has one row
per label, and `ROUTING_RULES` names those labels and no tool).

### PromptVersions

Versions of several scopes and the requests that create, activate, deactivate, edit and delete them,
statement by statement, with row locks and PostgreSQL's deadlock detector (`DeadlockVictim`, cycles
of two and three requests). An edit of an active version deactivates its siblings again, as the code
does; the refresh that ends a request raises if the row is gone and rolls everything back.

### LeadsImport

One import from the header on: rows are parsed, reported, or end the request; full batches and the
last one are flushed; the one commit is `get_session`'s, which `import_leads`' docstring does not
say (`import_batches`, section 3). Files without the required columns are
refused before anything happens and are left out. `RowKinds` says what each of the four
kinds of a row stands for.

### Records (with Table)

POST, PATCH and DELETE of one row of leads, holidays and campaigns, statement by statement: `Load` the
`session.get`, `Create` and `Patch` the flush (which waits for the row), `Reread` the refresh that
makes the answer, `Delete` the flush of the commit, `Commit`, and the two ends without effect:
`Refuse` (422, or a constraint) and `Rollback`. An UPDATE writes the columns that the PATCH changed
from what its session had loaded (`Changed`), on top of the row as it is committed by then
(`NewRow`), and finds no row if it was deleted (`GoneWhenFlushed`, which raises). The answer to a
campaign PATCH is the object of the session, that of a lead or holiday is re-read (`Answered`).

`Table` is the abstract specification: rows are inserted whole and deleted whole, a PATCH writes each
column it names at most once and nothing else, and what was deleted stays deleted. `Records` implements
it with `Effective`, the columns of each request that have taken effect: those that need no UPDATE when
the row is loaded, the others at the commit.

### Pages

One list endpoint, by what it orders by, whether its rows are deleted and whether its filter can
change; one client that walks over the pages until one is short (`Count` and `Rows` are two
statements); and writers between any two statements (`Insert` takes the next id, `Enter` is its commit
or a change of the filtered column, `Leave` a deletion or such a change, `Move` a PATCH of a holiday's
date, the one ORDER BY column that a request can change), so that ids may commit out of order and
holidays change places. OFFSET pages cannot be exact next to every writer: `WalkIsExact` says which
changes do no harm, per row skipped and per row seen twice. The histories `entered` and `left` count a
moved holiday as one that leaves its place and enters another; `tied` is about `/holidays`, whose
regions share dates: from the moment two stored rows have one date, their order is PostgreSQL's choice.

### CampaignControl (with CommandLog)

The handlers' existence check, the LPUSH (or its failure, with the command in the list or not, or that
of `get_redis()`, which leaves `app.state.redis` unset), the delete and the progress read. The scheduler is external: it pops the right end, as
`tests/test_campaign_start_pause.py` does, and updates its set. `CommandLog` is the abstract
specification, a log that accepted commands enter once, at the end, and that the scheduler goes through
from its beginning; the list implements it with `Order == handled \o Reverse(queue)`.

### ProviderCredentials

`INSERT ... ON CONFLICT DO UPDATE`, COMMIT and refresh as three steps; load, DELETE and COMMIT of a
delete. A key that a transaction has written is locked until it ends. A value, with the `updated_by`
that the same statement writes, is named by its request. The module has no ASSUME, since
`MCEndpoints` instantiates it under other names: what its constants have to be is the operator
`ConstantsOK`, which is a hypothesis of its theorems and an assumption of `MCEndpoints`.

### TtsPreview, Analytics, EdgeDevices

`TtsPreview`: previews and short queries share the pool; a preview keeps its connection and provider
through the stream. `BuildFails` is everything that raises before the `try` (400 for a missing
credential, 500 for anything else of `from_db` or `build_volcengine_tts`); `aclose` may raise as well
(`CloseRaises`), which replaces the answer. `Analytics`: call records grow as the engine writes them, the endpoints are
operators on them, evaluated in every reachable state. `EdgeDevices`: heartbeats and the clock
against the status snapshot.

MC modules (`MCConnectionManager`, `MCRoutingConfig`, `MCPromptVersions`) define the instances;
`Records` is checked as it is in `patch_race`, and `LeadsImport` in `import_batches`. `MCEndpoints` puts
eight groups of endpoints, `LeadsImport`, `TtsPreview`, `Analytics`, `EdgeDevices`, `CampaignControl`, `Pages`,
`ProviderCredentials` and `Records`, into one instance: what is modelled of them shares no state, `endpoint` says which one
moves, so a behaviour of it is a behaviour of one of them, and its properties are theirs. The control,
list, credential and write groups have many initial states; while another group moves they start in one
(`OneCommand`, `OneList`, `OneKey`, `OneWrite`; the import's file is then empty). `MCEndpoints` extends `Records` and
instantiates the others, so that its `KeepsTable` is the one that is proved. Operators marked "Mutant" in a module
are variants of the next definition with a plausible bug; they are used by nothing, and each property
was seen to fail when its variant replaces the original.

## 3. Runs

| Run | Module | Bounds | Shows |
|---|---|---|---|
| `ws_core` | MCConnectionManager | 3 sockets of one campaign, 1 without token, 2 events, `unsubscribe` fails | life cycle of the subscriber: starts, always has its stop on the way when idle, no stale handle, no lost event |
| `ws_faults` | MCConnectionManager | 2 + 1 sockets of two campaigns, SUBSCRIBE and listen fail, no events | one subscriber per campaign, open sockets keep theirs, none survives shutdown; connects and disconnects return, idle subscribers stop, channels are given back |
| `ws_delivery` | MCConnectionManager | 2 sockets, SUBSCRIBE and listen fail, 3 events | refinement of EventFeed; what is owed is delivered |
| `routing_serial` | MCRoutingConfig | 3 requests in sequence, the seed among them | rules resolve, labels are unique, roles in use stay, children are overwritten |
| `routing_locks` | MCRoutingConfig | 2 concurrent requests, role PATCHes and the seed included | row locks exclude, every request ends |
| `prompt_active` | MCPromptVersions | 3 concurrent requests, 1 creator, 2 stored versions of one scope, one more of it and one of another scope to create | at most one active, other scopes untouched, no version comes back, every request ends |
| `endpoints` | MCEndpoints | files of up to 5 rows in batches of 2; 2 previews, 2 queries, 2 connections; 2 calls, 5 durations, 3 instants, a default window of 1; 2 devices, threshold 1; 3 commands or deletes or progress reads, 2 campaigns; 4 ids, pages of 2, 2 changes of the list, holidays moved to the first or behind the last day; 4 upserts or deletes of 2 keys, one allowed; 1 stored row, 2 writers, 2 columns of 2 values (1.47 million states in all) | rows accounted for; nothing leaks, audio is whole; windows add up, aggregates agree; status is silence; the command list implements CommandLog; a walk over pages is exact; credentials are typed, a 201 shows what is stored, deletes hit their row; single-row writes implement Table, answers were stored |

Why the bounds are enough to see the interesting cases. Fan-out: a stop that races a reconnect needs
a socket that leaves and one that comes; a second timer needs two that leave; the shared lock needs a
second campaign; three sockets have all of it. A reordering or a duplicate needs two or three events.
Routing and prompts: the races that exist need two transactions, a deadlock cycle two, and a third
request observes or disturbs. Import: five rows are two full batches and a partial one. Durations are
the lower ends of the buckets. Pages: four ids are two full pages or one with a row entering ahead, and two
changes are one on either side of a page, or a holiday moved there and back. Credentials: a row that one
request loads, a second deletes and a third creates again takes three, the fourth upserts next to them. Commands: three requests are a start, a pause and either a
failed push, a deletion or a progress read. Single rows: a second writer of the same row, or of one it
creates, is all the code's statements can meet at a time, and of two columns one is named and one is not.
Bounds are constants (`MaxEvents`, `MaxActive`, `MaxRows`, `MaxCalls`, `MaxClock`, `MaxId`, `MaxChanges`)
in the guards of the actions that count.

Three refinements are checked: `ws_delivery` that of `EventFeed` (`FeedSpec`), `endpoints` those of
`CommandLog` (`CommandsAreLogged`) and `Table` (`KeepsTable`).

Deadlock checking is off: sockets and requests are used once and the server may stop, so every
behaviour ends.

### Fairness

`ConnectionManager!Fairness` is weak fairness of what the system itself does: the event loop runs a
coroutine that can go on, timers fire, Redis answers or fails, a send ends (uvicorn's WebSocket pings
close a peer that does not answer). Clients need not connect or leave, the engine need not publish,
nothing need fail. A Redis that neither answers nor fails is outside: it blocks the manager's lock,
see the hazards. In `RoutingConfig` and `PromptVersions` a request that has begun goes on unless it
waits for a lock, and PostgreSQL ends one of those that wait for each other.

### Disagreements found

A violation run checks one sentence of the repository against the code, and TLC shows a
counterexample.

| Run | Sentence | What happens |
|---|---|---|
| `ws_leak` | manager.py:4-6, the subscriber "stops shortly after the last disconnect" | SUBSCRIBE raises in `connect`, which `ws_calls` calls before its `try`: the socket stays in `_connections` and the campaign never becomes idle |
| `routing_race` | role_configs.py:7-8, deleting a referenced referee is rejected | PUT rules and DELETE role read each other's rows before either commits |
| `prompt_race` | prompt_versions.py:6-8, at most one active | two concurrent active creations |
| `import_batches` | leads.py:101, "commit every BATCH_SIZE rows" | `_flush` sends a batch and leaves it to the one commit of `get_session`: a later row that ends the import (a row without `campaign_id`, `int(None)`) takes the full batch before it along |
| `patch_race` | schemas.py:87, "Replace-style PATCH: any field set replaces" | two PATCHes of one campaign set the same two fields, each changing only one of them from what it loaded: the row keeps one field of each (campaigns.py:330) |

More of them have no run of their own. Those that one change to a configuration shows:

| Change | Sentence | What happens |
|---|---|---|
| `ws_leak` with `Faults = {"listen"}` and the property `FirstConnectIsServed` | manager.py:4, "starts on first connect" | a subscriber that ended on an error stays in `_tasks`; the next first socket gets none |
| `routing_serial` with `Bodies <- LockBodies` | routing_validation.py:7-9, every rule references existing labels | PATCH of a role changes label or kind in use |
| `routing_serial` with `MaxActive = 2`, property `ChildrenOverwritten` only | schemas.py:87-88, children "fully overwrite" | two overlapping PATCHes leave the union |

One more is no disagreement, since nothing in the repository promises it, but a limit of a property:
without `tied` TLC refutes `WalkIsExact` for `/holidays` (holidays.py:27), whose ORDER BY leaves
holidays of one day in any order.

And two that reading the code shows, the models having the behaviour: `create_role_config` accepts a
second main role (role_configs.py:4 says "exactly one"); a row shorter than the header raises `TypeError`,
which ends the import instead of being reported (leads.py:101 says "report per-row errors").

The races assume what this repository shows of the database: no
isolation level is set and no row is locked for reading. Constraints declared in isales-common
could turn some of them into errors (not `prompt_race`: the code stores the new active row before it
deactivates the old one, which no unique index would let pass); `LabelsUnique` is therefore only checked for requests in
sequence and no claim is made about its race.

## 4. Proofs

Every safety property that a run checks, every action property and every refinement is also a theorem,
for every value of the constants that the named ASSUMEs admit. Some have a hypothesis of their own, which
is in the theorem's statement and below.

| Module | Theorems | Of |
|---|---|---|
| `ConnectionManager_proofs` | `TypeCorrect`, `NoOrphanSubscriber`, `OpenSocketIsServed`, `HandleNeverStale`, `NoSubscriberAfterShutdown` | life cycle of the subscribers |
| `ConnectionManager_feed_proofs` | `OwedIsNotLost`, `IdleSubscriberIsStopping`, `FirstConnectFindsSubscriber`, `ManagerImplementsFeed` | what the clients see |
| `RoutingConfig_proofs` | `TypeCorrect`, `SerialInvariance`, `RulesAlwaysResolve`, `LabelsStayUnique`, `RolesInUseStay`, `ListsOverwrite`, `RulesResolveUnderAdds`, `RolesMayComeAndGo` | roles, rules and tools |
| `PromptVersions_proofs` | `Invariance`, `WritesStayInScope`, `NoActivationByAccident`, `OneActivePerScope` | versions and their locks |
| `Records_proofs` | `Invariance`, `TableIsKept`, `AnswerIsARow` | single-row writes |
| `ProviderCredentials_proofs` | `TypeCorrect`, `AnswerIsCurrent`, `DeleteHitsItsRow` | credentials |
| `CampaignControl_proofs` | `Invariance`, `CommandsAreAlwaysLogged` | the command list |
| `MCEndpoints_proofs` | `EveryRowIsAccounted`, `NothingEverLeaks`, `WavIsAlwaysWhole`, `CommandsAlwaysLogged`, `StatusIsTrue`, `TotalsMatch`, `WalksAreExact`, `WindowsAlwaysAdd`, `AggregatesAlwaysAgree`, `CredentialsAlwaysTyped`, `CreatedIsAlwaysStored`, `DeletesOnlyItsRow` | the other endpoints |

A step lemma of each invariant (`InvStep`, `FeedStep`, `SerialStep`, `BasicsStep` and so on) has one step per
action. Each inductive invariant was checked by TLC on an instance before it was proved.

### Fan-out

`ConnectionManager_proofs`: for every set of sockets and campaigns, every choice of faults and
every number of events. Assumptions: `CampaignOf` maps sockets to campaigns, `Authorised` is a set of
sockets, `MaxEvents` a number, `None` is not a socket.

Apart from the type, none of these is inductive. That an open socket keeps its subscriber needs that only
an idle campaign's task is popped and that the task named by `_tasks` was not cancelled (`TaskIsOwn`,
`OpenIsConnected`); that there is one subscriber needs that a `connect` which awaits the factory
holds the lock and that its campaign has no task all the while (`StartingAlone`, `SubscriberStage`);
a stopper's handle must be one of its own campaign (`HandleIsOwn`); shutdown is final because all
handlers have returned (`StoppedIsQuiet`) and nothing else starts a subscriber.

`ConnectionManager_feed_proofs` builds on that invariant. A client's events are consecutive because a
snapshot of `fan_out` holds only sockets that are still connected or whose peer has left
(`TargetsAreOwn`), and a peer that has received anything has received all its subscriber has read but what
the snapshot has yet to send (`InStep`): the subscriber cannot be replaced under it, since an open socket's
task is not popped. `OwedIsNotLost` needs in addition that whoever is owed an event has a registered
subscriber (`OwedIsOpen`). A step of the manager is then a publication, a `Send` or a stutter of
`EventFeed`.

`IdleSubscriberIsStopping` is proved where SUBSCRIBE does not fail: then no socket is left in
`_connections` without a handler (`FaultsAreRedis`, `ConnectedIsOwn`), and a campaign without connections
has a timer or stopper on its way (`IdleHasStopper`). `ws_leak` shows that the hypothesis is needed.
`FirstConnectFindsSubscriber` is proved where `listen()` does not raise, for the reason in the table of
disagreements.

### Routing

`TypeCorrect` holds of any number of open transactions: row ids are never used twice, and no row is locked
by two. What the handlers check holds at the commit only if nothing else commits in between, so the other
properties are proved for `MaxActive = 1`, and without PATCHes of roles, which never look at the
rules (`NoRenames`); `routing_race`, and `routing_serial` with `LockBodies`, show that both are needed.
`SerialInv` says what is known of the one open transaction: what it has read is still stored, what it
has checked holds of what it is about to store (`Fresh`), and it is about to delete exactly the rows it
replaces (`Aims`); `RowsOfList` and `RowsCount` count the rows of a list.

Two theorems say where any number of open transactions do no harm. `RulesResolveUnderAdds`: PUTs of the
rules, POSTs of roles and PATCHes of a campaign without lists of roles or tools. What a PUT or PATCH has
checked survives, since roles are only added (`RulesResolveMonotonic`). `RolesMayComeAndGo`: POSTs and
DELETEs of roles. The rules a DELETE has looked at do not change, and the row it deletes is still the one it
has loaded, since ids are not given twice (`Condemned`). So the race of `routing_race` needs both: one that stores
rules and one that takes away what they name. Their invariants, `AddsInv` and `RolesInv`, hold under TLC
of three concurrent requests.

### Prompt versions

Any number of concurrent requests on any versions and scopes. `Basics` says that a row a request has
written is locked by it until it ends (`WrittenIsLocked`, `LockedIsStored`) and that requests write "active"
only to their own version, and nothing outside its scope (`WritesInScope`). `WritesStayInScope` and
`NoActivationByAccident` follow.

`OneActivePerScope` is proved for at most one POST next to any PATCHes and DELETEs; `prompt_race` shows
that two POSTs break it. `SiblingsCovered` is the reason: a request that activates its version has written
or is about to write "inactive" to every other version that was stored at first, and to every active one. Of
two requests that activate, each then has to write the other's row, which is locked, unless the
other's row was not yet stored when it looked; that takes two versions with a POST (`HasOrigin`).

### Single rows, credentials, commands

`TableIsKept`: for any rows, requests, columns and values, `Spec => KeepsTable`,
the refinement of `Table`. An UPDATE is computed at the flush and stored at the commit, so the invariant
must say that nothing changes the row in between: only one open request has written a row (`OneWriter`),
the session of a request that goes on has loaded it (`LoadedFirst`), and what a flushed request is about
to commit is the committed row with its changed columns, or it has none and holds nothing (`Flushed`,
`Pending`). `LoadKept` and `CommitKept` are the two steps that map to steps of `Table`; all others
stutter. `AnswerIsARow` adds that a request has noted every row committed since it loaded its own
(`HasSeen`), so that an answer that was not its own write is one of those (`AnswerReady`). No assumption on
the constants is needed.

The credentials' invariant says that a pending write belongs to the holder of its key, that an upsert writes
its own value, and that a pending delete's row is still the one it loaded. `AnswerIsCurrent`
needs that the history of a key ends with the stored value (`LastIsStored`) and only grows (`LogGrows`).
The hypothesis `ConstantsOK`: the allowed keys are keys, `None` is no request and no row, `Unwritten` is
not `None`.

`CommandsAreAlwaysLogged`: `Spec => CommandsAreLogged`, the refinement of
`CommandLog`, for any campaigns and requests. The invariant is that a command in the list or handled is
one of a request that was answered (`Answered`), hence a request that still has to push has none there.
The rest is about sequences: a push on the left appends to `handled \o Reverse(queue)` (`PushAppends`), a
pop on the right moves a command across and leaves that order as it is (`PopKeepsOrder`). Again no
assumption.

### The other endpoints

`MCEndpoints_proofs` is about the specification of the run `endpoints`, with files of any length, pools,
pages, lists and windows of any size. `RunsAlone` and `EdgeRuns` show that a behaviour of it is one of each
group, so that the groups are proved one by one; `CommandsAlwaysLogged` and the three theorems about
credentials (`StoringRuns`) carry the results of `CampaignControl_proofs` and `ProviderCredentials_proofs`
over, by instantiating those modules. Assumptions: the bounds and times are numbers,
`Null` and `Never` are not, the devices are finite and a page has a row.

- Import: every row read is inserted, in the batch or reported, never two of them (`Accounted`). That the
  counts of the answer add up needs that the ascending lists of row numbers have as many entries as rows
  (`AscendingLength`).
- Preview: a connection and a provider are held only at the steps that give them back, and whatever the
  stream raises is the result (`PreviewInv`).
- Status: `last_seen_at` is the latest heartbeat (`EdgeInv`).
- Total: while nothing has moved, COUNT is the number of rows the second statement selects (`TotalInv`).
- Walk: until a row enters, the rows up to the last one shown are at most those the next OFFSET skips
  (`NoneAgain`), so none is shown twice; until one leaves, each row not yet shown has at least that many
  before it (`NoneMissed`), so none is skipped. A holiday that is moved counts as leaving, and as entering
  unless it goes behind all rows shown: until then no move adds a row to those (`MoveStep`, `FewerShown`). `Positions` and `OneOrder` say that the ORDER BY gives
  each row one place, which needs that no two tie.
- Analytics: the call records only grow, each of them a call that can be (`CallsInv`); adjacent windows
  split a window (`WindowsSplit`), so their calls, their answered calls and the durations of each bucket add
  up (`DisjointSum`), and every duration is in one bucket (`OneBucket`). The sum over the five
  buckets is written out in `Analytics`: what a fold computes takes an induction that the provers cannot do.

### Only model-checked

`NoHandlerStuck`, `IdleIsStopped`, `Unsubscribed`, `OwedIsDelivered` and the two `RequestsEnd`: they hold under
fairness, and TLAPS does neither liveness nor ENABLED here. `FieldSetReplaces` and `CommitsEachBatch` are violated.

## 5. Not modelled

- The bindings of devices to campaigns: one INSERT or DELETE each; what constrains them is in
  isales-common.
- `callback_configs` (replaced like the roles), `interruption_rules` and the deletion of the campaign
  in `RoutingConfig`, and the prompt versions the seed writes; lead counts in the progress answer.
- The moment at which FastAPI runs `get_session`'s commit relative to sending the answer: it depends
  on the FastAPI version (`pyproject.toml` gives a lower bound only). No property relates an answer
  to a commit that follows the handler: `AnswerWasStored` counts the request's own commit as part of it,
  wherever it falls.
- A Redis client that reconnects within `listen()` without raising: events published in between would be
  missing from the feed, which `EventFeed` excludes. Whether it does depends on the version of redis-py
  and on the retry that isales-common's `get_redis` sets; the model takes a lost connection to raise.
- How far `is_active` of the progress answer lags behind accepted commands: the model reports what the
  scheduler's set holds, and no text says how old that may be. What `aclose` frees when it raises: the
  model counts the provider as given back.
- Message contents, tokens, encryption, WAV and JSON formats, logging.
- Authentication and edge tokens: stateless calls of libraries (JWT, bcrypt). The generator of test
  events and the systemd unit.

## 6. Plan

Done, in this order: fan-out with the abstract feed and the first proofs, routing, prompts, import,
control, credentials, preview, analytics, edge status; then single-row writes and pages, the seed
script, the command log; then the proofs of every safety property and refinement.

Next, modelling:
1. `RoutingConfig`: deletion of the campaign and callback configs as a second child table; then
   composition with `CampaignControl` (a campaign deleted while it is edited and started).
2. The prompt versions of the seed, in a composition of `RoutingConfig` and `PromptVersions`.
3. An abstract credential store with a refinement.
4. The ttl parser of `mint_edge_token` as a function against a reference.

Next, proofs: `LabelsUnique` of concurrent requests whose labels are disjoint, the one case the
`COUNT` of role_configs.py:56 can promise anything about.
