# Verification of the multi-tenant task-management service

TLA+ models of the service in `src/` (NestJS API, BullMQ worker, PostgreSQL, Redis), their
TLC instances and their TLAPS proofs. Paths below are relative to the repository's root; code
under `src/modules/...` of the repository is written `modules/...`.

## 1. Inventory

| part | state it keeps | operations | talks to |
|---|---|---|---|
| event outbox: `modules/event/event.service.ts` | `event` row (`pending`, `processing`, `completed`, `failed`), `event_failure_logs` rows | `createTaskProcessingEvent` (insert, then push), `getEventFailureLogs` | called by the two command handlers below; pushes to both queues |
| create-task request: `modules/task/command/create-task.command.ts` | none; draws the `taskId` | `execute`: calls the outbox without `await`, answers at once | event outbox |
| task worker: `modules/task/task.processor.ts` | the jobs of `task-processing-queue` | `process`: mark row, insert task, enqueue success mail, mark row; `onFailed`: log, mark row, enqueue failure mail | database, mail queue |
| mail worker: `modules/mail/mail.processor.ts` | the jobs of `mail-processing-queue` | `process`: mark row, send, mark row; `onFailed`: log, mark row | database, SMTP |
| task workflow: `modules/task/state-machine/task.state-machine.ts` | none (a table) | `getTaskTransition` | task action request |
| task action request: `modules/task/command/task-action.command.ts` | the `task` row | load, decide, flush, notify | database, event outbox |
| tenant registry: `modules/tenant/command/*`, `script/seed-database.ts`, `script/migrate-tenants.ts` | `public.tenant` row, the tenant's schema and its tables | create, deactivate, seed, migrate | database |
| request gate: `main.ts`, `common/tenant/tenant.middleware.ts`, `modules/auth/strategies`, guards | none per process; reads the registry and the users | choose the schema, admit the tenant, validate the token, check the role | every request |
| users and login: `modules/auth/command`, `modules/auth/query` | `user` rows per tenant, `admin` rows (unique emails: the constraint decides between racing registrations) | register, login, lookup | database |
| paginated lists: `modules/task/query/find-all-tasks-paginated.query.ts`, `modules/auth/query/find-all-users-paginated.query.ts` | none; read the `task` and `user` tables | one page: rows and total, by two statements | database |
| seeding: `script/seed-database.ts`, `script/seed-tenants.ts`, `database/seeders`, migrations | `admin`, `user` and `task` rows | register the tenant, then look up and insert what is missing | database |
| mail transport: `modules/mail/mail.service.ts` | none; SMTP or a sender that only logs, by `MAIL_HOST` | `sendMail` | mail worker |
| schema names, pool, hashing, wiring | none | pure functions or configuration | |

How they interact. A create-task request writes an event row and pushes a job; the worker takes
it, inserts the task and pushes a mail job that carries the *same* event id; each of the two
processors writes its progress to that one row. A failed attempt emits BullMQ's `failed` event,
whose async listener runs beside whatever the worker does next and writes the row as well. Task
actions change the task row and push a mail job with an event row of its own. Everything runs in
the tenant's schema, which the registry creates.

What is hard here:

- two stores (PostgreSQL, Redis) written one after the other, without a transaction, at every hop;
- an un-awaited call, and async listeners nobody awaits;
- redelivery: attempts are retried, jobs whose worker died are found stalled and run again or are
  failed without running;
- three writers (task job, success mail, failure mail) and two listeners on one status column;
- task actions that decide on a copy and flush without a version check;
- a tenant creation of four separate statements that races with scripts and with deactivation;
- seeders that look up first and insert later, in three flushes, and are run again after a failure;
- pages that are offsets into a list that changes between, and during, the requests.

What makes each part correct:

| part | properties |
|---|---|
| event outbox | a job never exists without its row; an accepted request may be lost, since nothing awaits the call, but then leaves its job, and takes its course, or a pending row at most |
| task worker | a success mail only for a stored task and at most once; a failure mail only after the last attempt; one winner per title; a failure log that can be trusted; every job ends |
| queues | a job is added once, handed out boundedly often, and its outcome is final; whatever happens to a job takes it nearer to its end |
| mail worker | bounded copies; a completed mail job has sent; the row ends as completed when all its jobs did, completed or failed only with a cause, and is not written after the request is over |
| task actions | the state machine when they do not overlap; when they do, assignee and status agree where both are decided, no stage is skipped, mails are true, and a flush that finds the status it decided on is a transition |
| tenant registry | a tenant that is half made is the trace of an unfinished creation; one creation wins; success means usable; the row is inserted once and deactivation lasts |
| seeding | a finished run leaves a complete tenant; demo tasks come all or not at all; nothing is overwritten |
| paginated lists | a reader misses no more rows than left the list meanwhile; total and page agree up to what moved between the two statements |
| request gate | a handler runs in the schema its caller is a user of; management and tenant tokens are kept apart; a deactivated tenant is shut |

## 2. Modules

### `EventPipeline` - the asynchronous pipeline

| variable | code |
|---|---|
| `svc[e]` | where `createTaskProcessingEvent` is for event `e`: `idle`, `called`, `flushed` (after `event.service.ts:73`), `pushed` (after `:78`), `lost` (rejected, or its process died: before Redis had the job, or after) |
| `event[e]` | `event.status`, or `absent` |
| `tasks` | the task table, a task being named by the event that asked for it |
| `jobState`, `attemptsMade`, `stalledCount` | the job in Redis (external) |
| `pc[j]` | the await `process(job)` is at |
| `handlers` | `onFailed` calls in flight, each with the attempt it reports |
| `logs` | `event_failure_logs` |
| `sent[j]` | copies of a mail handed to SMTP |
| `worker` | the worker process: `up`, or `down` after a crash |

One event of `CreateEvents` has up to three jobs (`create`, `success`, `failure`), one of
`NotifyEvents` has one (`notify`). The actions follow the code await by await: `Call`,
`FlushEvent`, `PushEventToQueue`, `Reject`, `ApiCrash` (API process); `StartTask`, `InsertTask`,
`InsertConflict`, `NotifyReporter`, `CompleteTask` (`TaskProcessor.process`); `StartMail`,
`SendMail`, `CompleteMail` (`MailProcessor.process`); `LogTaskFailure`, `FailTaskEvent`,
`NotifyTaskFailure`, `LogMailFailure`, `FailMailEvent` (the listeners); `AttemptError` (any await
of an attempt throws, before or after it took effect); `WorkerCrash`, `RestartWorker`. The two calls of
the API fail before or after they took effect as well: `Reject` and `ApiCrash` lose a call whose job
Redis does not have, `PushEventToQueue` may lose the reply when Redis has it.

External, modelled from how the code uses it: BullMQ 5.72.1 (`pnpm-lock.yaml`) with one worker
process and concurrency 1 per processor, the default of both `@Processor` declarations; the Compose
file starts one worker. `Take` picks any waiting job (delays reorder them). A throw counts an attempt
and emits `failed` (`Fail`, `Emit`); `Retry` is the end of the backoff; a job left active by a
dead worker is put back by `RecoverStalled`, and once it stalled more than `maxStalledCount`
times it is failed when taken (`TakeDoomed`). An unhandled rejection, in the un-awaited call or in
a listener, ends the Node process; it is part of `ApiCrash` and `WorkerCrash`. Nothing in the repository
starts a worker again (`docker-compose.yml:51-70` has no `restart:`): it stays down until the operator
makes `RestartWorker`.
Losing a job's lock while its worker still runs (Redis out of reach for 30 s) is not an action of
its own: with one worker of concurrency 1 the job can only run again after the first run is over
and could not be acknowledged, which for the database is a crash just before `Ack`.

`MailHostSet` chooses the sender of `mail.service.ts`: with a host every `SendMail` is a copy handed
to SMTP, without one it only logs. `GET /event/:taskId/failure-logs` only reads: it picks the rows of one
task from `logs`.

`JobQueue` is what a queue promises about a job, and all that the rest of the system may rely on:
absent, queued, running, then completed or failed for good, with a bounded number of deliveries.
`Queue == INSTANCE JobQueue` maps `jobState` through `Contract` (a delayed job is queued) and counts
deliveries by `TimesTaken`: failed attempts, recoveries, and the delivery under way. Both queues
have to keep it although success and failure mails are added by a worker that may run twice.

`CreateRequests` is the same system as a reporter sees it: requests whose task is `created`, whose
success mail is on its way (`toldCreated`), whose failure mail is (`toldFailed`). It says what no
retry, redelivery, crash or race may change: one task per title, told of only when it is
there, and no task and no success mail after the failure was told. The three are sets: that each mail
is enqueued once, which they cannot show, is `EachMailEnqueuedOnce`. What the contract leaves possible is the
finding below: a request may be told to have failed whose task exists. `Outcomes == INSTANCE
CreateRequests` reads the three sets off `tasks` and `jobState`; `InsertTask`, `NotifyReporter` and
`NotifyTaskFailure` are its steps, everything else stutters.

`Fuel(j)` is a bound on the steps job `j` can still take: nine for each delivery it has left and
`Distance` for the place it has reached in the current one. `JobsUseFuel` says that it decreases with
every change of a job that is in Redis.

### `TaskStateMachine` and `TaskLifecycle` - task actions

`TaskStateMachine` is what the workflow promises: the table with its roles, one transition at a
time. `TaskLifecycle` is `TaskActionHandler.execute`: `Load` (the row is copied into the
request's EntityManager and the transition, role and body are checked), `Flush` (only columns that
differ from the loaded copy are written), `NotifyByEmail`, `Abort`. `visited`, `everAssigned` are
history variables. The lookup of the assignee between load and flush reads only, so it is the gap
between `Load` and `Flush`. A request that answers 400, 403 or 404 changes nothing and has no
action. A task starts as the worker inserts it (created, unassigned) or as the seeder does
(created, or assigned, or in progress with an assignee; `StagesUpTo` gives those their past). `mails` is where the pipeline's `Call` for a `NotifyEvents` event starts.
`Machine == INSTANCE TaskStateMachine` maps the row to the abstract state under the same names.
`StaleFlush` is a flush whose loaded status is no longer the row's; `CurrentStatusSuffices` says that
every other flush is a `Transition`.

### `TenantRegistry` - one tenant's schema, row and tables

The processes are creations, deactivations, seed runs and migration runs, each at one of the
statements of its code; `Abort` stops any of them anywhere. `migrator.up()` reads what is pending
and then applies it in one transaction (`PlanMigration`, `ApplyMigration`). CREATE SCHEMA, the
unique `tenant.name` and CREATE TABLE fail when somebody was faster: the action's guard is then
false and `Abort` is what remains. Distinct tenants share nothing but the loop of
`migrate-tenants.ts`, whose failure at another tenant is an `Abort` here.

`TenantRow` is what the rest of the system may assume of the row: inserted once and active,
deactivated at any time, never deleted and never active again. `TenantRegistry` implements it
(`Row == INSTANCE TenantRow`), and so does the registry of `RequestGate` for each tenant
(`Row(s)`): the single steps `CreateTenant` and `DeactivateTenant` of the gate and the processes
of the registry agree on this contract.

### `DemoData` - seeding, beside the service

`DemoData` EXTENDS `TenantRegistry` and composes with it: a `seed:database` run (`Seeds`) goes on
with the seeders when `pc` says that its tenant is registered; a `seed:tenant` run (`Reseeds`)
seeds whatever is there. `step` is the query a seeder is at: `FindAdmin`, `InsertAdmin`
(`SchemaSeeder`), `FindAccount` twice, `InsertAccounts` (one flush), `FindFirstTask`, `InsertTasks`
(one flush). `accounts` and `tasks` say who made each row, so that an overwritten row shows;
`missing` is what a run did not find and is going to insert, a stale read. The unique constraints
of the migrations (`AdminFree`, `EmailsFree`, `TitlesFree`) are guards of the inserts: a conflict
leaves `AbortSeeder`. `RegisterAccount` and `CreateTask` are the API and the worker taking the very
emails and titles a seeder wants. `DemoNext` is a step of the registry or a step of the data.

### `Paging` - lists read page by page

`createdAt` and `assignedTo` are the columns the list depends on; `query[r]` is the role and the page
size of reader `r`, `Matching` the rows its search text matches. A request is `Ask`, then `FindRows`
and `Count` in either order (`findAndCount` starts both statements and no transaction holds them
together), then `Answer`. `IsPage` says which rows LIMIT and OFFSET may return of a list in
descending `createdAt`; rows with equal stamps may come in any order, and in a different one each
time. `InsertRow` and `SetAssignee` change the table at any time, also with a `createdAt` that is not
the newest: the stamp is taken by a process before its commit. A reader stops at the first page that
is not full. `moved`, `lost`, `owed` are history variables; `Tally` keeps them. `MaxMoves` bounds
them in TLC's instance.

### `RequestGate` - what a request passes before its handler

| variable | code |
|---|---|
| `registry[s]` | the row of tenant `s` in `public.tenant`: `absent`, `active`, `inactive` |
| `users` | the `user` rows of all tenants, each with its schema, email and role |
| `jobs` | the schema and the reporter in the task jobs pushed so far |
| `req[r]` | a request: route, header, token, the schema of its EntityManager, and the last check it passed |

`Open` is the middleware of `main.ts`, `Admit` is `TenantMiddleware`, `Authenticate` and
`Authorize` are `JwtStrategy.validate` (its user lookup, then its tenant lookup) with the guards,
`CheckEmail` and `InsertUser` the two awaits of a registration, `CreateTask`, `CreateTenant` and
`DeactivateTenant` the other handlers that change what the gate reads. `Close` ends a request that
is refused, fails, or only read. The routes stand for kinds of routes: `create` (reporter only),
`me` (users and reporters), `logs` (no `@Roles`), `tenant` (management) and `register` (no token).
Login changes no state: `Signed` is the set of tokens it may have issued, the header as it was
spelled and a user of that tenant. `SchemaOf` is `sanitizedTenantName`; several spellings of one
tenant are what makes the gate hard, since the token is compared raw and the schema sanitized. No
`ValidationPipe` is installed (`main.ts`), so a registration may ask for any role, `admin`
included. `shut` is a history variable: the tenant was inactive when the request arrived.
`CreateTenant` and `DeactivateTenant` are single steps here; `TenantRegistry` has theirs in detail.

### MC and proof modules

`MCEventPipeline`, `MCTaskLifecycle`, `MCRequestGate`, `MCDemoData` (for `TenantRegistry` too) and
`MCPaging` give TLC its instances. `EventPipelineProofs`, `EventPipelineContractProofs`,
`EventPipelineOutcomeProofs`, `TaskLifecycleProofs`, `TenantRegistryProofs`, `DemoDataProofs`, `RequestGateProofs` and
`PagingProofs` hold the theorems. Operators commented "Faulty
variant" (`...Early`, `...Unawaited`, ...) are plausible bugs used to see that a property would
notice them; no specification uses them.

## 3. Runs

| run | instance | what it shows |
|---|---|---|
| `pipeline` | one create event, 2 attempts, 1 tolerated stall; 2,118,946 states | type invariant, nine safety invariants, `SettledEventFrozen`, `JobsUseFuel` and the two contracts (`ImplementsJobQueue`, `ImplementsCreateRequests`) under errors at every await, lost replies and crashes of both processes |
| `title_race` | two create events with one title, 1 attempt, 0 stalls; 1,588,054 states | `OneWinnerPerTitle` |
| `pipeline_live` | one create event or one notify event, 2 attempts, 0 stalls; 351,790 states | `JobSettles` |
| `task_races` | three overlapping requests, a reporter and two users; 266,652 states up to symmetry | what survives lost updates, and `CurrentStatusSuffices`: what a check at the flush would save |
| `task_serial` | one request at a time; 810 states | `ImplementsStateMachine`, `OwnedWork` |
| `tenant_registry` | two creations, a deactivation, a migration run, a `seed:database` and a `seed:tenant` run, two demo titles; 2,095,408 states up to symmetry | the registry's invariants (`HalfMadeIsUnfinished`, ...), the seeders' invariants, `ImplementsTenantRow`, `SeedingOnlyFills` |
| `request_gate` | two overlapping requests, two tenants, three spellings, one email; 1,505,291 states up to symmetry | who reaches which handler, in which schema |
| `paging` | one reader of either role, pages of one or two rows, three rows that match and one that does not, three stamps; 343,679 states up to symmetry | `MissesAtMostLost`, `RowsFitTotal` |

Bounds. Two attempts tell a first, a repeated and a last attempt apart, and the proofs cover every
`MAX_ATTEMPTS`; the code's 3 is used where the state space allows. One tolerated stall is
BullMQ's default. Events interact through the title and through the queue's single worker only,
which two events show. Three requests are enough for one to be overtaken twice. Two creations
race; the proofs cover any number. Two requests let one change what the other has just read; one
email per tenant with three roles is enough for two registrations to meet. The counters of the pipeline need no cap: a job's attempts and stalls are
bounded by the model itself, which `TypeOK` states. Two seeder runs are enough for one to find
what the other left half done; of the demo titles the first is special and the others are alike, so
one later title stands for them. Three rows and pages of one or two let a reader cross a page border
while a row enters or leaves on either side; `MaxMoves = 2` rows may move during one request, and as
many may be lost in one reading. Deadlock is not checked because every system
here really stops: the requests are finitely many and a completed task has no transition. (In `RequestGate` a new
request can always arrive.)

Runs that find what a document or message of the repository says violated:

| run | claim | what happens |
|---|---|---|
| `completed_without_task` | README:265, 11: a `completed` row is a success | the failure mail's own job moves the failed row to `completed` |
| `failure_mail_with_task` | `task.processor.ts:159` "we cannot create the task" | an error after the insert is retried into the UNIQUE conflict with itself |
| `task_stale_write` | README:26-37, the state machine | the second of two overlapping actions overwrites the first |
| `tenant_conflict` | `create-tenant.command.ts:40` "already registered" | an earlier creation stopped after CREATE SCHEMA |

A crash can also drop the listener of the last attempt, which leaves the row at `processing` and
no failure log; `CompletedJobsCompleteEvent` says that this takes a failed job. So README:275 is
true in one direction only: a logged last attempt means that the job failed for good
(`FailureLogsAreTrue`), but an empty log, or one of fewer than three rows, does not mean that it did
not. README:252 gives `page` and `pageSize` defaults; they are field initializers of a DTO nobody
instantiates, since no `ValidationPipe` is installed, and a request without them computes NaN.

`MissesAtMostLost` is as strong as the code allows. A row can be missed only because another one
left the list (a task unassigned, for a plain user): insertions shift rows to later pages and show
some twice, but hide none. Rows that share their `createdAt` are excepted, because OFFSET over an
order with ties may skip one of them in a list that never changes; the demo tasks, made in one
flush, are such rows. And it is about a reader who stops at a short page: one who stops at the
`totalPages` of an answer can stop early when rows enter between the two statements.

Fairness (`FairSpec`) has two parts. What the code justifies: weak fairness of the API's continuations
(`ApiStep`), because Node runs every ready continuation. What nothing in the repository provides and
is assumed of whoever operates it (`OperatorKeepsWorker`): a worker that went down is started again,
weak fairness of `RestartWorker`; and a worker that goes down again and again is up long enough to
take a step in between, strong fairness of `WorkerStep`. While it is up the worker runs every ready
continuation and BullMQ every due job, so for it the second is no more than weak fairness. Without
the first, a listener that rejects ends the worker, and its jobs, for good. Errors, rejections, calls
and crashes get no fairness: they need never happen. `JobSettles` holds although crashes may recur:
every crash of a running job costs one of a bounded number of stalls. `OneCallSpec` starts with one
call that can still be made, the other kind's call having died with an earlier API process; the
fairness is the same. The other modules state no liveness: an HTTP request or a script may always
stop.

## 4. Proofs

All theorems are checked by TLAPS, for every value of the constants that satisfies the named
assumptions: `EventsAssumption` (create and notify events are distinct), `AttemptsAssumption`
(at least one attempt), `StalledAssumption`, `LifecycleAssumption` (no user is "nobody", the
reporter is a user), `KindsAssumption` (the four kinds of processes are distinct), `GateAssumption` (every spelling has a schema, which is
not the public one), `ReseedsAssumption` and `TitlesAssumption` (names are distinct), `PagingAssumption`
(finitely many rows, positive stamps and page sizes).

`EventPipelineProofs`. `IInv` is inductive; the stated invariants alone are not. It adds:
`JobInv` (which positions a running job of each kind can be at, and that it is active in Redis),
`ServiceInv` (no job before the push, so `Add` never revives one), `TaskInv` (a job past its insert has
its task), `OneHandlerPerAttempt` and `HandlerInv` (a listener reports an attempt that was
counted; one past the log has its log row and a job that is over; only it can send the failure
mail), `DoneInv` (a job at its last position has written `completed`, and what others may have
written since) and `CopiesInv` (copies sent are paid for by attempts and stalls). The proof has
one lemma per part, each with one step per action, and small lemmas on what a step can add
(`NewHandler`, `WhoFails`, `FailureMailSender`); `RestartWorker` changes nothing any of it speaks of
(`StepOrRestart`), so the lemmas are about `PipelineStep`. `EachMailEnqueuedOnce` is a consequence of
`IInv`: a job about to enqueue its success mail has none, a listener about to enqueue the failure mail is
the only one of the last attempt. `SettledEventFrozen` follows because every writer
of a row holds a running job or a listener of its event. `OneWinnerPerTitle` follows from an
invariant on the set of tasks: the insert refuses a title that is taken.

`EventPipelineContractProofs`. `QueuesKeepContract` is the refinement: every step of the pipeline is
one step of `JobQueue` or leaves each job's contract as it was. It needs `IInv` for the two adds a
worker makes (a mail job that is added must be absent: `OneSuccessMail`, and the listener of the
last attempt is the only sender of the failure mail) and for the bound on deliveries (a job that can
still be taken has attempts and stalls left). `CompletedMailIsOut` and `FailureLogsCanBeTrusted` have
small inductive invariants of their own on top of it. `ContractConsequences` draws from the
contract what a user of the queues wants of it: an outcome is final, deliveries are bounded.

`EventPipelineOutcomeProofs`. Four further results on the same invariant:

- `RequestsKeepContract`, the refinement of `CreateRequests`. The insert and the success mail come
  from a job that is active, so no failure mail of its request is out (`FailureMailAfterLastAttempt`);
  the insert finds no task of its title.
- `RequestsActThroughTheirJobs`: until Redis has its job, a request has no other job, listener or task
  (`UnpushedInv`), whether its call is under way or lost.
- `StatusIsFounded`: `completed` is written by a processor at its end, which has an outcome to show
  (`CompletionHasOutcome`), and outcomes last (`OutcomesLast`).
- `JobsRunDown`: every step that changes a job uses up a delivery or brings it nearer to the end of
  the current one (`Spends`); `Fuel` is a natural number (`FuelIsNatural`). This is the well-founded
  half of `JobSettles` for any number of attempts and stalls. The other half, that a job which is
  not over always has a step that fairness demands, speaks of ENABLED and is left to TLC.

The claims of the repository that runs refute are proved within the scope in which they are
true, which names the one behaviour that breaks each:

| refuted by | theorem | holds |
|---|---|---|
| `failure_mail_with_task` | `FailureMailHonestUntilLateFailure` | of every behaviour in which no attempt fails, and no worker dies, between its insert and its acknowledgement (`LateFailure`) |
| `completed_without_task` | `CompletedWithoutTaskNeedsFailureMail` | of every request whose failure mail was never enqueued |
| `task_stale_write` | `ImplementsUntilStaleFlush` | of every behaviour without a `StaleFlush`, however requests overlap |
| `tenant_conflict` | `ConflictIsTrueWithoutFailures` | in every state in which no creation and no seed run has failed |

`TaskLifecycleProofs`. `IInv` adds that a copy's assignee agrees with the status it was loaded
from, that the stages before a status the row has had were visited, and that an owed mail is already true. With at most one request
(`OneAtATime`), a copy is fresh when it is flushed (`FreshStep`), so every `Flush` is a
`Transition` of `TaskStateMachine` and everything else a stutter: `SerialImplementsStateMachine`.
Without that bound, `CopiesAllowed` (some user has the role that a loaded transition asks for) makes
a flush a `Transition` whenever the loaded status is still the row's:
`StatusCheckWouldDo`.

`TenantRegistryProofs`. `IInv` adds that a process past CREATE SCHEMA has a schema, a creation
past its insert a row, a process past its migration tables, and a loaded deactivation a row.
`RegistryKeepsRow` is the refinement of `TenantRow`: every insert is guarded by the absence of the
row, every deactivation has found one; `DeactivationLasts` follows from the contract alone.
`HalfMadeTenant` joins three inductions: no row without a schema (`RegisteredIsReal`), no schema
without a row (`UnregisteredSchema`) and no row without tables (`UnmigratedTenant`) unless somebody
is between the two, or failed there.

`DemoDataProofs`. `ImplementsRegistry` shows that `DemoSpec` implements the `Spec` of `TenantRegistry`
(a data step is a stutter of the registry), so its theorems hold of the composition. `DemoInv` says
of each seeder what the steps behind it established (`SeedingIsLate`: its tenant is complete;
`AdminIsThere`; `LookedUp`: an account it did not record as missing exists; `AccountsAreThere`;
`FirstTitleIsTaken`); these are stable because no action removes a row.

`PagingProofs`. `PInv` counts the rows a reader is owed whose place in the list is before the pages
read so far (`Hidden`): they are at most `lost`. A page takes every owed row of its places with it, an
insertion only moves places back, and a row that leaves the list moves at most one owed row past
the boundary. At the end of the list every owed row is hidden. `RowsFitTotal` is a counting argument:
each entry or departure changes the list's size by one and is counted in `moved`. Both rest on lemmas about the cardinality of finite sets.

`RequestGateProofs`. The invariant says of each request what the checks it has passed established
(`RequestOK`): its schema is that of its header, its token names a user in the schema the token's
tenant stands for, it was admitted while the tenant was there, and so on. These facts survive what
other requests do because accounts and registry rows never go away and an inactive tenant stays
inactive (`RequestFrame`). `CallersTenant` joins three of them: header to schema, header to token,
token to user. `GateKeepsRows` proves
of each tenant what the registry proves of one, the contract `TenantRow`; TLC does not check it, since
a temporal formula of a parametrised instance is beyond it.

Only model-checked: liveness (`JobSettles`; its fuel argument is proved, the enabledness of the next
step is not), which is beyond the prover, and that the violated claims are violated. Every safety,
action and refinement property of the passing runs is proved.

## 5. Plan

Done: `EventPipeline` with its contract `JobQueue`, `TaskStateMachine` with `TaskLifecycle`,
`TenantRegistry` with `DemoData`, `RequestGate`, `Paging`, the contracts `CreateRequests` and
`TenantRow`, and the proofs of all their safety and action properties and refinements. Left, in
this order:

1. A job that is not over always has a step of its own that is possible as soon as the worker is
   free, stated without ENABLED: the other half of `JobSettles`, as far as it can be proved.
2. An abstract specification of registration and of the gate (who may act in which tenant), with
   `RequestGate` shown to implement it.
3. `SeedRepairs` of a `seed:database` run under fairness: a script run again often enough ends.
4. The lemmas on pages stated of any ordered list, to shorten `PagingProofs`.

## 6. Not modelled

- Schema names: `sanitizedTenantName` is a pure string function (trim, lower case, `-` to `_`, one
  regular expression). `RequestGate` takes it as the constant `SchemaOf`, an arbitrary function, and
  the proofs hold for each; what matters is where the code applies it and where it does not.
- The connection pool: one hook that sets `search_path`; no state of its own.
- Password hashing, Nest wiring, Swagger, configuration and DTO mapping: no behaviour to check.
- `MigrationTenantCommand` is dispatched by nobody. `down()` of the migrations is run by nobody, and
  column types and foreign keys are abstracted. `SchemaSeeder` run alone from the CLI is its part of
  a `seed:database` run, `FindAdmin` and `InsertAdmin`.
- The sender address `MailProcessor` looks up, and the text of mails, change no state. Sessions,
  bcrypt and the content of a token beyond user, tenant and scope are abstracted.
- What the ORM makes of a NaN offset or limit, and how PostgreSQL orders rows with equal stamps
  (any order is modelled), is outside the repository.
