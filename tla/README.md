# Security Control Center in TLA+

TLA+ models of the parts of Security Control Center whose correctness depends on
the order in which several actors reach shared state, the TLC configurations
that check them on small instances, and TLAPS proofs of what they promise for
any number of processes, jobs, checks or requests.

| Modules | Model | Runs | Proofs |
| --- | --- | --- | --- |
| `BackupPipeline` | `core/backups`: backup, import, delete, download, restore, retention | `backup`, `backup_crash` | `BackupPipelineProofs` |
| `AppJobs` | `core/appjobs`: the jobs of the compatibility wizard and their workers | `app_jobs` | `AppJobsProofs` |
| `JobLife` | the life of one job: the abstract specification that `AppJobs` implements | `app_jobs` | `AppJobsProofs` |
| `CheckSlots` | `core/monitoring/engine.go`: which checks run, how many, and the engine's loop | `check_slots` | `EngineProofs` |
| `MonitorState` | `core/monitoring`: a monitor's rows, notifications and incident, and who writes them | `monitor_state`, `monitor_display` | `MonitorStateProofs` |
| `SlaPeriods` | `core/monitoring/sla.go`: closed periods, their rows and incidents | `sla_periods` | `EngineProofs` |
| `Documents` | `core/docs`, document handlers, OnlyOffice: versions, files, approvals | `documents`, `approvals` | `DocumentsProofs` |
| `Approval` | what an approval promises: the abstract specification that `Documents` implements | `approvals` | `DocumentsProofs` |
| `TaskBoard` | `tasks/store`: the positions of tasks in columns and subcolumns | `task_board` | `TaskBoardProofs` |
| `Recurring` | `tasks/recurring*.go`: recurring rules, their calendar and schedulers | `recurring` | `RecurringProofs` |
| `Incidents` | `core/store/incidents_store.go` and its handlers: an incident, its stages and contents | `incidents` | `IncidentsProofs` |

`MC*.tla` give the constants their values, and each `.cfg` is one run. To repeat
one: `tlc -config MCAppJobs.cfg MCAppJobs`, and for the proofs
`tlapm AppJobsProofs.tla`. `PROJECT.json` has the runs, for every definition the
lines of the code it models, and for every property a mutated definition, the
kind of mistake a change could make, that violates it.

All paths below are relative to `src/`.

## 1. The system

A Go server over one PostgreSQL database and a few directories. The setting
`BERKUT_RUN_MODE` decides what a process is: `all` (HTTP and background workers),
`api` (HTTP alone) or `worker` (background workers alone). So one, two or more
processes share the database and the directories; what a Go mutex, map or
channel protects is protected inside one process only. A short-lived process
comes before each start: `cmd/migrate` makes a backup with the same backup
service before it migrates.

No component keeps a transaction open across a decision. Almost every handler reads
rows, decides in memory, and writes them back with one `UPDATE` statement after
another. This is where the difficult behaviours come from.

### Inventory

**Backup service** (`core/backups`, `api/backups`).
*State*: rows of `backups_runs`, `backups_artifacts`, `backups_restore_runs`,
`app_maintenance_state`, the directory of `.bscc` files; per process the pipeline lock
(`opName`, `opMu`), the limiter (a channel) and the counters `downloads`.
*Operations*: create, import, delete, download, restore and dry run, automatic
backup and retention. *Interactions*: HTTP handlers call it with the request's
context, the scheduler with its own; a restore runs in a goroutine, replaces the
whole database (`DROP SCHEMA`, `pg_restore`, migrations) and switches the
maintenance mode, which the HTTP middleware reads at every request.
*Hard*: several processes over one directory, deletion against a download in
progress, a failure after the schema is dropped, a request that ends in the
middle, rows that come back from a dump, retention by rows rather than files.
*Correct if*: a finished operation leaves nothing behind that blocks another;
no file is removed under a download; the maintenance mode covers a restore and
nothing else; retention keeps what it promises.

**Backup scheduler and plan** (`scheduler.go`, `schedule_policy.go`). One row
(`backup_plans`); a loop that compares the
plan's calendar with the time of the last automatic backup, which it records in the same
row. *Correct if* one due date gives one backup.

**Application jobs** (`core/appjobs`, `core/store/app_jobs_store.go`).
*State*: `app_jobs`, `app_module_state`; per process a `Worker` with its loop.
*Operations*: create, cancel, claim, one reset or adaptation per module, progress,
finish; start and stop of workers. *Hard*: two workers and left-over loops read
the same queue; a cancellation in the middle; a stop or death in the middle; a
module that fails. *Correct if* a job is run once, means what its status says, and ends.

**Monitoring engine** (`core/monitoring`, `core/store/monitoring_*`).
*State*: `monitor_state`, `monitors.is_paused`, `monitor_notification_state`,
`incidents` it has opened, `monitor_maintenance`; in memory `inFlight`, `sem`,
`running`, `cancel`. *Operations*: a tick starts the checks that are due; a manual
check; the end of a check writes the row, notifies, opens or closes an incident; the
maintenance pass of the loop; requests that pause, resume, edit. *Hard*: the limit
changes while checks run; a stop that times out; the row has three writers without
a transaction. *Correct if* a monitor has one check at a time, no slot is lost, the
limit holds, notifications are neither lost nor repeated, an incident is opened
once and closed, and the row comes to show the truth.

**Monitoring rules beside the engine** (`checker*.go`, `retry_policy.go`, `sla.go`,
`core/store/monitoring_maintenance_*.go`, TLS, tasks, push). The attempts are network I/O; windows and SLA
periods are calendar arithmetic. The SLA evaluator judges the last closed day, week and
month again every minute: it reads the monitor, the policy, metrics and maintenance,
writes the row of the period, opens an incident for a violation and marks the row. *Hard*:
each of these is a statement of its own, and requests change target, policy and rows
between them. *Correct if* a violated period has one incident, and the rows come to say
what the metrics say.

**Documents** (`core/docs`, `core/store/docs_store.go`, `api/handlers/docs_handlers.go`).
*State*: documents, versions, access lists, approvals with participants by stage,
files on disk. *Operations*: save a version (file, then row), start an approval,
decide, return, publish; the OnlyOffice callback saves from outside. *Hard*: two
decisions of one stage at once; a new version under an approval; file and row of
which one fails. *Correct if* a document is approved exactly when every stage of
one version was.

**Incidents** (`core/incidents`, `core/store/incidents_store.go`). Rows with an
optimistic version, stages and entries; closing, deletion and restoration do not
look at the version. *Correct if* no edit is lost and a closed incident stays as it was.

**Tasks** (`tasks/`). Boards, columns and subcolumns, tasks with positions, an archive,
blocks between tasks, recurring rules with a scheduler of their own. *Hard*: every
operation shifts the others' positions, in several statements of a READ COMMITTED transaction and by
positions it has read before, and archived tasks keep theirs; a rule fires in
two processes, and its next run is calendar arithmetic. *Correct if* two tasks of a place
are never at one position and nobody else changes their order; an occurrence has one
task and none is passed over.

**Authentication and sessions** (`core/auth`, `api/handlers/auth*`). Failed-login
counters and lockout stages, TOTP and passkey challenges, sessions; in run
mode `all` the start of the background workers ends every session. *Hard*: whole rows of users
written back by several requests; a challenge used twice. *Correct if* lockouts
do not get lost and a challenge is used once.

**Accounts and access control** (`core/rbac`, accounts handlers). Users, groups,
roles. *Correct if* the last superadmin cannot be removed.

**Runtime** (`core/appbootstrap`). Starts and stops the workers in an order and
lets an operator restart the process.

**Registries, reports, dashboard, HTTP surface, network guard, configuration,
user interface, packaging**: one row per request, pure functions, or I/O.

`PROJECT.json` lists these with their sources and whether they are modelled.

## 2. The modules and the code

Every action is one access to what the actors share: one SQL statement, one access
to the file system, one critical section of a mutex or one channel operation;
statements between which no other actor can make a difference are one action.
Values are abstracted to what the properties tell apart; this is stated at
the top of each module. `Faults` and `Failures` are constants that switch the
faults of the environment on, so that a run can say which of them it is about.

### BackupPipeline

| Model | Code |
| --- | --- |
| `op`, `slots` | `Service.opName` under `opMu`, the tokens of the limiter, per process |
| `db` | the tables: `runs`, `rests` (status), `arts` (the file of each artifact), `maint` |
| `up` | false from `DROP SCHEMA` to the end of `pg_restore`, while there are no tables |
| `nfiles`, `files`, `content` | the directory, and the database state that each file's dump holds |
| `task[p]` | the request of process `p` that holds the pipeline lock, its `pc` and what it has read |
| `ret` | the retention pass that follows an automatic backup, which takes no lock |
| `dl[c]`, `downloads` | download requests, and the counters of `Service.downloads` per process |

`Request` is `beginPipeline`; `Check` the reads of `HasRunning*`, a statement each,
before the row is inserted, and so the interval between them is there for another
process. A backup goes `CreateRun`, `StartRun`, `Dump` (the content is the
database as it is now, the run's own active row included), `Encrypt`,
`CreateArtifact`, `AttachArtifact`, `FinishBackup`; `BackupFails` is `failRun`, whose
update fails when the context has ended. Restore hands the lock to its goroutine
(`ExecRestore`); `DropSchema` empties `db`, `PgRestore` makes it the dump, `Migrate`
and `ResetRows` follow. `Cancel` ends the context of a request (client gone,
shutdown), `Restart` is the end of a process and the start of another.

### AppJobs and JobLife

`status`, `progress` and `size` are the table; `loop` the goroutines, which outlive
`StopWithContext` because it ends their context without waiting; `running`,
`current` the worker's fields. `NextQueued` and `MarkRunning` are two
statements, the second of which looks at the status again; `CheckCanceled`,
`ReportProgress`, `ApplyModule` and `AfterModule` are the loop over modules. `applied`
counts modules really reset, `late` those since the cancellation. The truncated
percentage is `Share`.

`JobLife` says what all of this amounts to for a job: it is claimed once, whoever holds it deals with
its modules one by one, at most one of them after a cancellation, and ends it: as finished only
when all is done, as canceled only when it was. Or it is let go as it is, when a loop is stopped or
dies. Its variables are read off those of `AppJobs` (`J == INSTANCE JobLife WITH ...`) for one job,
`Watched`; it is `held` while a loop works on it.

### CheckSlots

`inFlight` and `sem` are the engine's; a channel is the number of its tokens and the
loop's `EnsureSemaphore` makes a new one. A check goes `Mark`, `Send` or `Unmark`,
runs, `Release`, `Drain`: releaseSlot reads `sem` at the end, which need not be the
channel that was sent to. `Tick`, `StartDue`, `EndTick`, `LeaveLoop` are the loop
(which waits for its checks before it looks at its context again);
`StopWithContext`, `StopDone`, `StopTimeout` the stop and its two outcomes.

### MonitorState

`row` is `monitor_state`, `told` the notification state, `open` the incidents, `window`
and `paused` the truth that the row should show. A check is `Begin`, `Attempt` (the
result and the window it saw), `Judge` (reads the previous row and the notification
state, notifies, decides about the incident: `Due`, `Decide`) and `End`
(incident, notification state, row). The pass is `ListMonitors`, `PassRead`,
`PassWrite`; the requests are `UpdateMonitor`/`EditWrite`,
`SetMonitorPaused`/`PauseRead`/`PauseWrite` and `MarkMonitorDueNow`. `sent`, `again`, `lost` and
`blind` record history for the properties and influence nothing.

That checks of one monitor come one at a time is an assumption of `MonitorState`
and a theorem of `CheckSlots` (`MarksCorrect`), for one engine: in run mode `api` a
manual check runs in the engine of that process, beside the worker's.

### SlaPeriods

| Model | Code |
| --- | --- |
| `today`, `metrics`, `windows` | the time, `monitor_metrics` and the maintenance, by day |
| `target`, `policy` | what `effectiveSLATarget` and `monitor_sla_policies` say |
| `rows`, `opened` | `monitor_sla_period_results`, and the incidents opened for each row |
| `pass` | the evaluator: the kind of period it is at, and what it has read |
| `request` | `UpdateMonitor` between writing the monitor and writing the rows |

`Begin` fixes the day; `ListMonitors` and `ListMonitorSLAPolicies` read target and policy,
`EvaluateMonitorSLAWindow` metrics and maintenance; `UpsertSLAPeriodResult` writes the row and
decides by the flag that comes back; `CreateIncident` and `MarkSLAPeriodIncidentCreated`
follow. Then comes the next kind of period, which lists the monitors again. `PassFails` is
an error of any of these, which goes on with the next period, or the end of the process.
The requests are one statement each, except `UpdateMonitor`, which after the monitor
reads the policy (`ReadPolicy`) and rewrites the rows of all periods
(`SyncSLAPeriodTarget`). The specification and its parts carry the prefix `Sla`, because
`EngineProofs` extends this module and `CheckSlots`.

### Documents and Approval

| Model | Code |
| --- | --- |
| `doc`, `deleted` | the row of `docs`: current version and status; `deleted_at` |
| `versions`, `files` | `doc_versions` and the `<number>.enc` files, with what each says |
| `approvals` | `approvals` with `approval_participants`: who is asked at which stage, who has decided |
| `tokens` | `officeSaves`, the forced saves waiting for a callback, by version |
| `request[q]` | a request: its kind, its next step, the copy of the row it works on, what it has read |

Saving is the same run of steps for every saver (create, edit, import, restore, the
OnlyOffice callback): the file of the number after the copy's version (`WriteFile`), its row
(`AddVersion`, or `AddVersionRefused` when another has that number), pruning
(`ListVersions`, `DeleteVersion`, `RemoveFile`) and the whole row from the copy
(`UpdateRow`). A decision reads the approval (`ApprovalDecision`), its participants
(`ReadParticipants`), records the user's own and works out status and stage from what it has read (`Approve`, `Reject`, `Judged`),
reads the document again (`RereadDocument`) and writes its status (`DecideDocument`) and the approval's
(`SettleApproval`).
`Fails` ends any request where an error would.

`Approval` says what an approval is for: nobody is asked after it has begun, a later
stage is approved after the earlier ones, and "approved" needs everybody. Its variables
are read off those of `Documents` (`A == INSTANCE Approval WITH ...`): `asked` and the status are the
rows of one approval, `given` the approvals ever given, a history variable because a
participant may change a decision while a request that has read the earlier one goes on.

### TaskBoard

`row[t]` is the committed row of a task, its place (column and subcolumn), position, archived flag and, as
`origin`, the entry in `task_archive_entries`; `active` the subcolumns that are. `withTx` begins a
transaction without naming an isolation level, so each statement sees what is committed when it begins,
and what its own transaction has written. Hence `tx[q]`, a request in its transaction: what it has read
(`copy`, `n`), the shifts left to do (`todo`), the rows it has locked; `write[q]` is how it has written them.

The actions are the statements. `CreateTask`, `MoveTask` (within a board), `RelocateTask` (to any) and
`RestoreTask` begin a transaction with its first SELECT; `CheckPlace` looks at the subcolumn, `ReadMax` at the highest
position, `CheckRestore` at the entry and where the task may go; each `UPDATE tasks SET position = position +/- 1`
(`Open`, `Close`, `Slide`, in the order of `Shifts`) is `Select`, which picks the rows that match, and `Update`, which
has waited for those another transaction has locked and changes the ones that still match, as PostgreSQL does;
`Finish` puts the task at its place and commits. `ArchiveTask` and `ArchiveTasksByColumn` read and write one
task after the other (`ReadTask`, `WriteEntry`, `FinishArchive`); `DeleteSubColumn` lets its tasks fall to the column
(`FinishDrop`); `DeleteTask` and `UpdateSubColumn` are single statements. `Fail` rolls a transaction back
anywhere, for a refusal, a deadlock or a caller who has gone. Two things are coarser than the database: an
UPDATE locks its rows at once and not one by one, and the last write of a transaction is one with its commit, before
which nobody sees it.

`stale` is history: rows of a place the request is about have changed since it read. `clean` becomes false
when a stale request commits, or an operation puts a task where another is by itself: see "What the code does
otherwise".

### Recurring

`rule` is the row of `task_recurring_rules`, `instances` the occurrences in
`task_recurring_instances`, `tasks` the number of tasks made, `run[p]` what a scheduler, or the
request "run now", has read and does next. `NextRunAt` is `ComputeNextRunAt` with its four
schedule types over a real calendar (`FirstDay`, the days on which its months begin, and the first
weekday are constants). `Legal` are the schedules that `NormalizeScheduleConfig` lets pass; the loop of
`nextByInterval` is written out, as five dates three months apart leave any year. `ListDue`
reads the due rule and computes the next run, `CreateInstance` is the transaction that
inserts the instance and the task, or nothing when the instance is there,
`UpdateRun` writes `next_run_at`. `since` is history: what was due until then was given up, by an edit, a run by hand or
an inactive template. `Edit` covers the request that writes schedule, flag and next run
and the one that toggles.

### Incidents

`row` is the row of `incidents` with its version, `stages` and `entries` those of one
incident's stages, `req[r]` a request with the copy it has read, the version that its client named and what it
does next. Every handler's reads, checks and statements are actions of its steps:
updates, the postmortem and the outcome by version; `Close` with the completeness of
stages and contents read before; delete, restore; a stage's insertion with its
content, its title, content, completion and removal. `CloseBySource` is the monitoring engine.

## 3. What the runs check

Deadlock is not checked (`CHECK_DEADLOCK FALSE`) except in `recurring`: versions, ids, files or time are bounded, so a
model may legitimately come to rest with nothing left to do, and that the system
does not stop earlier is what the liveness properties say.

**backup**, 244 thousand states: one process, one client, two files, artifacts and
runs, one restore, every step may fail.
`ActiveRowsOwned`: a row that blocks other requests belongs to one in progress, or
came out of a dump and is about to be reset. `MaintenanceOnlyInRestore`: no path
leaves the mode on. `PipelineFrees`: the lock is always given back.
One process is enough, since these are about the paths of one
request (the theorems say it of any number); two artifacts allow a deletion beside a download of another, two runs allow
a dump in which an earlier run is over.

**backup_crash**, 657 thousand states: an api and a worker process, ended contexts and
restarts besides. `LockMatchesTask` (lock, limiter and request agree),
`DeleteSparesDownloads` and `DownloadsCounted` (the counter and the
lock close the gap between looking and removing): what is in memory in each process stays right whatever
happens to the other. All bounds are 1 except the limiter's capacity, 2, so that
a token too many is possible; the same three are proved for any bounds.

**app_jobs**, 25 thousand states: two processes, two loops, one job of up to three
modules, which may fail, with stops and crashes. `OneRunner`; `FinishedMeansAll`: finished
means every module once; `JobKept`: `AppJobs` implements `JobLife`, every step of it is a step of
`JobLife` or leaves the job alone; `ServedJobsEnd`: a job that a loop runs ends, unless that loop
is stopped. Jobs share nothing but the loop, so a second job adds no interference;
the theorems hold for any number.

**check_slots**, 101 thousand states: two monitors, two checks, two loops, a limit that
is 2 or invalid (0, which the code takes as 1) and changes at most once (two channels).
`OneCheckPerMonitor`, `TokensOwned` (every token of the current channel belongs to a
check that is not over: no capacity is lost), `OneLoop`; `SlotFrees`: no monitor stays marked;
`LoopEnds`: a stopped loop ends, even if the stop gave up waiting.

**monitor_state**, 233 thousand states: checks with every result against the pass, with
windows, and any statement may fail; up to two incidents, one more than should be. `NoticesAlternate`: DOWN and UP alternate,
whatever row a check has read, unless the notification state itself was lost;
`OneOpenIncident`: a stale row makes the engine look for an incident, not open
a second, unless the search failed.

**monitor_display**, 79 thousand states: a check, a pass and a request. `DisplaySettles`:
when flag and window stay as they are, the row comes to show them again and
again, whatever old values were written last.

**sla_periods**, 1.0 million states: days and weeks of three days, from the last
day of a week over midnight, so that a day and a week close; one change by an operator
(maintenance, policy, default target, or a monitor's target with the rewriting of the rows) and one
failure between any two statements; metrics that are late or expire after two days; two
targets, one of them 66.67, which two good days of three meet only when rounded.
`OneIncidentEach`, unless a row could not be marked; `RowsSettle`: once nothing changes, the
rows say what metrics, maintenance, target and policy say, whoever wrote last;
`ViolationsReported`: a violation does not stay without the incident that the policy asks for.
One change is what a request in between amounts to, and a second only repeats it, as
every pass judges from nothing but what it reads and the flag of the row.

**documents**, 1.9 million states: two requests at a time import, restore, classify,
delete or save from OnlyOffice, up to version 3 of two texts. `VersionsKept`: while nothing is pruned, the current version was saved and every version has its file;
`RestoresTrue`: what a restore saves is what the version said when it was chosen, though a refused
save may have overwritten its file;
`OfficeSavesOnTop`: what comes back from an editor becomes the version after the one that was opened, or none.
Version 3 is the first with a predecessor to restore that is not the current one.

**approvals**, 1.7 million states: two requests edit the document, start and decide an
approval of two users, of one stage or one after the other; one version is kept
(`Limit` 1), so pruning happens. `ApprovalKept`: `Documents` implements `Approval`, every step of it is a step of
`Approval` or leaves it alone; `ApprovedMeansAsked`: a document is approved only through an approval that
everybody asked has given.

**task_board**, 525 thousand states: two requests (`MaxBegun`) that overlap in any way, over four
boards (`Boards`: three tasks in a column, two there and one in the subcolumn, an archived one between
two, an archived one in the subcolumn), with a second board to relocate to and positions up to 4. `OrderKept`: no request makes two
others change sides, whatever it has read; `PositionsDistinct` and the rest of `OrderKept`: they stay distinct, and
in strict order, up to the first request that commits although rows it is about have changed.
Two requests are the least that overlap, three tasks the least with two others beside the one that moves; four positions
leave room for one more. Longer histories are not run: the theorems hold for any number of requests, at once and
one after the other.

**recurring**, 260 thousand states: two schedulers and a request, every schedule type, both where the calendar
fits (daily, two weekdays, monthly on the 1st, quarterly on the 30th from March, yearly) and where it does not (one
weekday, monthly on the 31st, quarterly on the 31st and from October), from the evening of the 30th of January to the
31st, of the 29th of June to the 1st of July and of the 31st of December to the 2nd of January (`Starts`, `Ends`),
edits between two weekdays and monthly or of the flag (`Choices`), and one run by hand (`MaxHand`).
`OneTaskEach`; `NextIsFirst`: what the next run is and what it passes over, for every legal schedule:

| schedule | next run |
|---|---|
| daily, or two weekdays or more | the first time named |
| one weekday | the first time named; none, when computed on that day after its time |
| monthly | the day's date in a month; of the dates between, at most one is passed over, that of a month without the day |
| every 3, 6 or 12 months, whose months all have the day | the first date named that is not before the given month of the base's year |
| every 3, 6 or 12 months, one of them without the day | the day's date in some month, perhaps not a named one; at most one named date is passed over, besides those before the given month |

`NoneSkipped`: nothing that the schedule names before `next_run_at` is left out but what the
computation passes over itself, from a time that was made or given up; where it passes over nothing, everything is made or given up. A
scheduler that is late writes a next run that is too early, never too late. `CatchesUp`: a rule that stays active, and not on one
weekday only, gets a next run after now again and again. What matters of time is the comparison with the daily time of
the rule, hence half days; the turns are where months of different lengths, quarters and years meet.

**incidents**, 4.7 million states: two requests, one stage, versions up to 4 of the
incident and 3 of a stage. `NoLostUpdate`: what a version lets through replaces what its request has
read, though closing, deleting and restoring look at no version; `ClosedIsFinal`: also for requests that
read the incident while it was open; `DoneIsFinal`. Version 4 leaves room for a write of each
request between the reading and the writing of the other.

### Fairness

* `BackupPipeline`: weak fairness of each process's request. A goroutine that is
  runnable runs; PostgreSQL tools and statements end, with success or without.
  None for requests, clients, cancellations, retention or restarts.
* `AppJobs`: weak fairness of each loop (its ticker, its statements) and of
  starting a worker; none for cancellations, stops, crashes, creation.
* `CheckSlots`: weak fairness of a check's steps and of the end of a tick; strong
  fairness of leaving the loop, because Go's `select` chooses at random between
  a ticker and an ended context that are both ready, so that it cannot prefer the
  ticker for ever. None for starting, stopping, manual checks.
* `MonitorState`: weak fairness of checks, of the pass and of each answer to a request that
  has begun. `monitor_display` does not let the pass's own statements fail: a pass
  that fails for ever never shows anything.
* `SlaPeriods`: weak fairness of the evaluator, which the engine's loop runs every minute
  while the engine is enabled; failures are bounded, and everybody else may stop at any time.
* `Recurring`: weak fairness of listing (the ticker), strong fairness of the transaction
  and of the update: what is tried at every tick does not fail for ever.

## 4. What the code does otherwise

Texts of the repository that the model of the code contradicts, and limits of its
promises that came up while modelling. The named properties are defined in the modules
and are violated with the constants given; no run of the project repeats them.

* `BusyMeansRunning` (`BackupPipeline`; one process, `Faults` {"cancel"}): "Another backup operation is already running", though none is.
  `failRun` uses the request's context; when that is why the backup failed the row stays
  active and refuses all later operations (`core/backups/service.go:375`).
* `RetentionKeeps` (`Keep` 2, three files, artifacts and runs, no clients, no faults):
  retention keeps "at least `keep_last_successful` backups" (`docs/eng/backups.md`). An artifact that was ever restored loses its file but not its
  row (foreign key), stays listed, and counts as one to keep (`service_auto.go:90`).
* `MaintenanceCoversRestore` (no faults): in a restore "regular APIs are blocked" and "maintenance mode is turned off after restore completion"
  (`docs/eng/backups.md`). The flag is in the database being replaced: from `pg_restore` through the
  migrations it is off (`service_restore.go:257`).
* `JobsComplete` (`AppJobs`; one process, two jobs, `MaxSize` 2, `Faults` {"stop"}):
  actions "run as background jobs, and the UI polls progress until completion"
  (`docs/eng/compatibility.md:13`). A job whose worker is stopped stays running;
  no loop looks at running jobs (`core/appjobs/worker.go:107`).
* `LimitRespected` (`CheckSlots`; `Limits` {1}, one channel, three monitors and checks): `api/metrics_monitoring.go:34` speaks of a "max concurrent checks limit". A check that began before the first tick gives back a token it
  never sent, and the limit is exceeded from then on (`core/monitoring/engine.go:397`).
* `RecoveryCloses` (`MonitorState`; services up and down, no requests, no failures,
  `CloseOnUp`): the pass writes back a row it read before a check recorded DOWN; the
  recovery is not seen and the incident stays open (`core/monitoring/engine.go:646`).
* `EvaluatorJudges` (`SlaPeriods`, as in its run): `docs/eng/api.md:140` says that closed periods are
  calculated "by background evaluator jobs, not by the UI save action". Saving a monitor with
  another target judges all its closed periods again, those included that the evaluator
  no longer looks at, and without an incident for what becomes a violation.
* `ViolationsStand` (`SlaPeriods`, as in its run): metrics are kept for 30 days at first, and last
  month is judged again until the end of this one. Its row loses its first days and comes to say
  "unknown", once the share of days left is below the policy's coverage.
* `CurrentAdvances` (`Documents`; edits and classifications, `Limit` 0, two versions): `docs_onlyoffice.go` takes it that a document only advances ("has already advanced to a newer version"). A
  request that read the document before a version was saved writes the old number back
  (`UpdateDocument` writes all columns), and the next save is refused, its number being taken.
* That the next run is the first time that the schedule names (`Named`) is not true of every schedule that
  `NormalizeScheduleConfig` lets in (`tasks/recurring.go:34-83`). `NextIsFirst` says how far it is; without its exceptions TLC finds
  it violated by each of these, in the run's bounds:
  * *One weekday*, a legal rule in `tests/tasks_recurring_test.go:26`: `nextWeekly` (`tasks/recurring.go:154`) looks at the base's
    day and the six after it. Computed from its own occurrence the rule has no next run; it stays due for ever, its
    task is never made, and twenty of them fill `MaxJobsPerTick` (which is not in the model), so that no other rule is served.
  * *A day that months lack*: `time.AddDate` (`tasks/recurring.go:196`) turns the 31st of a month without one into the 1st of the month
    after. A monthly rule on the 31st goes from the 31st of January to the 31st of March, though the 28th of February is what the same
    rule means in `tests/tasks_recurring_test.go:35`. A quarterly one on the 31st from January goes to the 31st of
    May, then August and December.
  * *Intervals from late in the year*: `nextByInterval` counts from the given month of the base's year (`tasks/recurring.go:188`), so
    "every three months, from October" runs in October and, from then, in January; from January on it waits
    for October again. Quarterly rules with a month after March and semiannual ones with a month after June are hit.

What else the models allow and no property denies:

* *Documents.* Two saves at once write the same file before one of the rows is refused;
  pruning at the same time as a save may keep one version more than the limit; a decision
  recorded late reopens an approval that was approved; two last approvals of a stage at once
  may each see the other missing, and the stage stays in review; a stage without
  approvers never ends; restoring a version keeps the status "approved"; the number of a
  pruned version may be used again when an old row came back.
* *Tasks.* Creating a task at a position that is taken, moving an archived task within its board, and
  deleting a subcolumn put two tasks at one position (`clean`). A subcolumn that is
  switched off keeps its tasks. A task archived from a subcolumn cannot be restored to another
  column without naming one. Two requests that overlap may put two tasks at one position, since each shifts by the
  position it has read: of t1, t2, t3 at 1, 2, 3 one request reads t2 at 2 (tasks.go:41), another moves t3 to
  1 and commits, and the first moves t2 to 1 and shifts those in [1, 2) only, which leaves t1 and t3 both at 2;
  a restore, or two tasks created at the same time with the same MAX(position) + 1 (task_create.go:37-49), can do the like. In
  the model this is the step at which a `stale` request commits and `clean` ends: without that condition TLC
  finds this history.
* *Recurring.* A `next_run_at` computed from the schedule before an edit may be written after it
  (`since` records it).
* *Incidents.* The handlers of stages look at the incident and then write: a stage may be added,
  filled or removed after the incident was closed. A stage whose content could not be inserted has none. The
  outcome may be overwritten between the checks of closing and the closing.

## 5. What is proved

TLAPS proves the following for all values of the constants that satisfy the
assumptions of the modules (finite sets of clients and checks, `Worker \in Procs`,
natural bounds, distinct model values for "nobody"). Each theorem is
`Spec => []P` or `Spec => [][A]_vars`, from `Init => Inv`, `Inv /\ [Next]_vars => Inv'`, `Inv => P`.

**BackupPipelineProofs**: `TypeCorrect`, `LockCorrect`, `DownloadsCorrect`, `DeleteSafe`,
`MaintenanceEnds`, `RowsOwned`.
The invariant `IInv` joins to them two shapes: `TaskShape` (which kind of request can
be at a step, and that it has an artifact and a file where it uses them) and
`DlShape` (a download in progress has an artifact). `DeleteSafe` needs
`DownloadsCounted` to turn "the counter is 0" into "no download", and `LockMatchesTask` to
say that the lock's name is "delete" in the interval in which new downloads are refused.
`MaintenanceEnds` assumes that no process dies (`"crash" \notin Faults`), as `backup` does; steps may fail and
contexts end. It rests on `RestoreShape` (no dry run is at a step that replaces the database) and goes
request by request: a step leaves the mode on only where its own request answers for it
(`MaintStep`), which is why the number of processes does not matter. `RowsOwned` assumes
besides that no context ends before its request (`"cancel"`): `failRun` uses that context, and "What the code does
otherwise" shows what becomes of its row. Both hold for any number of processes on one database,
two restores at once included. Rows change hands there in one way only: a dump comes in with rows of the past, and
then there is a restore that resets all of them (`Reloaded`), or the tables are gone.

**AppJobsProofs**: `TypeCorrect`, `RunsOnce`, `FinishedIsComplete`, `JobImplemented`, `CancelIsPrompt`,
`CanceledStays`, `ProgressCorrect`. `IInv` adds `TableShape` (a job that is queued has had no
module; ids beyond the last do not exist) and `LoopsShape` (a working loop's
job is running or canceled, its index agrees with the modules applied, and a live
loop that is past the look at the status has seen no cancellation).
The refinement needs no more than `IInv`: a claim finds the job held by nobody, because the job of a
working loop is not queued; who ends a job was the only one to hold it (`OneRunner`, `HeldBy`); and the outcome
that a loop carries agrees with the table (`LoopsShape`). `Watched` is any job, so the theorem is about all of them.
`CanceledStays` (a job canceled before it was claimed stays so) is an action property from
the same invariant; `ProgressCorrect` (the progress never exceeds the share done) needs a
lemma about integer division. No run checks these two; `CancelIsPrompt` follows from `JobImplemented` too, and
stands on its own for what it says.

**EngineProofs**, of `CheckSlots`: `TypeCorrect`, `MarksCorrect`, `LoopCorrect`, `TokensCorrect`.
`OneCheckPerMonitor` is inductive together with `SlotsMatchChecks` (`inFlight` is exactly the
monitors being checked; `MarkInv`). The type
contains that no channel holds fewer than no tokens, and capacity is not lost
because every token of a channel has an owner of its own: `TokenInv` (`TokenShape`: no channel
after the current one has tokens or is known to a check; `TokensOwned`), with lemmas about the cardinality of the holders.

**EngineProofs**, of `SlaPeriods`: `SlaTypeCorrect`, `IncidentPerPeriod`. For any calendar whose kinds of
periods have two starts before the first day, and any number of changes and failures. The type contains that a row is marked only
when an incident was opened for it; it needs `PassHolds` (what the evaluator has read is there when it
is used), that a computed day lies in the calendar (`PeriodInside`) and that a rounded share of a
hundred is one (`PercentIs`). `SlaIncidentInv` makes the incident unique: when the
pass comes to open one, the row is unmarked still, as nobody else marks it and `SyncSLAPeriodTarget` leaves the flag; and an incident
whose row is unmarked belongs to the pass that is about to mark it, or the marking has failed.

**MonitorStateProofs**: `TypeCorrect`, `NoticesCorrect`, `IncidentCorrect`. The row
appears in none of the invariants, and this is the point: passes and requests may write any row.
`NoticeInv` says that while nothing is lost, what is recorded, or is about to be
recorded by the check in progress, is what was sent last; `IncidentInv` that a check about to
open an incident has seen none open, while no search failed.

**DocumentsProofs**: `TypeCorrect`, `ApprovalImplemented`, `ApprovedByAsked`, `VersionsStay`,
`RestoresAreTrue`, `OfficeOnTop`. The
first invariant, `Types`, says of every request what its next step needs of its fields.
`Approved` joins to it that a decision in progress carries an outcome that `given` justifies
(`Decided`), that approvals only ever hold what was given, and that an approved document has an approval that is complete; it
is what the refinement needs: `StepImplements` shows that under `Approved` every step of
`Documents` is a step of `Approval` or a stutter, for any one approval, stages and approvers.
`Saving` is the invariant for versions without pruning: what a request has read as current was saved, the file of
the number it is about to insert is there, and directories are removed of deleted documents only.
The last two are about steps (`Spec => [][A]_vars`): `Honours` says for each step what it does for both, and `OfficeHolds`
that a callback's copy of the row still has the version its editor opened when it inserts its own, because
the copy it compared is the one it saves from.

**TaskBoardProofs**: `TypeCorrect`, `PositionsApart`, `OrderStays`, for any number of requests, tasks and
places. `Safe` is inductive and needs no condition: no row is locked by two (`Exclusive`), and the rows a request has
written are within one position of the committed ones, no two of them about (`Kept`, `Level`); `Left` says which shifts are
left, because only "once" or "those after up, then those from one on down" keeps that. From it follow the type and the
half of `OrderKept` that holds whatever overlaps. `Sound` adds what is true while the board is clean: a
request near which nothing has changed has a copy that is the row (`Apt`), has selected exactly the rows that match, and
has the others in their order, with its position free when it is done (`Going`); `AptFrame` is why the commits of others leave that
alone, `UpdateApt` why its own shifts do.

**RecurringProofs**: `OneTask`, `TypeCorrect`, `NextRunIsFirst`, `NothingSkipped`, for any calendar of months
of 28 to 31 days. `OneTask`: the tasks are counted with the instances, so finiteness of `instances`
joins the property. `TypeCorrect` needs `Within`: time stays two years before the calendar's end, and so
what is computed from it stays inside. That every day has a month is an induction over the months; it is done
as the principle of the least number (`LeastNumber`, from the well-founded `<`), which has no operator for a parameter.
Both are about every legal schedule. `NextRunIsFirst` rests on `Lands`, shown of each of the
calendar's operators: for intervals every date that the loop tries is one with at most one named
date behind it (`Candidate`), since two named dates are an interval apart and `AddMonths` goes one month too far at
most. `NothingSkipped` adds `SkipInv`: what lies between `since` and the next run of an active rule has been made, or is passed over
from a time made or given up (`Made`), and a run in progress holds a next run computed from the occurrence it
is to make (`RunHolds`), so that writing it late is writing it too early.

**IncidentsProofs**: `TypeCorrect`, `NoUpdateLost`, `ClosedStays`, `DoneStays`. `CopyInv`: a request
that has read the incident has a copy of the row as it is, or the row's version is beyond the one it
names; it is inductive because every write counts the version on, the ones that name no
version included. `NameInv` says the same of stages.

### Only model-checked

Liveness (`PipelineFrees`, `ServedJobsEnd`, `SlotFrees`, `LoopEnds`, `DisplaySettles`,
`RowsSettle`, `ViolationsReported`, `CatchesUp`): the prover has no ENABLED. Every other property of a run
is a theorem, with the hypotheses named above: `MaintenanceEnds` and `RowsOwned` about faults. The bounds on ids,
files and failures exist in the theorems too, but with any value.

## 6. What is not modelled

* Ciphers, tar, checksums, rendering, SQL text: data transformations without
  state; in the models they are steps that may fail.
* A database that answers but refuses one statement among several, except where
  a module says so (`MonitorState`, `SlaPeriods`, `Recurring`, `Documents`).
* What each application module deletes in its reset: one step of `AppJobs`.
* Attempts, retries, jitter, due times, suppression, quiet hours, the calendar of maintenance windows: any result,
  any choice of due checks, a window on any day, and a notification that is due may or may not be sent.
* The start of automatic backups and integrity tests: comparisons of times in one goroutine.
* Blocks between tasks, spaces, comments, files and access lists of tasks; folders, templates, conversion and access lists of documents; people,
  links, artifacts, attachments and the timeline of incidents: tables beside the ones modelled, which one request writes.
* Authentication, sessions, accounts and access control: who may do what. Every request of the models is
  one that is allowed.
* Registries, reports, dashboard, the HTTP surface, network guard, configuration, the user interface,
  packaging: one row per request, pure functions, or I/O.
* Log and audit rows and listings.

## 7. The plan

What would add most, in this order:

1. Two requests that add blocks between tasks: each looks for a cycle and then inserts
   (`tasks/http/handlers_blocks.go:171`), so that two at once may close one.
2. Two engines over one monitor: `MonitorState` with the checks of `CheckSlots` in place of its
   assumption of one check at a time.
3. The due dates of backups as operators: a fresh installation's `lastRun` is seeded with now at every
   tick (`core/backups/scheduler.go:114`), and a backup at the end of a month that is missed on
   that day is left to the next month (`schedule_policy.go`).
4. An abstract specification for `CheckSlots`, a set of slots, as a property of its run and as a theorem
   about steps.
