# carfeedback: TLA+ models and proofs

carfeedback collects owner reviews ("koubei") of car models from two platforms
(autohome, dongchedi), merges them into a corpus and publishes reports. A FastAPI
service accepts tasks, Temporal workflows drive them on two worker replicas,
Postgres holds the state everybody shares, and one collector service per platform
runs the crawls with a limited pool of OpenClaw agents. Beside it the pipeline that
came first, with RQ workers, still serves jobs, comparisons and time reports. This
directory models where these parts meet: who may crawl what with which agent, what a
task, a job or a comparison says about itself when everything around it can be
cancelled, retried, restarted or lost, and whether the files behind it are there.

## 1. Inventory

| Component | State | Operations | Hard behaviour | Correct when |
|---|---|---|---|---|
| Run store (`worker_app/task_store.py`) | `collection_runs`, `collection_run_tasks` | create or join, claim, start, wait, complete, fail, cancel and detach | transactions of many workers on one row; partial unique indexes as locks; a read without row lock | one active run per (platform, query_key, series_id), one running run per agent, final is final |
| Collector service (`collector_service/main.py`) | in-memory run table, futures, thread pool | POST /runs, GET, cancel, execute | handler against pool thread; restart forgets all | nothing accepted is lost, answers stable |
| Collection wait (`temporal_activities.py`) | what an activity has loaded and not yet written | claim, POST, poll, expire, report | two tasks drive one run; stale reads; deadline; lost calls; worker crash | every wait ends, no agent leaks |
| Single-vehicle task (`temporal_workflows.py`, API `routes/tasks.py`) | `tasks`, `task_vehicles`, `task_events` | create, cancel, retry, pause; publish, degrade, upgrade, fail | API and workflow overwrite each other; start refused or its answer lost; crash inside an activity | status tells the result, upgrade announced |
| Comparison task (`temporal_workflows.py`, `temporal_activities.py`) | parent and child tasks, the published report | ensure child, wait, exclude, compare, regenerate | children outlive or lag behind the parent; late upgrade; repeated activities | at least two usable vehicles, one child each, better results published |
| Legacy RQ pipeline (`worker_jobs.py`, `jobs.py`, `job_store.py`, `stages.py`, `runner.py`) | `jobs`, stage runs, artifacts, `comparison_jobs`, `job_time_reports`, directories | run stages, collectors in parallel, compare, report on a time range | one collector fails; RQ timeouts as exceptions; Redis answers lost; workers die | what shows as completed has its files; nothing stays half done |
| Cleanup (`cleanup.py`) | expired jobs and comparisons | delete files, then rows | runs beside everything that reads the files; rollback | only what is over and old goes |
| OpenClaw runner (`openclaw_runner.py`, `real_runner.py`) | the agent's own task table, expected files | call the gateway, poll files and table, validate | several reads that are not one; leftovers and agents of earlier attempts; lost answers | an attempt is blamed only for tasks younger than its acceptance, partial crawls refused |
| Hermes reports (`hermes_outputs.py`) | batches, calls, six files, the process's timer | cut, analyse in threads, join, write, fall back | calls, files and scripts fail anywhere; two timeouts on one timer | every comment is in a batch, the result names its true source |
| Dispatch planner (`task_scheduler.py`) | none | pure | ordering rules; no production caller yet | order respects priority and capacity |
| Corpus (`corpus.py`, `backfill.py`) | `vehicle_corpus` rows, files | upsert by dedupe key, export | repeated imports | import is idempotent |
| Postprocessing, comparison outputs | files | text generation | none that is control | - |
| API views and services, web, ops | - | queries and views | - | - |

How they interact: the API commits a task row and starts a workflow by id. The
workflow calls activities; these write Postgres and call the collector over HTTP.
Tasks that want the same series share one row of `collection_runs`, and each
of them drives it. Nothing else connects two tasks. The user's cancel, retry and
pause are writes to the task row; no code sends the workflow its cancel signal. A
comparison starts a child task for each vehicle and waits for it twice: for a result,
and after its own publication for the end of the child's workflow. The collector
service's crawls and the RQ pipeline's collecting stages both go through the OpenClaw
runner. The RQ pipeline shares with the tasks the corpus and the report generator; the
cleanup works on jobs only.

The hazards found while reading are in `PROJECT.json`, each at its line.

## 2. Modules

`Lease` - the abstract promise: resources, each free or held by one owner, and
owners that retire, give everything back and never hold anything again.

`RunStore` - the two tables. `run[r]` is a row, `link` the join table,
`cancelTxn[t]` what an open cancellation has read. Every other operation is one
transaction and one action; `cancel_task_and_detach_runs` is `CancelRead`, then
`CancelCommit` or `CancelAbort`, because its SELECT takes no lock. The store calls
are made with any arguments at any time, so what holds here does not depend on the
discipline of the callers. `LanesSpec` and `SlotsSpec` say that the table is a
`Lease` twice: runs own agents, runs own identities.

`CollectorService` - `svc[r]` is the registry entry with the fingerprint's
variable fields, `future[r]` the future and its thread, `queue[p]` the executor's
queue. `Register` and `Enqueue` are the two halves of POST /runs, which releases
the lock in between; `Begin`, `FinishWithResult`, `FinishWithError` are
`_execute_run`'s critical sections.

`CollectionWait` - composes both: it EXTENDS RunStore and instantiates
CollectorService, and adds for each task the position of its workflow
(`wait[t]`) and for each task and run the HTTP call under way (`call[t][r]`). Reads
and writes of one task are separate steps, so every stale read is there. `LoadRun`
reads one run (one transaction each in `load_collection_runs`) and keeps those the
stage acts on. Faults are switched on by the constant `Faults`.

`SingleVehicleTask` - the task row, its vehicle row, its events, the API handler
that is starting a workflow, and one workflow execution at a time (Temporal refuses
a second one with the same id while the first runs). The collection is one step
with any result; `CollectionWait` is about how that result comes about.

`TaskOutcome` - the abstract promise of a single-vehicle task that no user touches:
created once, one workflow, one result, which may only improve. `SingleVehicleTask`
implements it (`KeepsItsOutcome`); `ComparisonTask` builds on it.

`ComparisonTask` - `run_comparison_task` and its activities. `wf.at` walks over the
vehicles in the workflow's four loops (ensure, start, wait, and finish after the
publication); `kid` is TaskOutcome's state of the children, `veh` the parent's
vehicle rows, `report` the comparison published last. An activity is one step
(`Return` ends it, or a crash has it repeated on what it left).

`JobPipeline` - one job of the RQ pipeline, from `create_job` to its expiry.
`wk.at` walks over the stages of `build_stage_commands`; an action is one event
written to the tables or one run of commands. `files` are directories, `saved` the rows
of `job_artifacts`, `cleaner` what an open cleanup has already deleted.

`JobResults` - EXTENDS JobPipeline with what is made of jobs: a comparison that
reuses the job's result and collects others (`cw` is its worker), or a time report in
the job's directory (`rw`); the cleanup's one transaction for all of it.

`OpenClawStage` - attempts at one collecting stage. `rn.pc` is the position in the
polling loop, whose reads (`CheckFiles`, `CheckOwnTask`, `CheckRelated`,
`CheckCounts`) are separate steps; `row` is the agent's own table, by attempt and by
task or subtask; `file` says whose file lies at each expected path. The code knows no
attempts: it takes the rows whose text names the paths and whose `created_at` is not before
the `acceptedAt` of the answer. Of time the model therefore keeps `late`, the tasks
created since the latest acceptance, and of the texts `quiet`, the attempts whose subtask
does not name the paths; `Related` reads only these. An attempt's own row may be created
just before its acceptance, or appear long after it (`List`).

`HermesReport` - one report. `batches` are sequences of indices into the comments;
`work[b]` is the call of a batch; `timer` is the process's one real-time timer and
`outer` what the join has put aside of it; `file` says who has written each output.

`RunStoreProofs`, `CollectorServiceProofs`, `CollectionWaitProofs`, `TaskProofs`,
`ComparisonProofs`, `JobProofs`, `OpenClawProofs`, `HermesProofs` - the theorems.
`MC*` - instances for TLC.

Operators named `<definition>_<Something>` just before a definition are variants
with a plausible bug. They are used in no specification and show, by replacing the
definition, that each property can fail.

## 3. What the runs show

Properties that hold:

| Run | Question | Instance |
|---|---|---|
| `MCRunStore` | are `agent_id` and the active identity locks under any interleaving of transactions, with sharing, joining and cancelling, and are final runs final? | 2 tasks, 2 runs, 2 agents, 2 identities |
| `MCCollectorService` | what does a poller see of the service, with cancels and restarts? | 2 runs, 1 platform, 1 thread |
| `MCWaitShared` | with every fault enabled: does a finished task leave an active run, an agent leak, two tasks submit? | 2 tasks, 1 series, 1 agent, 1 crash |
| `MCWaitOneAgent` | does each of two tasks get its turn on one agent, with one crawl at a time, and report how its crawl ended? | 2 tasks, 2 series, 1 agent, 1 crash |
| `MCWaitNoPool` | without an agent pool (`start_collection_run`): do waits end under network errors, restarts and a crash without the deadline's help? | 2 tasks, 2 series, 1 crash |
| `MCTaskAlone` | is a task that the API leaves alone a `TaskOutcome`, and does its row show the workflow's result? | crash, signal |
| `MCTaskUser` | what survives cancel, pause and retry at any moment, and refused or lost starts? | 2 executions |
| `MCComparison` | one child per vehicle, inserted and started once, a report of usable vehicles that accounts for all, better results published, every execution ends? | 3 vehicles, 2 executions, 1 crash per activity, timeouts, cancel, retry |
| `MCJobs` | is what a job, a comparison or a time report shows backed by files, are stage runs settled, does queued work end? | 1 job, then 1 comparison of 3 vehicles or 1 time report; all faults, cleanup |
| `MCOpenClaw` | whose tasks is an attempt blamed for, does a partial crawl pass, does every attempt that the gateway answered end? | 2 attempts; all faults, in two sets |
| `MCHermes` | do batches partition the comments, is the result's source true, does the worker's deadline survive the join? | 0 to 4 comments of 2 sizes, 2 attempts, 2 threads |

`MCTaskCancel` ends in a counterexample, listed under `findings`: the API documents
cancelled as a final status, and the workflow of a cancelled task goes on and
overwrites it.

Further configurations, to be run by hand, end in a counterexample as well; each
checks one property that a document or a test of the repository suggests and the code
does not have:

| Configuration | Property | What happens |
|---|---|---|
| `MCWaitCancelSpares.cfg` | `CancelSparesSharers` | a task joins between the SELECT and the UPDATE of a cancellation and its run is cancelled (`tests/test_single_vehicle_workflow.py:681`: "test_cancellation_detaches_task_and_cancels_run_only_when_no_task_remains") |
| `MCWaitDeadline.cfg` | `OneCrawlPerAgent` | the deadline frees an agent that is still crawling, and a second crawl starts on it (production-rebuild-design.md:154: "A platform run may start only when an agent from that platform pool is available.") |
| `MCWaitAgree.cfg` | `SharersAgree` | a poll between claim and POST gets a 404: one task reports failure, the other success of the same run |
| `MCTaskPause.cfg` | `PauseStopsRetry` | a pause set before the last stage is overwritten, and the retry is scheduled (service-flow-and-extension.md:11) |

`OneCrawlPerAgent` holds in `MCWaitOneAgent`, where no deadline strikes:
`MCWaitDeadline.cfg` shows which disturbance breaks it.

More disagreements of the same kind have no configuration of their own:

* Two cancellations at once each write back a list that contains the other task, so
  that a queued run stays active with no task linked to it. It holds no agent, and the
  next task of its identity joins it.
* Without a pool, `start_collection_run` returns a running run to a second sharer,
  which POSTs it too; the fingerprint contains the task id, so this is a 409 that fails
  the run. `OneSubmitter` therefore holds on platforms with a pool only.
* `POST /runs/{id}/cancel` of a run that still waits for a thread cancels its future;
  the run stays `cancel_requested` for ever, which is why `QueuedRunEnds` excepts
  that state. The worker's client has the call but nothing uses it.
* A manual retry of a task whose workflow still runs marks it failed, also if
  that workflow has published. `KeepsItsOutcome` therefore holds without API calls only.
* A comparison reads a child again when the child's workflow is over and marks its
  vehicle completed, even one that the report excludes; a retry of the comparison
  finds the failed children of its first execution and waits for them in vain, which is
  why `UpgradeIsPublished` speaks of the first execution.
* If both collectors of a job fail, only the first one's stage run is closed; the
  other stays running. `RunsAreSettled` says that this is the only one.
* A comparison whose worker dies, or whose report raises, stays at its last stage for
  ever, and a time report whose worker is faster than the commit of its row stays
  queued. `QueuedWorkEnds` excepts both.
* The OpenClaw runner looks for the files before it reads the agent's table: a crawl
  that ends in between is reported as having left no files although they are there;
  and a later attempt may be satisfied by an earlier one's leftovers.
* It tells attempts apart by `created_at >= acceptedAt` only. A task that an earlier
  attempt's agent starts after the later attempt was accepted (a stray) is taken for
  the later one's: its failure fails the later attempt, and its end may give it up as
  without files while its own task works. The same end comes without a stray if the
  attempt's own row is older than `acceptedAt` or its subtask's text does not name the
  paths. `FailureIsOwn` names these exceptions and says that there are no others; TLC
  finds a counterexample if any of them is left out.
* An exception of a report before its `try` (the comments cannot be read or written
  down) fails a stage without a look at the rules. The worker's timeout between the two
  lines that take the timer for the join is raised as the hard timeout, which nothing
  catches there.
* The timeout of an RQ worker is an exception like any other: inside a batch, inside the
  join, or inside the loop over the vehicles of a comparison it counts as a failure
  of just that, and the work goes on without a deadline.

Bounds. Races on a shared run or agent need two tasks and two runs; a third adds
no new kind of step, since tasks interact only through rows of the store. One
agent is the contended case, and `MaxWorkers` is 1 where runs queue for a thread
and 2 (the default) where two crawls at once must be possible. `MaxCrashes = 1`: a
crash returns a task to a state it was in before, so a second one is the first
one again. `MaxRuns = 2` executions: the first decides what the second finds
(degraded, upgraded, failed). One API handler starts a workflow at a time. Three
vehicles are the fewest of which one may be missing in a report; `Fileless = {1}` lets
the result of one lack its files. `JobResults` makes one comparison or one report of an
accepted job once it is over (bounds in `JobIsOver`, `NothingMade`), and
the first vehicle of the comparison is the one that reuses the job; children are an
outcome, not a pipeline. Two attempts at a stage are an earlier and a later one; `FaultSets`, of which one holds in
each behaviour, keeps the faults of the files apart from those of the subtasks, which
have nothing in common but the end of a task (the theorems allow all at once). Four
comments with `Budget = 2` and `Placeholder = 2` give one to four batches, so that the
number of batches passes the placeholder and a batch must be halved; sizes 1 and 2 give
comments that do not fit a prompt with another. `MCRunStore` uses symmetry on
all ids and `MCWaitShared` on run ids (safety only). Deadlock is not checked where all
work ends; it is checked for the store and the service.

Fairness. `WaitFairness`: each task's next step (Temporal repeats an activity
until it succeeds), each HTTP call (the client has a timeout, so a call is
answered or fails), and the collector's threads; that a crawl ends is an assumption: the
artifact wait has a deadline, the gateway's call a timeout for each frame only. Faults
and cancel signals are never forced. A task that polls for a busy agent is always able to take its next step, so
weak fairness is enough. `TaskSpec` and `CmpSpec` assume the same of workflows, and of
an API handler that has begun, which a crash of the API process would break; the
children's progress is `TaskMovesOn`. `SvcFairness` is that of the pool and of request
handlers. `ResSpec`: weak fairness of the three workers, each a process that runs on
unless it dies (a step of its own); the API and the cleanup owe nothing. `ClawSpec`:
weak fairness of the runner's polls and strong fairness of `TimeOut`, because the
deadline is only looked at between two rounds of the loop; the agent may stop anywhere,
and so may the gateway: `_request` starts its timeout again with every frame, also of
other business, so that `Accept` has no fairness and `AttemptEnds` begins with its answer.
`HermesSpec`: weak fairness of the report's own steps. The scripts and the command line
have timeouts, but that of an API call is one for each read of the answer: `ReportEnds`
assumes that no server goes on sending for ever. (The join in the API mode has the hard
timeout besides, in a main thread.)

## 4. What is proved

For any sets of tasks, runs, identities and agents (`RunStoreProofs`, assuming only
`NullsAreNoValues`: NULL is not an id):

* `TypeCorrect`: the tables are well typed.
* `StoreIsAlwaysExclusive`: the invariant StoreIsExclusive, with its parts
  `ActiveIdentityUnique`, `AgentExclusive` and `AgentRecorded`.
* `FinalIsFinal`: no step brings a run back from a final status.
* `ImplementsLanes`, `ImplementsSlots`: RunStore implements `Lease` on agents and on
  identities.

The argument: `EveryStepHasAKind` reduces all transactions to three effects -
some runs end (or nothing relevant changes), one run claims a free agent, one run is
created for a free identity. `StoreIsExclusive`, the conjunction of OneActiveRunPerKey,
OneRunPerAgent and RunningHasAgent, is inductive with the type invariant;
`RunningHasAgent` is what makes it so, as a row with a NULL agent escapes the partial
index. Each kind of step then maps to `Retire` or `Acquire` of each lease or
leaves it unchanged. That an index rejects a second row is a guard of the action: the
proof is that no other operation, and no stale cancellation, gets around it.

What the abstract lease implies therefore holds of the tables (`AgentsAreGivenBack`,
`IdentitiesAreGivenBack`): nothing is held by an ended run, no run holds two agents or
two identities, and each is free between two runs that have it.

For any number of attempts and any faults (`OpenClawProofs`, assuming
`StageAssumption`): `ClawTypeCorrect`, `FailureIsAlwaysOwn`, `SuccessIsAlwaysWhole`.
They are inductive together with `NotBegun` (no task of an attempt exists before the
gateway has heard of it: so a related task of an attempt with a time of acceptance is
either its own or a stray, `RelatedIsOwn`), `TasksInOrder` and `SubtaskIsLate` (a subtask
is started from a listed task, and the latest attempt's is younger than its acceptance),
`NoNewTask` (an attempt given up without a stray starts no subtask any more, without
which what is said of it would not last), `OpenWhileRunning` (an attempt under way has no
result yet) and `FilesAreThere` (files do not disappear between the look for them and the
validation). Every step of the runner either goes on (`GoOn`) or ends with reasons for its
result (`EndKeeps`); `NoneSeenAtWork` has those of giving up. Of the agent's steps those on
files are one lemma, and those on tasks are reduced to what they guarantee (`TaskShape`,
`GivenUp`).

For any comments, budget, number of attempts and of threads (`HermesProofs`):
`DeadlineIsAlwaysKept`, with an invariant that says who has the worker's deadline in
each phase (`ClockInv`), and `ResultIsAlwaysHonest`, with one that follows each file
and each batch to its author (`HonestInv`). Neither needs to know what is in a batch.

What the cuts compute is a fold over the comments, and that it is right for any number of
them needs induction. The library's theorems of induction take a predicate, which the
provers cannot instantiate; `UpTo` is the same for a set of numbers, from
`NatLessThanWellFounded` by way of a least counterexample (`LeastOf`). With it
`FoldExists` says that the recursive function of a fold is what it is defined to be, so that
a fold has a value at all, and `FirstCutCuts` goes through it comment by comment.
`CutInto(bs, c, n)` is the fact that goes along: batch b has the comments after `c[b - 1]`
up to `c[b]`, in order. `AddFact` moves the last end or adds one, `Halve` puts one between
two (`AddFactCuts`, `HalveCuts`), and batches so cut are, one after the other, all comments
(`FlattenCut`). `CutsInv` adds that no batch is left too big when the calls begin; it is
inductive together with `ClockInv`, because the join takes over the worker's timer. From
it `ReportIsTyped`, `CommentsArePartitioned`, and `BatchesAreAlwaysFew`: as each end is
behind the one before, there are never more batches than comments, so that the cutting ends.

For any tasks, platforms, agent pools and faults (`CollectionWaitProofs`, assuming
`WaitAssumption`):

* `WaitImplementsStore`: CollectionWait implements RunStore - each of its steps is one
  transaction of the store, or leaves the tables alone - and with it
  `WorkflowsKeepTheStoreExclusive` and `WorkflowsKeepFinalRunsFinal`, which carry the
  store's theorems over to the workflows. A step is a transaction only if its arguments
  exist: `WaitInv` says that what a task has read, however old, still names rows of the
  table, since no row is ever deleted (`KnownStays`). `FirstFreeIsAgent` needs that a
  set of numbers has a least one.
* `WaitUsesTheServices`: each step is one of the collector service's or leaves it alone,
  so that `ServicesLoseNoRun`, and `WaitIsTyped` of everything.
* `EndedTasksLeaveNoRun` and `RunningRunsAreDriven`. Their invariant is `WaitIInv`: the
  tables are exclusive; `TasksFollow` says that the active runs a task is linked to are
  those it has or is just creating, that what it has not put on its list has ended (and
  stays so: `RowsGoOn`), and that a cancellation has read all its links; `CallsFollow`
  that calls and services know only runs that were started. `RunningRunIsDriven` is a
  part of the invariant itself: who starts to drive a run is settled by the claim, and a
  task stops watching only what has ended.
* `PooledRunsHaveOneSubmitter` and `OwnRunsHaveOneSubmitter`: a run has one submitter
  where every platform has a pool (`Pooled`: only a claim leads to a POST, and no
  conflict does), or where no two tasks want the same series (`OwnKeys`). One of the two is
  necessary, as section 3 explains: without a pool, a sharer submits a run that already
  runs.
* `CrawlsDoNotShareAgents`, for tasks with series of their own which neither a deadline
  nor a broken connection disturbs (`OwnKeys`, `Undisturbed`), with any pools, crashes,
  restarts and cancellations: a crawl holds the agent that the table gave its run
  (`CrawlInv`), and the table gives an agent to one run. `MCWaitDeadline.cfg` is the
  counterexample without `Undisturbed`.
* `ReportsAreTheCollectors`, if in addition no service restarts, because a service that
  has forgotten a run answers nothing that could be reported of it; and with sharing it is
  false (`MCWaitAgree.cfg`). `ResultInv` relates each result in the table to the
  service's, `AllReport` the report of a workflow to the table.

These conditions hold in the run `MCWaitOneAgent`, which checks the last two properties.

For any platforms and any number of executions (`TaskProofs`, assuming `TaskAssumption`):

* `TaskIsTyped`, and `CompletedIsAlwaysComplete` under any faults and whatever the user
  does: `FullInv` says that an execution on its way to publish a full result has all
  platforms, and `WhoCompletes` that nothing else makes a row completed.
* `UpgradesAreAlwaysHonest` assumes that no worker dies: between the row and its event
  the step is `upgrade_event` (`HonestInv`), and an activity repeated from there finds
  the row upgraded already and never records the event.
* `TaskKeepsItsOutcome`: a task that no user touches, and whose start is answered
  (`Alone`), implements `TaskOutcome`, with crashes and cancel signals. `AloneInv` says
  what the row shows at each step of the only execution; every step then starts, settles
  or ends the task, or changes nothing that its parent sees. Without `Alone` it is false:
  a lost answer marks a task failed whose workflow runs.

For any runs, platforms and sizes of the thread pool (`CollectorServiceProofs`):
`NoRunIsEverLost` and `TerminalIsAlwaysStable`. The invariant (`RunInv`) ties a run's state
to where its future is; in particular a pending future is in the queue of the run's
own platform, so that a thread will come to it.

For any number of vehicles, executions and repetitions (`ComparisonProofs`, assuming
`ComparisonAssumption`): `CmpTypeCorrect`, `OneChildPerVehicleAlways`,
`ReportIsAlwaysUsable`. `WorkInv` says what the workflow knows at each step: every
vehicle behind it is either available, with a usable result, or excluded. A usable
result stays one (`KidKeeps`, from the abstract `TaskOutcome`), so the report may rely
on what was read long before. `UpgradesArePublished` adds what is known of the last loop
(`UpgradeInv`): each vehicle behind it whose half result was published has a child that
is over, whose improvement the workflow has seen. For `OneChildPerVehicle` the workflow
must insert a child only where there is none and start one that was never started: until
an execution is past its starts, the vehicles it did not find linked when it began have
no child, or one that nobody has touched (`FreshInv`). So the guards of `TaskOutcome`
never hold the workflow up, and its children behave as tasks do
(`ChildrenKeepTheirOutcome`).

For any number of vehicles and any faults (`JobProofs`, assuming the constants'
assumptions): `ResultsAreTyped`, `CompletedJobsAreBacked`, `JobsAreSettled`,
`ComparisonsAccountForAll`, `ResultsKeepTheirFiles`. The invariant `ResInv` has three
parts. `JobInv` says for each stage of `run_job` which stage runs are open and which
files, rows and imports are behind the worker, also while a collector beside it has
failed. `CmpInv` follows the comparison over its vehicles: each one behind the worker is
left out, in its row and in the report, or there is a snapshot of it and its row says so.
`RepInv` keeps the time report in step with its directory. All three survive the cleanup,
which deletes only what is old, and the time between its files and its rows.

Only model-checked: liveness (`EveryWaitEnds`, `QueuedRunEnds`, `TaskMovesOn`,
`ComparisonEnds`, `QueuedWorkEnds`, `AttemptEnds`, `ReportEnds`), the prover having no
support for fairness. Every other property of the passing runs is a theorem. The
invariants of `CollectionWaitProofs`, `TaskProofs`, `ComparisonProofs` and `JobProofs`,
and `CutsInv`, held in TLC on the instances of section 3 before they were proved.

## 5. Abstractions

* Failure categories, cursors, timestamps, progress and `collector_events` are left
  out: no guard of the modelled code reads them, except `retryable`, which
  `Collected` chooses freely.
* `StartRun` is called with the fallback agent, as the activity does; a NULL
  agent_id is possible only for callers outside the production code.
* `attach_task_to_run` and the status `retry_wait` exist in the store but nothing in
  production code uses them; the model keeps the operation and the status.
* The inline mode of the collector (`COLLECTOR_SERVICE_INLINE`) and running
  without a database are test configurations and left out.
* An activity that exceeds its Temporal timeout while its thread still runs is
  not modelled; a crashed worker's threads end with it.
* An ORM write of a status equal to the one the handler has loaded emits no UPDATE; such
  a handler is modelled as if it had run at the moment of its load.
* The collector's 404 after a restart, 409 and every transport error are one answer,
  "error": the worker treats them alike.
* A comparison has at most `MAX_COMPARISON_VEHICLES`, which the API enforces; the
  workflow's own check of it is not reached. A comparison of the RQ pipeline runs once.
* All stages of `build_stage_commands` are core and `run_pipeline` is called with both
  collectors and the fallback allowed: its branches for optional stages and for
  collectors one after the other are not modelled. `attempt_no` is left out, because a
  job is run once.
* The agent of OpenClaw is external: it writes each expected file in one step (the
  validation file in two), may start one subtask, and ends its tasks in any way. Its
  table and the gateway share one clock, and a task created in the very millisecond of
  an acceptance counts as created after it, as in the query. The stage is a full
  refresh of Dongchedi, whose validation is the strictest; the progress file is no
  expected artifact of the model.
* Sizes of prompts are one unit per comment and one for a longer count of batches; the
  digits of the index are left out, as are metrics and `_fit_aggregate_payloads`, which
  may drop the last batches from the join's prompt.
* An answer of a model is good, "odd" (valid JSON whose counts are no numbers), or none.
* Not modelled at all: see `components` in `PROJECT.json`, with reasons.

## 6. Plan

Done: `Lease`, `RunStore`, `CollectorService`, `CollectionWait`, `SingleVehicleTask`,
`TaskOutcome`, `ComparisonTask`, `JobPipeline`, `JobResults`, `OpenClawStage`,
`HermesReport`, and eight modules of proofs.

Next, in this order:

1. `DispatchPlan` - `plan_dispatch_order` and its helpers as operators, checked
   against a declarative definition over bounded inputs.
2. `Corpus` - dedupe, upsert, counts; idempotence of an import.
3. The API's stateful services: confirmed-series cache, AI report states.
4. Proofs: what a shared run's submitter can rely on without a pool, once its failed
   409 is counted; `ComparisonTask` on top of `SingleVehicleTask` for the parts a user's
   retry of a child touches.

## 7. Running

    tlc -workers 2 -config MCWaitShared.cfg MCCollectionWait.tla
    tlapm RunStoreProofs.tla

Each run's module, configuration and properties are listed in `PROJECT.json`.
