# Verification of ScenarioDB

ScenarioDB keeps SoC multimedia scenarios in PostgreSQL and serves reviews, simulations and
comparisons of them through FastAPI. This directory holds TLA+ models of the parts of it whose
correctness depends on the order in which requests, threads, transactions, answers and crashes
happen, and of a few algorithms whose result must not depend on an order; the TLC configurations
that check them; and TLAPS proofs about them. Paths below are relative to `src/src/scenario_db/`
unless they begin with `docs/`, `demo/`, `tests/` or `ui/` (which are under `src/`).

## 1. The system

| Component | State | Operations | Interacts with | Hard behaviour |
| --- | --- | --- | --- | --- |
| What-if sweep jobs `api/services/whatif_jobs.py`, `whatif_sweep.py` | table `whatif_jobs`; per process an executor, a shutdown flag, admission slots | submit, cancel, resume, worker, heartbeat, checkpoint, shutdown | database row locks and a queue lock; lifespan of the server | worker leases, takeover under a live worker, crash between commit and launch, cancellation racing completion, shutdown |
| Write service `write/service.py` | tables `write_batches`, `write_events`, canonical rows | stage, validate, diff, apply | advisory lock, row locks, rule cache, facets cache, ETL | target changes between review and application, two requests on one batch, lock order |
| Model basis and prediction register `api/services/model_basis.py`, `arch_exploration.py` | `model_bases`, `predictions` | create, activate, retire, trial, promote, register | project and variant row locks | one active basis, one chain of predictions, lock order of a bulk promotion, stale trials |
| CPU sweep pool `api/services/cpu.py` | one process pool, its size, its users, a failed mark | batch, replacement, retirement, shutdown | a condition variable shared by request threads | replacing an executor under use, waiting for its users |
| Process caches `api/cache.py`, `api/services/analysis_cache.py`, `query_engine/service.py` | rules and load time; values and pending computations; facets | refresh, invalidate, mark stale; get or compute; build facets | write service, requests | old loads published after new ones, owners that fail, eviction under waiters |
| Simulation run `sim/service.py` | evidence rows keyed by a parameter hash | run, persist, delete | evidence table | identical requests racing to insert |
| Report artifacts `reporting/exporter.py`, `api/routers/simulation.py` | generation directories; metadata of an evidence row | export, cleanup, reconcile | file system and database, which do not commit together | crash windows, concurrent exports |
| Review register `api/services/review_risks.py`, `review_cpu.py`, `arch_exploration.py` | risks with an automatic and a manual state, reports, option reviews, CPU snapshots | sync, edit, report, record, withdraw | project and risk row locks | automatic and manual transitions interleaved |
| Calibrated parameters `api/services/power_fit.py` | versions of a SoC's parameters | fit, create | advisory lock, ETL | version allocation |
| ETL `etl/` | canonical rows | load a directory, one savepoint per file | write service (row locks) | part of a load fails, a load reads a row without locking it |
| Variant resolution `db/repositories/variant_resolution.py` | none | fetch parents round by round, merge | rows that are written meanwhile | rounds see different commits |
| Review gate and matcher `review_gate/`, `matcher/`, `api/cache.py`, `query_engine/service.py` | none | match issues, apply waivers, check gate rules, derive a verdict | rows read statement by statement; three readers of the same rules | readers that disagree, verdicts of rows that never were together |
| Admission `api/resource_limits.py` | a semaphore per process, locked files of the host | admit, refuse, leave | every simulation | one step failing after another succeeded, a process dying |
| Simulation timeline `sim/timeline.py` | a simulation: task runs, transfers, groups, resources | simulate, walk the critical path | task graphs | groups that reserve several resources, events of one instant |
| Graph checks, `longest_path` `graph_checks.py`, `sim/cpu_sched.py` | none | search a cycle, critical path | write service, ETL, CPU sweeps | order of the queue, parallel edges |
| Browser calculations `ui/src/lib/cpuAnalysis.ts`, `calculation.ts`, `admission.ts` | the state of an analysis; shared flights | execute, stop, reset; ask, cancel, retry | the API | answers that were overtaken, cancellations of one of several subscribers |
| Other simulation engines `sim/` | none | bandwidth, power, timing, DVFS | canonical graph | numeric |
| Graph repository, resolver, view, imports, comparison, API shell, dashboard, other web clients | none that others rely on | read, convert, display | all of the above | none in TLC's reach |

What makes each of them correct:

* sweep jobs: only the worker the row belongs to changes it; row and worker agree on how far the
  job is; stored progress never goes back; a completed job is complete and stays so; an accepted
  job comes to rest or becomes resumable; a shutdown ends.
* write service: what is applied is what was reviewed; a batch is applied at most once; canonical
  scenarios keep overlays that fit their pipeline; transactions do not wait for each other for ever.
* prediction register: at most one active basis and no two live ones of the same content; the
  predictions of a variant form one chain; what is replaced is what was reviewed or tried.
* CPU pool: no executor is closed under a batch that uses it; no point is calculated twice at a
  time; a waiting batch is served.
* caches: rules are never from before a write that was answered, and never replaced by older ones;
  a case is calculated once at a time, and nobody waits for an owner that failed.
* evidence and artifacts: identical requests converge; a row names only files that are there;
  without a crash no files are left that no row names.
* review: no edit that was answered is lost; a report freezes the register it leaves and is
  compared with the one before it.
* an answer: a variant inherits what its rows say, whatever is committed between two queries;
  rules hit what they are about, all their readers agree, and a verdict fits what stayed while it
  was made; every task is simulated once its inputs are there; slots are neither lost nor doubled.
* the browser: only the newest calculation is published; flags and progress are about what is in
  flight; a subscriber cancels for itself only.

The hazards, each at the line where it bites and with the properties that cover it, are listed in
`PROJECT.json`.

## 2. Modules and runs

| Component | Specification | Instances for TLC | Proofs |
| --- | --- | --- | --- |
| sweep jobs (section 3) | `JobLifecycle` (abstract), `WhatIfJobs` | `MCWhatIfJobs`, `MCJobs`, `MCRequests` | `WhatIfJobs_proofs` |
| reviewed writes, loads (4) | `WriteBatches` | `MCWriteBatches`, `MCDatabase` | `WriteBatches_proofs` |
| bases and predictions (5) | `ModelBases` | `MCModelBases`, `MCDatabase`, `MCRequests` | `ModelBases_proofs` |
| CPU pool (6) | `CpuPool` | `MCAnswers`, `MCRequests` | `Cpu_proofs` |
| caches (6) | `ServingCaches`, `ResultCache` | `MCAnswers`, `MCRequests` | `Caches_proofs` |
| admission (6) | `AdmissionSlots` | `MCAnswers` | `Answers_proofs` |
| simulation runs, artifacts (7) | `SimulationEvidence` | `MCDatabase` | `Records_proofs` |
| review of a project (7) | `ProjectReview` | `MCDatabase` | `Records_proofs` |
| calibrated parameters (7) | `PowerFit` | `MCDatabase` | `Records_proofs` |
| variant resolution (8) | `VariantResolution` | `MCAnswers` | `Answers_proofs` |
| matcher, review gate (8) | `MatchRules`, `ReviewGate` | `ReviewDocuments`, `MCReviewGate`, `MCAnswers` | `Answers_proofs` |
| timeline (9) | `Timeline` | `TimelineGraphs`, `MCTimeline`, `MCAnswers` | `Timeline_proofs` |
| graph walks (9) | `GraphWalks` | `MCAnswers` | `Answers_proofs` |
| browser (10) | `CpuAnalysis`, `SharedCalculations` | `MCAnswers` | `Cpu_proofs`, `Answers_proofs` |

The properties of a component are at the end of its module, each with the code it is about.

### Runs

| Run | Module | Question |
| --- | --- | --- |
| `jobs_safety` | `MCJobs` | Does a job survive being passed from one worker to another, with crashes, stalls, cancellations and shutdowns anywhere? Is cancelled only ever the owner's doing? |
| `database_records` | `MCDatabase` | What is left in the database, and in the report directory, by reviewed writes, bases and registrations, simulations and exports, reviews and calibrations? |
| `writes_locks` | `MCWriteBatches` | Does every reviewed write end, with racing loads? |
| `requests_end` | `MCRequests` | Does every thread of a process come to an end, and both its shutdowns? |
| `answers_shown` | `MCAnswers` | What do threads share, how does an answer come about, how does it reach a page? |
| `jobs_queue_bound` | `MCWhatIfJobs` | Is the job queue bounded as documented? It is not (section 3). |
| `writes_bundle` | `MCWriteBatches` | Is a bundle applied to the rows its review saw? It is not (section 4). |
| `writes_inherit` | `MCWriteBatches` | Can overlays close an inheritance cycle? They can (section 4). |
| `writes_race` | `MCWriteBatches` | Does every variant fit the pipeline of its row? Not if a load races (section 4). |
| `bases_deadlock` | `MCModelBases` | Are variant rows locked in one order? They are not (section 5). |
| `gate_waivers` | `MCReviewGate` | Does a waiver apply as written? Not if it has no alternatives (section 8). |
| `timeline_instant` | `MCTimeline` | Does the critical path end? Not in a graph with tasks that take no time (section 9). |

A run may put several components side by side. They share no state, because the components they
model share none, so their interleavings would only multiply. A variable `part` of the MC module is
chosen at the start and names the one that moves; the others stay in an initial state. A part may
also leave something out (a request that never asks, a bound that is not used up), so that two large
bounds need not meet: the parts of `MCDatabase` and `MCJobs` say what, in `Within`, `Asked` and
`Involved`. What TLC explores is the union of the parts, and an invariant is checked in all their
states. A component is extended by the MC module, so that the run checks the very property a theorem
states (the pool has a second instance, for batches of two points). In `MCAnswers` the timeline of
the other parts has no tasks, and no variants are stored in them. Components that do share state are
composed in one module: jobs with their processes' executors and shutdowns, writes with loads,
promotions with registrations, exports with the runs and deletions of their row, reports with edits
and snapshots, the gate with the loads that commit while it reads.

Where TLC cannot keep a value apart from its name, symmetry is used: jobs, requests, threads and
batches are interchangeable where a run has a symmetry set, and no run with a liveness property
has one. `MCDatabase` exchanges two requests of each component at once, which is no loss: only one
component moves.

### Mutants

Operators whose names begin with `Faulty` are not part of a model. Each is a plausible mistake in
the definition after it, with the same parameters: forgetting the token in a worker's query,
keeping a slot, dropping a lock or a comparison, reading one table before another, counting
parallel edges once, merging a list in the wrong order, and so on. Putting it in the place of that
definition must make a named property of a run fail; `PROJECT.json` lists the pairs. They show
that the properties can tell the difference.

### What is proved and what is not

| Theorem | Module | For |
| --- | --- | --- |
| `TypeCorrect`, `HolderAgreement`, `Fencing`, `Refinement`, `Cancellation`, `LeaseRevival`, `CooperativeStop` | `WhatIfJobs_proofs` | any number of jobs, processes, tokens and cases |
| `TypeCorrect`, `LockDiscipline`, `AppliedFinal`, `ReviewedIsApplied` | `WriteBatches_proofs` | any requests, batches, scenarios, documents |
| `OverlaysAlwaysFit`, `DigestsTrue` | `WriteBatches_proofs` | the same; the commit of a load that was overtaken is the exception the properties name |
| `BasesInvariant`, `TypeCorrect`, `History`, `Reviews`, `Trials`, `OneBasis` | `ModelBases_proofs` | any requests and variants, any bounds |
| `Files`, `Races` | `Records_proofs` (`SimulationEvidence`) | any runs and exports |
| `Edits`, `Reporting`, `Freezing` | `Records_proofs` (`ProjectReview`) | any finite number of risks and reports, any edits and snapshots, any length of a history |
| `Versions` | `Records_proofs` (`PowerFit`) | any calibrations and loads, documents named as section 7 says |
| `PoolTyped`, `LeasesHold`, `FallbackIsDrained`, `WorkersNeverOverlap` | `Cpu_proofs` (`CpuPool`) | any finite number of batches, any points and sizes |
| `PagesHonest`, `PagePublishesHonestly` | `Cpu_proofs` (`CpuAnalysis`) | any number of calls, with or without comparisons |
| `WritesReachTheRules`, `RulesOnlyGetNewer` | `Caches_proofs` (`ServingCaches`) | any threads, any number of commits |
| `SingleFlight` | `Caches_proofs` (`ResultCache`) | any threads, cases and capacity |
| `SlotsNeverLost` | `Answers_proofs` (`AdmissionSlots`) | any finite number of requests, any processes and limits |
| `Sharing` | `Answers_proofs` (`SharedCalculations`) | any finite number of subscribers, any keys, any number of requests |
| `RuleMeans`, `Readers`, `Verdicts` | `Answers_proofs` (`MatchRules`, `ReviewGate`) | any rules, variants and evidence, any number of commits |
| `AnswersAreRight` | `Answers_proofs` (`VariantResolution`) | any finite number of variants, any rows, any number of commits |
| `WalksAnswerRight` | `Answers_proofs` (`GraphWalks`) | any finite number of nodes, any lists of edges and pairs |
| `SimulatesEveryTask` | `Timeline_proofs` | any graphs of tasks, any frames, cadences, delays, resources, queues and capacities |

Every safety property that a passing run checks is proved, `ImplementsLifecycle` among them. Each
theorem has an inductive invariant of its own, which TLC checked on the small instance before it was
proved. A proof goes through the actions one by one.

Model-checked only are the three properties of liveness (`RequestsEnd`, `ThreadsEnd`,
`ShutdownsEnd`): liveness under fairness and ENABLED are out of the prover's reach. The library's
induction theorems cannot be instantiated; where a proof needs an induction over numbers or a finite
set it argues with a least counterexample instead, which exists because strict inclusion of finite
sets is well-founded (`HasLargest` in `Records_proofs`, `HasLeast` in `Answers_proofs` and
`Timeline_proofs`). A recursive function is reached in the same way: it exists since there is no
least argument up to which it does not, and it is the only one (`StepsExist`, `TimeIs`).

## 3. Sweep jobs

| Module | What it is |
| --- | --- |
| `JobLifecycle` | what the owner of a job may rely on: absent, queued, running, stopped, completed, and stored progress |
| `WhatIfJobs` | the code: table, workers, executors, shutdown flags; its properties are at the end |
| `MCWhatIfJobs` | constants for TLC |
| `WhatIfJobs_proofs` | type correctness and the agreement of row and worker; what single steps may do: fencing, leases, cancellation; and that the rows implement `JobLifecycle` |

### State and actions

`row` is the table. `lease` and `updated` stand for the age of `heartbeat_at` and `updated_at`
against `_LEASE`; every write of a time stamp makes it young, `LeaseExpires` and `UpdateAges` make
it old. `worker[t]` follows the one `_run` that holds token `t`, from the commit that issued the
token to the end of its thread: `launch` is the request thread between commit and `_launch`,
`pooled` a future of the executor, the rest are places in `_run` and `run_sweep`. `pool`, `flag`
and `stopping` are `_pool`, `_shutdown` and the progress of `shutdown_whatif_jobs`, one per API
process. A token is never issued twice, so an old worker and a new one of the same job are two
entries.

| Code | Action |
| --- | --- |
| `submit`, `resume`, `cancel` | `Submit`, `Resume`, `Cancel` |
| `_launch` | `Launch`, `LaunchLost` |
| `_run` up to the commit of `running` | `Claim` |
| the loop for a slot | `AwaitSlot` (its transaction), `TrySlot` |
| `run_sweep` | `BeginSweep`, then `Checkpoint` and `ComputeCase` for each case, `CloseSweep` |
| the last transaction of `_run` | `FinalWrite` |
| its `except` branch | `WorkerFails`, `RecordFailure`, `FailureUnrecorded` |
| its `finally` branch | `End`, in each action that ends a worker |
| `heartbeat` | `Beat`, `BeatFails` |
| `shutdown_whatif_jobs` | `BeginShutdown`, `DropFutures`, `ShutdownReturns` |
| death of a process | `Crash` |

A transaction of the code is one action. That is faithful because each of them locks the job's
row (or holds the queue lock) from its first read to its commit. `submit` inserts under the queue
lock and no other operation sees the row before. What a thread does between two transactions is
in its entry of `worker`. The two reads of `_shutdown` in one turn of the slot loop (lines 200 and
201) are taken as one; they decide only between the statuses cancelled and interrupted.

A heartbeat may outlive its worker: `_run` tells the daemon thread to stop and waits two seconds for
it (236-239), and an update that is blocked in the database commits later. `End` leaves the heartbeat
of an ended worker beating or not, as it was in an update or not; `Beat` or `BeatFails` is then the
end of that update, at any later time, and the last thing the thread does. `LeaseRevivedByHolder`
and `ObsoleteWorkerIsHarmless` hold for such a heartbeat too: it may make the lease of a row young
once more whose worker has ended without writing it, but never that of a row another worker holds.

`LateProcs` are the processes whose shutdown may begin while a request is in flight. A server that
drains its requests before the lifespan ends is none of them. One that is forced to stop may be:
then `_launch` finds `_pool` empty, makes a second executor and clears the shutdown flag that the
workers of the first are still reading. Their jobs go on, and one that had just been stopped is
written as cancelled although nobody cancelled it. `CancelledOnlyWhenAsked` says that this is the
only way: the worker of such a job ran in one of `LateProcs`.

### Runs

`jobs_safety` has two parts, with two tokens and two cases. In `takeover` one job in two processes
is passed from one worker to another; one process may stop with a request in flight, the other
may not. In `shared` two jobs in the second process compete for its one slot with two threads; the
other process has no worker and no lease runs out. In `requests_end` one job in one process
settles and its shutdown returns. In `jobs_queue_bound` two jobs meet a bound of one.

`MaxTokens` bounds submissions and resumptions. Two tokens are what a takeover needs: an old and a
new worker. A third worker would meet the second as the second met the first, and the fencing
proof covers any number. Two cases are enough for a stored progress strictly between nothing and
everything. Two processes give the old worker and the new one their own executor, flag and
crashes, and one of them drains its requests, so that the exception of `CancelledOnlyWhenAsked` is
seen to be of its process. With two threads and one slot, workers wait for the slot.

The queue bound. `docs/contracts/api/scenario-whatif-contract.md:161-162` says "the database queue
is bounded to 16 active jobs". `_check_capacity` counts a queued or running job only while its
`updated_at` is younger than 120 seconds. A job that waits longer behind two busy threads drops
out of the count, another is admitted in its place, and when the first is claimed it counts again:
by the code's own measure there are then more than the bound. TLC shows this in seven steps.

### Fairness

`FairSpec`, whose formulas `MCRequests` repeats, assumes what the operating system gives: a request
thread that committed goes on to `_launch`, a thread in `_run` goes on with its next step,
`shutdown_whatif_jobs` goes on, and time passes, so that a lease nobody refreshes runs out
(`LeaseExpires(j) /\ ~KeptAlive(j)`). It does not assume that anybody cancels or resumes, that a
heartbeat is sent in time, or that failures, crashes and stalls do or do not happen. The slot loop
needs no strong fairness: `AwaitSlot` and `TrySlot` are steps of one worker that is always able to
take one of them, and the slot is given back by whoever holds it, so a turn of the loop finds it
free or finds another worker that proceeds. An executor is a first-in first-out queue; the model
lets a free thread take any future, which allows more behaviours, and with finitely many futures
each still gets a turn.

`AcceptedSettles` does not say that a job is completed. A worker without heartbeat still completes
or fails, and a row without worker expires; both are in the formula.

### Proofs

The only assumption is `JobsAssumption`: there are finitely many jobs and at least one, at least
one process, and the bounds are natural numbers, most of them positive. Nothing bounds the number
of jobs, processes, tokens or cases.

`TypeCorrect`. `TypeOK` is not inductive by itself: a worker that calculates a case must have one
left, or the number of its rows would leave `0..Total`. `CaseLeftInCompute` adds that.

`HolderAgreement`. `HolderAgrees` relates a row to the worker whose token it carries and is
inductive together with `TypeInv`. Its cases are the interesting ones: why a queued row cannot
have a worker past its claim (a token is handed out once, and a cancelled row loses its token),
why a row at rest has no worker that could still write it, and why what is stored is never more
than what the worker holds in memory, which is what makes a checkpoint safe.

`Fencing`. A worker step changes at most the row of its job, and only if the row holds its token;
a step that changes a worker changes no other worker's row. The proof goes through the actions and
needs only `TypeInv`.

`Refinement`. The mapping takes cancelled, failed and interrupted to stopped and stored cases to
progress. Two more facts are needed for completed jobs to be complete: a sweep that was not
stopped has calculated all cases when it reaches its final write (`SweepRanThrough`), and a row
that does not exist has no cases (`NothingBeforeSubmit`). The step lemma first shows that every
step changes at most one row, and in one of a few ways (`RowChanges`), then that each way is a
step of `JobLifecycle` or a stutter.

`Cancellation`. The final write of a worker goes by the shutdown flag it reads then; that it
stopped was decided by the flag it read at its last checkpoint. The two must agree unless the job
was cancelled. Only `_launch` lowers a flag, when it finds no executor; and while a worker of the
old executor is left a shutdown is under way, with which no request is in flight outside
`LateProcs`. `StopInv` says this of each process (an executor is there only while the flag is
down), each worker (it is in the executor or the shutdown drains it; if it was stopped and holds
its row, the row was cancelled or the flag is up) and each row.

`LeaseRevival` is a property of single steps: a heartbeat that updates a row carries the row's token,
and what a heartbeat does for a worker that has ended ends it (`BeatKeepsRows`, `EndedWorker`).
`CooperativeStop` needs that a worker reaches a calculation only from the checkpoint before it.

Model-checked only: the two liveness properties, which are outside what the prover does.

### Not modelled

The content of a case, the Pareto set and the best case; size limits of a request; reads (`get`);
isolation of one owner's jobs from another's, which is a filter in every query and part of a job's
id. Changed inputs at resumption are one of the reasons for `WorkerFails`. A commit is one atomic
step: a final commit that succeeds and whose acknowledgement is lost, after which the `except`
branch writes failed over completed (225-231), is not modelled.

## 4. Reviewed writes

| Module | What it is |
| --- | --- |
| `WriteBatches` | `write/service.py` for scenarios and variants on PostgreSQL, with the loader; its properties are at the end |
| `MCWriteBatches` | documents, payloads and constants for TLC |
| `WriteBatches_proofs` | locks, application of what was reviewed, contents of the rows |

### State and actions

`scenario` and `digest` are the canonical rows and their `yaml_sha256`. Of a pipeline the ids of
its nodes are kept. Of a variant the base nodes it configures are kept, because `node_configs` is
checked by every path that writes, and `derived_from_variant`. A digest is the document it was
taken of, together with who took it (the loader hashes the bytes of a file, an import hashes
canonical JSON), or `None` for the `write:` digest of an overlay or a patch, which equals no
document's.

`status`, `payload` and `reviewed` are `write_batches`. `diff_result` is represented by the rows it
was computed from; `Revision` says which part of them its hash covers, and two reviews have the
same `target_revision` exactly if their revisions are equal. For an overlay that is the variant,
for a patch the pipeline and the list of variants, for a bundle which documents and variants exist
or differ.

`at`, `on`, `does` follow a request that runs `diff_batch` or `apply_batch`. `on[r]` is also the
lock on the row of its batch, `serial` the advisory lock, `holder` the row locks of scenarios. The
locks on variants go with that of their scenario: who writes a variant has, by its foreign key or
its own statement, locked the scenario.

| Code | Action |
| --- | --- |
| `stage_write`, `validate_batch` | `Stage`, `ValidateBatch` |
| `diff_batch`, `apply_batch` up to the status check | `DiffBatch`, `ApplyBatch` |
| `_acquire_write_serialization_lock` | `TakeSerialLock` |
| `_lock_write_targets` | `LockTarget`, once for each row its statement found |
| the validation that fails, with its commit and 409 | `Invalid` |
| the rest of `diff_batch` | `Preview` |
| the revision that differs, with its commit and 409 | `RefuseStale` |
| the revision that agrees; then the writes and the commit | `Check`, `Apply` |
| an exception, a crash | `Rollback` |
| `load_yaml_dir`, `upsert_usecase` | `LoadBegin`, `LoadRead`, `LoadWrite`, `LoadSkip` (its savepoint fails), `LoadCommit`, `LoadAbort` |

What a transaction does between its locks and its commit is one action where everything it reads
is locked. It is two (`Check`, `Apply`) where it may not be: `FOR UPDATE` locks rows that exist,
so a scenario that a bundle is about to create can be created by a load after the revisions were
compared. `LockTarget` locks the rows of a bundle one by one, in any order, because a database
does. Under READ COMMITTED the statement that locks sees the rows committed by the time it starts.

The loader reads a row with `session.get` and no lock, and its flush writes only columns that
differ from what it read. An application may commit between these two, in every run. What then
happens depends on the pipeline it read: if it differs from the file's, the whole document is
written; if it equals the file's, the pipeline stays as the application left it, beside the variants
and the digest of the file. `OvertakenLoad` is the commit of a load to which this happened, and the
only step that `OverlaysStayFit` and `DigestsStayTrue` except; the run `writes_race` shows it.

`AuthoredFiles` are taken to be files whose references fit. The loader itself stores others too,
reports them through `validate_loaded_db` and, unless it is strict, commits. Bundles may hold any
document; `ValidImport` is what rejects them.

### Runs

In `database_records` one scenario, two variants, two nodes, two batches, two requests, six
payloads of all kinds and two versions of the scenario's file meet racing loads: no step but the
commit of an overtaken load makes a row inconsistent, and what was applied is what was reviewed. `writes_locks` has two scenarios, two batches, two requests, one
bundle of both scenarios, and racing loads. `writes_bundle` (a bundle and an overlay),
`writes_inherit` (two overlays) and `writes_race` (a patch and a load) each show one disagreement.

Two requests and two batches are enough for one request to be overtaken by another at any point; the
advisory lock lets no third interfere. The payloads are chosen so that each can invalidate another:
the patch removes the node that one overlay and one version of the file need, the other adds it, one
overlay derives from a variant that an import may create, and one bundle is unfit. One scenario is
enough for consistency, which is about one row and its variants; deadlocks need two.

The disagreements with the documents:

* `writes_bundle`. `build_import_bundle_diff` (726-778) and `_import_bundle_impact` (1584-1640)
  name documents and variants, not contents. A scenario that differed from the bundle when it was
  reviewed and differs in another way now has the same revision, and the change in between is
  overwritten. The contract promises a 409.
* `writes_inherit`. `validate_variant_overlay` asks only that the parent exists. First `v2` is
  made to derive from `v1`, then `v1` from `v2`; from then on neither can be resolved. The schema
  rejects such a document when it is loaded or imported.
* `writes_race`. A load reads the row, a patch commits, the load writes its columns except the
  pipeline, which equals the one it read, and the variants. The row has the patched pipeline, and
  the variants and the digest of the file: a variant refers to a node the patch removed, and loading
  the file again skips the row. The patch itself was valid when it was committed, as
  docs/contracts/api/write-api-contract.md:367 asks ("Existing variant overlays must remain valid
  after the base patch"), and docs/design/data-and-storage.md:192 relies on the digest.

An imported variant may also derive from a variant nobody has (1285), which an overlay may not;
this is a difference between the two paths, and no run is about it.

### Fairness

A transaction that has begun goes on with its next statement. `Proceed(r)` and `LoadProceeds` have
strong fairness because a statement that waits for a lock is disabled while another holds it, and
PostgreSQL queues those who wait, so that none is overtaken for ever. `DeadlockVictim(r)` is weakly
fair: PostgreSQL looks for deadlocks after `deadlock_timeout` and fails the statement of one: a
request is rolled back, a load gives up the file it is at. Without it `RequestsEnd` fails: a request
that locked `s1` waits for `s2`, which a load has written, and the load waits for `s1`. Nothing is
assumed about clients, crashes or failures.

### Proofs

The assumption is `WriteAssumption`, which says what documents, files and payloads are made of and
that `None` and the loader are none of the things they stand beside. All sets may be infinite.

`LockDiscipline` and `TypeCorrect` come from `IInv`. `LocksBelong` alone is nearly inductive; what
it needs is `Undertaken`: the batch of a request is still in the status its request found. That a
type is kept by an application needs that the payload is valid at the moment of the write
(`CheckHolds`), and this needs that nobody changes the target between the check and the write. That
is the heart of the module: `TargetHeld` says that an application has, from the advisory lock on,
its target locked or still to lock, which uses that a reviewed scenario exists (`ReviewedExists`)
and stays (`ScenariosStay`).

`AppliedFinal` and `ReviewedIsApplied` are then properties of single steps: a batch becomes
applied only by `Apply` of the request that has its row, in a state where its revision was
compared and its target has been locked since.

`OverlaysAlwaysFit` and `DigestsTrue` are properties of single steps as well, with loads that race.
An application writes what was valid against the rows it holds, and an import that finds its
scenario equal to the bundle's keeps row and digest. The commit of a load writes its file, unless it
keeps a pipeline that is no longer the file's; that is `OvertakenLoad`. Besides `IInv` they need
that a row that carries a digest is there (`DigestHasRow`).

Model-checked only: `RequestsEnd`.

### Not modelled

Documents of other kinds in a bundle (SoCs, IPs, DVFS tables, projects) and references to them;
edges, buffers, compression, routing switches and injected nodes; the collision policy when a
scenario changes its project; `write_events`; the refresh of the rule cache and of the facets
after the commit, which is in `ServingCaches`; retirement
(`etl/retire.py`), which deletes scenarios. On SQLite there are neither row nor advisory locks,
and nothing here applies.

## 5. Bases and predictions

`ModelBases` is one project. `basis` is the table `model_bases` with, for each basis, its status,
its content, the stamp of the inputs it froze and the trial with its items; `inputs` counts the
edits of what the bases name, which change the stamp (`_assert_inputs`). `pred` is the register.
`project` and `lock` are the row locks of the project and of the variants, `req` the requests.

| Code | Action |
| --- | --- |
| `create_basis`, `activate_basis`, `retire_basis`, `start_trial` | `CreateBasis`, `ActivateBasis`, `RetireBasis`, `StartTrial`: each holds the project row from its first statement to its commit |
| `run_trial_item` | `BeginTrialItem` (its read, without a lock), `CalculateItem`, `StoreTrialItem` (under the lock) |
| `promote` of `arch_exploration.py` | `Register`, `LockVariant` for each row in canonical order, `ReadCurrent`, `CommitRegistration` |
| `promote_basis` | `BeginPromotion`, then `NextItem` and `LockVariant` for each item in the order of the stored items, `FinishPromotion` |
| an exception; PostgreSQL and a deadlock | `Abort`, `EndDeadlock` |
| an edit of what a basis names | `EditInputs` |

`NextItem` takes any item, because items are stored under random ids. A registration keeps the
order of its keys.

`database_records` has five parts: a long history of one variant (four predictions), two
variants with one basis, an edit after a basis froze its inputs, two bases over one variant, two
trials of one basis. They are apart because each bound multiplies the states of the others; each
pair of requests that can meet meets in one of them. `requests_end` starts with two variants whose
trial has recalculated both, so that a promotion and a registration want the same two rows; of two
registrations at a time one has a review to honour.

`bases_deadlock`: `promote_basis` calls `promote` once per item, so its rows are locked in the
order of the items. A registration of two of them takes them in canonical order, and each waits
for what the other has. The comment at `arch_exploration.py:441` promises a canonical order.
PostgreSQL ends one of the two, which `ThreadsEnd` relies on: `EndDeadlock` is weakly fair.

### Proofs

`BasesAssumption` names the constants apart and says that the bounds are numbers. `BasesInv` has
three groups. `RowsFit`: the rows of the register are `1..n`, at most one row of a variant is
current, links go to superseded rows of the same variant, no two to the same, and every superseded
row has one. `BasesFit`: what a trial stored was calculated under the inputs its basis froze or
later ones, items are of the present trial, what was promoted is as it was tried, one basis is
active and live ones differ. `RequestsFit`: what a request knows is still so. A registration that
has read holds the locks of its variants, and what it saw is current; a promotion holds the project
row, its basis is a draft, and what it staged is still what the trial was run against; a
calculation in flight names the trial it is for.

The third group is why the others survive a commit. `History` turns the chain into the counts of
`HistoryIsAChain`, of finite sets. `Trials` rests on `_assert_inputs`: a promotion compares the
stamp with the inputs of now, and an item calculated between the two cannot have seen others.
`OneBasis` rests on the project row, which activation, retirement, creation and the end of a
promotion all hold.

Not modelled: how a prediction is calculated, option reviews (they are in `ProjectReview`), the
reports that read the register, the reviewer's text.

## 6. What the threads of a process share

### The CPU pool

`CpuPool` is the end of `api/services/cpu.py`. What happens with `_POOL_IDLE` held is one action,
except that an executor is closed (`shutdown(wait=True)`) with the condition held, which may take as
long as its points run: `mutex` says who does. `batch` follows a request through `_pool_batch`,
`point` its futures, `executor` every executor ever created; each batch creates one at most.
`Break` is a worker process that dies. `Stop` is the lifespan.

`LeasesHold`, `FallbackIsDrained` and `WorkersNeverOverlap` follow from `PoolInv`. Its parts are:
users counts the leases and every lease is on the present executor (`Leases`); the present one is
the only one that is not closed (`Current`); they are created in order by batches that keep their
lease on record (`Numbered`), which bounds them; who closes one holds the condition while there is
no lease (`Exclusive`); and points run only while their batch collects or drains
(`PointsStopped`). That last part is what makes closing quick and the sequential fallback safe.

`answers_shown` has three batches of one point with sizes 1 and 2, so that a batch can want a
larger executor than the one in use, and another may fail beside it, and two batches of two points
with a shutdown; `requests_end` two batches, one of which may want a larger executor, and the
shutdown. The fairness is that of threads, worker processes and
a condition that is granted in the end (`LockStep` is strongly fair, because it is disabled while
another thread holds the condition). A batch waits for those that are there when it asks; while
new batches that fit the present executor keep coming, a larger one is never served. With finitely
many requests it is, and that is what `ThreadsEnd` states.

### The caches

`ServingCaches` counts commits: a value is the number of commits it includes. `rules` is
`RuleCache` with its two lists, `loaded`, and whether its TTL runs; `lock` is `_refresh_lock`;
`facets` is `_FACETS_CACHE`, which has no lock and is read and written field by field. `thread`
follows a request that uses rules or facets, or an `apply_batch` from its commit over
`invalidate_all` or `mark_stale` to its answer. `CommitElsewhere` is a write of another process or
a load, which nobody announces: for these only the TTL helps. TLC runs
three threads, two of which are at work at a time, and one commit; that a third at work and a second
commit change nothing is proved.

`WritesReachTheRules` and `RulesOnlyGetNewer` follow from `CacheInv`. For an answered commit `n`,
the cache has `n` or must be loaded (`CacheSees`), and loads that go on see `n` (`LoadsSee`). The
second part is why the lock has to cover the queries and not only the assignments. `CachesAssumption`
says that the bound is a number and no thread is called `NoThread`.

The documents say more of the facets than holds. README.md:279-280 and `config.py:38-39` say that
an application invalidates them regardless of the TTL. A thread that computed facets before the
commit stores them after the invalidation (`query_engine/service.py:105-107`), and they are served
until they expire. A thread that finds `value` set at 103 may return `None` at 104, when an
invalidation comes in between. `AnsweredWritesShowInFacets` states what the documents say; no run
is about it.

`ResultCache` is `get_or_compute`. `future` are the futures, each named after its owner,
`pending` the futures under way, `values` what is kept, in the order of use. Three callers, two
cases and one kept value make owners fail, values expire and be evicted while waiters look.

`SingleFlight` is proved from `FlightInv`: an owner is the thread `pending` names, with a future
that is set exactly when it has its outcome (`Owning`, `Owned`), and who waits, waits for an owner
of its own case or for one that has answered and keeps the name of the future (`Waiting`). The
bound of the cache needs the length of what a filter leaves. `Kept` therefore takes what it keeps
by position, so that the length is the number of the positions kept (`KeptItems`).
`ResultAssumption` says that the capacity is more than 0, without which nothing is cached or
shared, and that `NoCaller` is no thread.

### Admission

`AdmissionSlots` is `admission_slot`: the semaphore of a process, then one of the locked files of
the host, tried in their order; nobody waits. `Crash` is a process that dies, whose locks the
operating system gives back. `SlotsNeverLost` is proved from `SlotsInv`: the slots of a process
that are not free are those of the requests in it, and a file is locked by a request that runs.
`SlotsAssumption` says that the limits are numbers and a process has a slot at least. TLC runs
three requests in two processes with two slots each, on a host with two; a host without a budget is
covered by the proof.

## 7. Evidence, reports, calibrations

`SimulationEvidence` is one row of evidence and the files that belong to it. `run` are requests
with the same inputs, hence the same id: `Lookup`, `Intend` (`insert_intended`), `Prepare` (the
second look), `Commit`, `TakeWinner`. `export` are exports: `StageFiles`, `Publish` (the rename),
`NameFiles`, `CommitExport`, `CleanUp` of the generation the row named before, `Undo`; `StagingFails`,
`CommitExportFails` and `Crash` at every step; `Reconcile` removes old staging. A commit may
succeed and be reported as failed (`unnoticed`); then the generation is removed although the row
names it, as the repository's README says. `calm` records that none of this happened, nor a
deletion, nor two exports at a time. `NothingIsLeft` and `RacingRunsSucceed` are stated for calm
histories, `NamedFilesExist` for all. Three exports beside one run, and two runs beside one
export, are enough for a generation that a third party removes and for an insert that loses.

Two differences without a run: two exports that overlap leave a generation that no row names,
without any crash, though README.md:581 speaks of crashes only; and of two requests that race with
`force`, the first saver's row is not always kept (`sim/service.py:30-31`).

`ProjectReview` is one project: `risk` the register, `report` its reports, `edited` the history of
each row (who wrote its entries, in their order), `snapshot` the CPU snapshots, `rowLock` the locks.
`Gather` reads predictions before any lock; `Sync` locks the project and every risk, brings the
register up to date, with an entry in the history of each risk that is opened, reopened, regraded or
found silent, and picks the report to compare with; `CommitReport` and `RollbackReport` end it.
`Open`, `Save` and `RefuseEdit` are edits under the lock of one row. `BeginRecord`, `Record`,
`RefuseRecord` and `BeginWithdraw`, `EndWithdraw` are the snapshots; a withdrawal reads the status
without a lock. Two reports with two edits over two risks, and two recordings with a withdrawal,
are the two parts of `database_records`.

An edit of a risk enters one entry for each field that changes, and none if nothing does; a report or
an option gets one entry each time. A risk keeps the last 50 entries (`hist[-50:]`, review_risks.py
107, 115, 151), so the 51st drops the first; histories of reports and options are not cut.
`HistoryLimit` is the 50, and 2 in the run, where a second edit, or an edit of two fields beside a
synchronisation, drops what is there. `EditsSurvive` therefore does not say that every answered edit
can be read for ever: it says that whatever changes a row or its history goes on from the history as
it is, adds an entry of its own, and drops none but the oldest entries of a full history of a risk.

`PowerFit` is the allocation of versions and ids: `BeginFit` reads the base, `Lock` takes the
advisory lock of its SoC, `Allocate` and `ChooseId` query under it, `Insert` commits; `LoadParams`
stores authored parameters without the lock. `VersionsAreSerial` is stated as long as no load came
in between: a load may take a version or an id that was just allocated, and then the commit is
refused. Two SoCs whose ids have one stem do conflict (the answer is 409), which the property
excepts.

### Proofs

`Records_proofs` has an inductive invariant for each of the three.

`EvidenceInv`. `ExportFits` follows one export: before its commit no row names its generation, from
the rename to the commit its files are there, and the generation it will remove is of an export
past its commit and no longer named. `CalmExport` and `CalmRun` hold while `calm` does: there is
one export at a time, it replaces what the row named when it began, what is published is named or
about to be removed; and a run that found no row inserts one, or finds that of the winner.
`Files` and `Races` read off them. `EvidenceAssumption` names `Unset` apart.

`ReviewInv`. An open edit holds its row, and the history it saw is still that of the row
(`EditFits`); what a synchronised report is about to write into a history goes on from the present
one (`HistoryFits`, with `NotedGoesOn` about the cut to `HistoryLimit`, and `SyncedNotes`: a risk
without an entry is left as it is). This gives `Edits`, a property of the two steps that commit. A
report between synchronisation and commit holds the project and all known risks, and the register it is about to leave is the present one up to reopened risks; its
predecessor is the last committed report, whose order is the number of committed reports
(`ReportFits`, `OrdersCount`): this gives `Reporting` and, as a property of the step that commits,
`Freezing`. Nobody else adds an active snapshot while one is recorded (`RecordFits`), hence no
recording ends in a conflict. Labels are handed out in some order of the risks that fire, one after
the other, above the largest so far, which exists in a finite register (`HasLargest`).
`ReviewAssumption` says that there are finitely many risks and reports, that names differ and that a
history keeps at least one entry.

`FitInv`. Among those that hold the lock of a SoC there is one (`LockFree`), so a version that was
above all others when it was allocated stays so. That the id is free has two cases, since
`create_calibrated_params` takes the id with the suffix `-cal` when the first choice is taken, and
does not look whether that is taken too. It is free if parameters with such a name have the
version of their name (`CalibratedName`), because a row of that version would not be below the one
allocated. Calibrations name theirs so; of the documents that are stored or loaded `Versions`
assumes it. An authored `x-v2-cal` of another version than 2 would make the commit of a calibration fail
with a 409. `FitAssumption` says that at first there are finitely many parameters and that versions
are numbers.

## 8. How an answer comes about

`VariantResolution` reads a variant. `table` is what is committed, `reader` the request with the
rows it knows. `RequestVariants` is its first query and `FetchParents` one round of
`include_variant_parent_rows`: each sees what is committed then, and `Overwrite` writes or removes a
row in between. `Resolve` looks a variant up in what was read; `Climb` and `StopClimbing` are the
loop of `_inheritance_chain`, `Merge` one row of the loop of `resolve_variant_from_rows`. The merge
is done on what was read: dictionaries in depth, overrides after, lists by their rules; a value is a
leaf or a dictionary of leaves, so that `_deep_merge_dict` calls itself once. Every overlay of a
variant, its parent and its grandparent is one part of the run (`overlays`); two commits that may
turn parents around while rounds go on is the other (`rounds`).

`AnswersMatchTheRows` says that a request merges one row of each variant and none that was not
committed at some time since it began, and that, when the rows it read (and the ones it missed) are
still those of the database as it answers, the answer is what the database says. What a variant
inherits is said without merging: layers are told one after the other, of each key the latest
holds, of a dictionary that no leaf replaced the latest of each of its keys, and a list names
everything once, in the order of first mention (`Inherits`). A request whose rounds saw different
commits can report a cycle that never existed.

It is proved (`AnswersAreRight`) from `ResolutionInv`. What is known are rows of variants that were
asked for, one of each, because a round asks only for what is neither known nor asked for
(`KnownOnce`); when a variant is resolved all their parents were asked for (`AllAsked`), so a parent
that is not known was not there. The chain is injective and each of it is the parent of the next
(`Climbing`), so it fits into the variants by the pigeonhole principle and is one of the lineages
that `IsRight` speaks of. What the first `next` rows of the chain say is what is merged (`Merging`):
laying one more dictionary over what layers say gives what one more layer says (`SpokenMerge`; the
dictionaries under a key that stand are those after its last leaf), and appending what a list does
not name yet keeps the order of first mention (`ListMerge`, by a least counterexample, since
`MergeList` is a recursive function). `ResolutionAssumption` says that there are finitely many
variants and that rows say dictionaries and lists of the shape above.

`MatchRules` are the rules of issues and waivers: sections `all`, `any`, `none`, and sections of
their own in `sw_conditions`; conditions with one operator of each kind (equality, membership,
existence, an order that fails on text). An evaluation is yes, no or an exception, and callers take
the exception for no. `Stored` is what the mapper makes of an authored rule.

`ReviewGate` adds who uses them. The gate matches issues against the variant and each of its
evidence, simulated or measured; the query engine against the variant and its latest simulated
evidence; the endpoint against the variant as stored. They lay required features, flags, the
checks of the evidence and its execution settings over each other in their own ways
(`VariantContext`, `EvidenceContext`, `FromVariant`). `DeriveStatus` is the verdict. A request
reads `Order`, one statement after another, while `Load` and `DeleteEvidence` commit in between.

`RulesAgree` has two parts. A rule hits only what it is about, whatever an erroneous condition may
mean, and misses nothing if it has no such condition and names an alternative
(`RulesMeanWhatTheySay`). What the query engine lists the gate counts, and both count what the
endpoint lists for a variant without required features (`ReadersAgree`); this is checked of five
rules, 18 variants and four sets of evidence. `VerdictHolds` is about verdicts made of several
commits: an issue that matched all along, by a variant or an evidence that stayed, is in it, and
no waiver is asked for an issue that always had one. It needs that waivers are read after issues:
an issue and its waiver that are committed together would otherwise be seen one without the other.

Both are proved. `RuleMeans` is about one rule: `all()` and `any()` stop at the first outcome that
decides, so their result is that of one of the conditions (`DecidedOutcome`), and a section that
holds does so by conditions none of which failed. `Readers` needs that stored rules are stored
ones, with all their lists (`GateTypes`), which `GateAssumption` says of what is there at first
and `StoredRule` shows of what is loaded; `upsert_issue` validates it. `Verdicts` needs `VerdictInv`:
a match that has been there all along is by a variant and evidence that the request has read as
they still are, and, once the issues are read, by rules that are in what was read, though the
stored ones may have changed since (`SteadyIsRead`); no issue was read that is not there any
more (`IssuesStay`, issues are never deleted); what approved waivers name in the rows read was
named in some state, and what they leave bare was bare in one (`WaiversSeen`). The last of these
is why waivers come after issues: when they are read every issue read is still there.

`gate_waivers`: `MatchRule` gives its lists empty defaults, the mapper stores them, and `evaluate`
takes an empty `any` for one that nothing satisfies. A rule that names only conditions that all
have to hold, such as that of `demo/fixtures/04_decision/waiver-LLC-thrashing.yaml`, never holds
once it went through the loader. `tests/unit/test_runtime_projection.py` asserts that such a waiver
applies, of a document that did not. (An empty `all` or `none` demands nothing.)

Other differences met, without a run: a condition on `sw_version`, which the schema allows, compares
with `None`, since `_SHORTHAND_PREFIXES` lacks it; the endpoint ignores `required_features`; the
execution scope of a waiver may be met by another evidence than the one the issue matched by; the
gate ignores `expires_on`; the comment at `api/cache.py:184` says that rules are loaded without
schema validation, but `upsert_issue` validates; an alternative after one that fails with an
exception is not tried.

Not modelled: affects in the legacy form of a dictionary; conditions on IPs, components and scope,
which are looked up like the others; the resolver that calls a variant unresolved, whose result is
part of the variant here.

## 9. Timelines and graph walks

`Timeline` is the discrete-event simulation. `run` are the task runs of all frames, `hop` the
transfers along edges, `stream` the streaming groups of each frame, `server` the resources with
holders and waiters, `now` the clock. Tasks joined by OTF edges start and end as one; `Gather`,
`ServeGroup`, `JoinGroup`, `LeaveGroup` and `Dissolve` are a group, `BeReady`, `ServeRun` and
`FinishRun` a task, `Depart`, `ServeHop` and `Arrive` a transfer, `Tick` moves the clock when
nothing is left at its instant. The event queue serves what falls on one instant in some order, the
model in any. `BeginPath` and `ExtendPath` walk the critical path.

`TimelineGraphs` has every graph of three tasks over two frames with one of four kinds of edge or
none between each two, with one resource, with two, and with one task that needs none, two
overlapping groups, tasks with a cadence of their own, and graphs with a budget. A third frame
repeats the second; a group of two is what a deadlock of two groups needs.
`TimelineHolds` excepts tangled graphs, in which a task lies between two tasks of one group: such a
group never runs, and the engine says nothing. An M2M edge inside a group is ignored.

`SimulatesEveryTask` proves `TimelineHolds` from `TimelineInv`. Its core is bookkeeping: who waits
for a resource or a token is exactly in its queue, once, and who runs or travels is exactly among
its users (`RunsServed`, `GroupsServed`, `HopsServed`); that gives the capacities, for a group that
streams holds all its resources and a task that runs is one of its users. `HopsFollow`,
`RunsFollow`, `GroupsFollow` and `StartsFollow` date what has happened: what has arrived was made
early enough, so a consumer starts late enough. That every task runs is the argument for which
`InOrder` is needed, that a group in want of more holds what is before it and waits for the least of
the rest. When no event is left nobody waits for a resource: of those waited for, the last in the
order is full (or it would serve), its users do not run, so one is a group that reserves and waits
for a later one (`NoResourceAwaited`). Nobody waits for a token either, whose users travel. So
every run that has not ended has inputs that did not arrive; in the first frame with such a run,
of the units (groups and single tasks) that have not run one comes before the others, since the
graph of units is untangled (`FirstUnit`), and all it needs from others has arrived.

The assumptions (`TimelineAssumption`): a capacity is at least 1 (`sim/timeline.py` takes the
maximum with 1), delays, offsets, periods and cadences are not negative, and a task with a cadence
of its own has no edges, which `_expand_graph` does not expand. The streaming groups are the
connected parts of the OTF edges, defined as what no closed set separates, and a graph has no cycle
when every part of it has a first node: both without recursion, and both the same as a walk along
the edges would find in a finite graph.

`timeline_instant`: of two runs without duration on one resource at one instant each is the
critical parent of the other, and the loop of `_mark_critical_path` does not end. Tasks without a
timing profile have duration 0 (`sim/timeline_adapter.py:40`), and the adapter puts every SW task
that names no resource on `CPU_CAMERA` (line 41), although the contract gives SW tasks no implicit
resource (`docs/contracts/simulation/soc-simulation-contract.md:28-29`), so that two of them on one
instant are nothing out of the way.

`GraphWalks` has two walks by Kahn's algorithm: `find_data_flow_cycle`, before every write and load
of a scenario, and `longest_path`, the critical path of a CPU stage. The queue is a set, because
the code fills it from a set of strings. `CyclesAreFound`: whatever the order, what is left is what
lies on a cycle or behind one, and the answer is a closed path along edges through different nodes
exactly if there is one. `CriticalPathIsLongest`: without cycles the result is the longest path.
TLC runs every list of three edges among three nodes, of four among some, with control edges and an
edge to nowhere; every list of three pairs of three items. `walk.done` is what was taken from the
queue: the complement of `pending`; `longest_path` keeps no such set.

Both are proved (`WalksAnswerRight`) from `WalkInv`, which treats the walks as one, over arcs that
may be parallel: an in-degree counts the arcs from what is not done, so that the queue holds exactly
what has nothing left before it (`Counted`; a node is done after all that is before it); no node of a
cycle is done (`NoCycleIsDone`: the last node of a cycle's path would have to be done before the
first); and the end of an item is the time of a path to it through items that are done
(`EndIsReached`), and of no shorter one (`EndIsLatest`: such a path passes the item just done last,
for what comes after it is not done). When the queue is empty, a longest path backwards among what is
left must meet itself: that is the cycle behind which its end lies. The way back of the code has more
steps than there are nodes left, so it meets a node again (the pigeonhole principle), and between
the first return and the node it returns to there is no other. The comment at `sim/cpu_sched.py:212-213`
says that members of a cycle keep their own time only; they may be extended by what comes before.

## 10. Browser

`CpuAnalysis` is `createCpuAnalysis`: `page` its state, `call` the calls of `execute`, each at one
of up to four requests. `Execute`, `Select` (a new selection resets), `StopPage` and `ClearHistory`
are the user, `Answer` is a response, in any order. A call's number stands for what it was asked, so
that results, fingerprints and histories can be told apart. Two calls with comparisons, and three
without, overtake each other (the parts `comparing` and `overtaking` of `answers_shown`). A
rebalance whose growth was superseded is reported as done, `ok` or `partial`, though its growth was
never published (`cpuAnalysis.ts:137`); `EndsHonestly` is about what a call itself has shown.

Both properties of the page are proved for any number of calls, from `PageInv`. Its parts are: calls
are numbered in the order in which they began, every workflow has a generation of its own, later
ones larger, and every growth a token of its own (`CallsInOrder`); the controllers on the page are
those of the call that is current and of the growth that is live, every other call in flight was
aborted (`Controllers`); a workflow that is current is busy, owns the progress and is at the stage
that is shown, a growth that is live likewise unless a workflow reports, and flags and owner always
stand for such a call (`Progress`); and what a call in flight finds on the page when its answer
comes (`Results`): a comparison finds the result it belongs to and neither a comparison nor an
error, a growth that none of the growth's fields is left from before, its comparison the growth it
belongs to, and a workflow that grows has shown what it had until then. The last part is
what a single answer cannot see: it holds because whoever starts afterwards changes `generation` or
`growthToken`, and takes away what it is about to replace. It is why `comparison` is reset with a
new result (`WithRebalance`), and `comparisonGrowth` when a growth begins.

The proof first reduces the steps to nine kinds (`Steps`, `Stops`, `Clears`): a workflow begins, a
growth begins on its own or in a workflow, a call goes on to its comparison, it ends, the page is
stopped, its history cleared. Each names the fields it may touch, so that the part about a field is
not disturbed by the others. A page that reports a growth as done needs that it is live; that its
token is the last does not say so, because a sweep takes a generation and leaves the token. It is
live since it owns the progress, and the owner stands for a live growth (`EndIsLive`).
`PageAssumption` says that the number of calls is a number, and that a call asks for a comparison or
does not.

`SharedCalculations` is `postCalculation` over `fetchAdmitted`. `flight` is a request with its
subscribers, `micro` the queue of microtasks, since a page may ask or cancel between two of them.
`Busy` and `Retry` are the refusals of admission. Three subscribers, two keys and two requests let
one join while another leaves and the answer is on its way.

`SharedFairly` is proved for any number of each (`Sharing`; `SharedAssumption` says that the
subscribers are finitely many, so that they can be counted). What it says of a quiet moment, when
no microtask is left, is not inductive: it is kept because of what the microtasks still to come
will do. `SharedInv` says what they are. A request that may go on is in the map, and if nobody
waits for it, a `check` is queued that will find that out (`FlightFits`); a settled flight that is
still in the map has its `done` queued, in front of every answer to its subscribers
(`AnswersFollow`), so that nobody is told before the map forgets it; who waits for a settled flight
has an `answer` queued (`SubFits`); a microtask is about a flight that was sent, or settled
(`MicroFits`). Then, without microtasks, a flight in flight that was not aborted is the one of its
key and somebody waits for it. Two subscribers of a flight that may both still get its value find
it marked as shared (`SharedIsMarked`): the second one marks it when it joins, for the first is
counted among its subscribers, and the count is exact (`CancelsAreOwn`).

## 11. Not modelled

The models cover what depends on orders, and a small part of the lines: most of the code computes
numbers (bandwidth, power, timing budgets, DVFS, exploration: `sim/`, `arch_exploration.py`),
declares schemas (`models/`, `db/models/`), converts formats (`legacy/`, `meas/`, imports,
`reporting/`) or lays out pages (`dashboard/`, `ui/`, `view/`). These are functions of their
inputs without steps in between; a model would repeat them line by line, and what could be wrong
in them are floating-point results and formats, which unit tests reach and TLC does not. In
particular:

* Canonical graph repository and resolver: reads and a comparison with a capability catalogue; its
  order of statements is in `ReviewGate`.
* Import of legacy and measured data, comparison, projection: conversions, run by one process.
* API shell, dashboard, other clients: routing and display; the shutdown order of the lifespan is
  in `WhatIfJobs` and `CpuPool`.
* Two pages of one browser beside two servers: each calculation is answered by one process, and
  what processes share is the database.
* SQLite, which has neither row locks nor advisory locks.
