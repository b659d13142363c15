# A TLA+ model of the o2o_dps addon's tool chain

This directory holds TLA+ modules that model the concurrent and
failure-prone parts of the repository, configurations that check them with
TLC on small instances, and theorems about them that TLAPS checks for every
value of the constants. `PROJECT.json` names, for every definition that models
code, the source lines it translates, and for every run what it checks.

To check a run: `tlc -config ExportQueue_restart.cfg MCExportQueue.tla`.
To check the proofs: `tlapm ExportQueueProofs.tla`, and likewise every other
module whose name ends in `Proofs`.

## 1. The system

The repository collects logs of World of Warcraft raids from a web site
(Chronicle), reconstructs from them what players did, and drives a simulator
with candidate policies, locally and on a cluster, to compare them. Everything
is Python, apart from a browser driver (JavaScript), an addon (Lua) and patches
of the simulator (Go). Most files are versioned experiments that share the
infrastructure below. "Model" names the modules, or says why there is none.

### 1.1 Collecting logs

**Parallel export queue** (`o2o_dps/chronicle_parallel_export.py`).
State: `export_queue.json` (per entry a status, worker, token, lease,
attempt count, import receipt); in each worker's memory the claimed entry, its
token and the entries it imported. Operations: `claim_next`,
`claim_instance`, `renew_claim`, `release_claim`, `commit_import`,
`reset_failed`, `status`, the loop `run_worker`, and `run_parallel`, which
starts the worker processes. Workers interact through the file alone. Hard:
workers are separate processes that crash, outlive their lease during a long
import, or come back after others have settled their entry; leases are
recovered only as a side effect of other operations. Correct when an entry is
imported at most once and with the receipt of the newest claim, no stale worker
changes anything, attempts stay within `--max-retries`, and the queue empties.
Model: `ExportQueue`, and what it promises: `ExportClaims`.

**Export queue lock** (`queue_file_lock` in the same file, `save_queue` of
`o2o_dps/chronicle_export_assistant.py`). State: a lock file created with
`O_EXCL`, and its age. A waiter breaks a lock that looks stale; the holder
removes the lock by name. Hard: the age is read by one call and the file removed
by another, and on Windows each of these calls may be refused for a while. Correct when locked operations exclude one another, no saved
update is lost and every call ends. Model: `ExportQueueLock`.

**Export downloads of a worker** (`_wait_and_import`, `_candidates`,
`_start_ui_process` of the parallel exporter; `scripts/chronicle_ui_export.mjs`).
State: the worker's download directory, the browsers that write to it, what a
wait remembers of each file (baseline, last version seen, version refused).
Hard: files arrive late, in pieces, from browsers of earlier attempts; files
are told apart by name, size and time. Correct when an entry is imported from its
own new export only. Model: `ExportDownload`.

**Older export assistant** (`o2o_dps/chronicle_export_assistant.py`).
Discovery, `skip`, `collect` and `import-manifest` change the same queue file
without the lock. Its effect on entries (`Skip`, `Discover`) is in
`ExportQueue`, its missing lock in `ExportQueueLock` (`Assistants`).

**CSV importer** (`o2o_dps/import_chronicle_csv.py`). State: the raw copy, the
normalized rows and the provenance record of an import under the data root. It
looks at the source three times: for the rows, for the copy, and for the size and
time in the record. Hard: the browser may still be writing, and any step may fail or
be the last before the worker is killed. Correct when a record speaks of files that
are there, and when it can be told from it that they agree. Model: the importer's
steps are part of `ExportDownload`.

**External Chronicle ingest** (`chronicle_external_api_ingest_v1.py`). State: a
content-addressed store of responses, manifests of what runs have downloaded, one
watermark file per scope. A run lists what was uploaded since its cursor, page by
page, downloads what is new, publishes a manifest and then moves the watermark.
Hard: uploads come between the pages; runs fail, are killed, overlap and are given
different limits. Correct when the watermark never passes what is not published, a
manifest names nothing that is not stored, and the feed catches up. Model:
`ExternalIngest`.

**External character sync** (`chronicle_external_character_sync_v1.py`).
Discovers the histories of characters in batches over the same store. Not
modelled yet; next in the plan. The batches of `chronicle_encounter_batch_v1.py`
are sequential.

**Calibration watch** (`calibration_watch.py`, `import_savedvariables.py`). State:
the signature of the game's SavedVariables, the journal of Shadow pairs, the
imports, the receipts of campaigns, the watcher's memory of what it has handled.
The watcher polls, waits until a write has settled, and runs one pass per
signature; a pass can also be run by hand beside it, and the launcher kills
and starts watchers. Hard: the game rewrites the file at any time, also between
two looks of one pass; passes overlap; journal lines are appended without a lock.
Correct when no pair is journalled twice, a receipt stands for an import, no receipt
is lost, and the watcher catches up. Model: `CalibrationWatch`. The promotion of
calibrations (`promote_calibration.py`) is not modelled.

### 1.2 Running experiments on the cluster

**Remote confirmation attempt**
(`o2o_dps/fury_cat2_horizon_remote_orchestrator_v1.py`). State: write-once
receipts beside the plan, marker files on the nodes' shared disk, the
supervisors running on the nodes. Operations: `stage`, `smoke-launch`,
`full-launch`, `reduce-launch`, `status`, and the generated shell
scripts. Commands and nodes interact through a transport (`wsl`, `ssh`) whose
replies may be lost and whose requests may arrive after the command has timed
out. Correct when each supervisor is started at most once, the phases gate one
another, and a failed attempt shows as failed and stays so. Model:
`RemoteAttempt`.

**Multi-seed dispatch, worker, reducer** (`fury_multiseed_hpc_*_v3.py`). What the
supervisors of an attempt run. The dispatch assigns the paired groups of an arm to
the nodes; each node works them off in a pool of `xargs` workers, one per group, that
write rows and then a receipt into the arm's one output directory; the reducer takes a
complete set only. Hard: workers fail or are killed while others go on, between
the rows and the receipt too, and the loss must reach the attempt through the pool, the
arm and the node. Correct when each group is worked on once, a receipt has its
rows, and the reduction starts only on a whole set. Model: `ConfirmationJobs`, which
composes them with `RemoteAttempt`.

**Remote worker of the causal program**
(`upper_kara_causal_program_remote_worker_v1.py`, `_v2.py`, `_compact_v2.py`,
`scripts/upper_kara_causal_program_remote_submit_v1.py`). State: the artifacts of a
campaign on the shared disk, each under a name that must be free, and the tasks
that the cluster's scheduler has. Operations: the submission of a phase after two
inventories of tasks and files, and the tasks: candidates, training shards, the freeze
of a winner, held-out shards, the summary. Hard: nothing is locked between inventory and
submission; the scheduler runs a task again when it takes its node for down, while
the first run may go on; a compact shard is two files. Correct when what a result rests
on stays what it was, the two files of a shard are of one run, and only errors block a
campaign. Model: `CausalCampaign`, with the scheduler as an external part.

**HPC environments and transports** (`hpc_environment_v1.py`,
`hpc_dynamic_environment_v4.py`, `_v5.py`,
`chronicle_external_hpc_stage5_v1.py`, `_stage6_v1.py`). Build and check the
remote environment. Only the outcomes of their calls enter `RemoteAttempt`.

### 1.3 Driving the simulator

**Simulator bridge** (`sim_bridge.py`, `responsive_team_bridge_adapter_v1.py`).
A line protocol with a simulator process: one request, one response. Correct
when a response is never taken for that of another request and a broken process
is not used again. Planned.

**Causal action program** (`causal_action_program_v1.py`). Replays a program of
actions in the simulator: it asks the program's session for a decision, executes
the decision operation by operation, and confirms it to the session when all of them
succeeded or rejects it when one did not. Each session has at most one pending
decision. Correct when session and replay agree on which decision the feedback is
about, and nothing is confirmed beyond what the simulator accepted. Model:
`WaveReplay`, for decisions of one imported session.

**Searched wave session** (`offline_wave_searched_runtime_v1.py`,
`offline_wave_searched_program_v1.py`). State: the steps committed and dropped,
the resources used, the proposal that waits for feedback. Chooses the first open step
in its window, waits for it, or fills the gap from the tail's priorities. Correct
when a step counts as done exactly if its own action was accepted, in order, once
and in its window; when the tail takes a once-only resource once; and when no wait
sleeps through the window that it waits for. Model: `WaveReplay`.

**Ordered sink executor** (`fury_ordered_sink_executor_v2.py` to `_v5.py`),
**latched policies** (`cat_latched_*.py`), **decision epochs**
(`fury_factorized_decision_epoch_v1.py`, `continuous_route_replay_v1.py`). Choose
the next action at each decision point. Sequential. Later.

**Schedules** (`raid_cooldown_schedule_v1.py`, `raid_consumable_allocator_v1.py`,
`wave_action_schedule_v1.py`). Pure algorithms: who uses which cooldown when.
Candidates for a check against a reference definition. Later.

**Simulator patches** (`simulator_patches/`). Go patches of a third-party
program; not modelled.

### 1.4 Analysing

**Trajectory reconstruction** (`state_reconstructor_v1.py`,
`combatant_context_join.py`) and **evaluation and search**
(`beam_search.py`, `branch_teacher_v1.py`, `shadow_pair_acceptance_v1.py`,
`cat2new_candidate_feedback_loop_v6.py`, `_v7.py`,
`fury_cat_gap_stage_transition_v2.py`,
`historical_fury_source_bound_prefix_checkpoint_v1.py`). Sequential
transformations of large data and numerical comparisons. A model of their control
would show nothing, and their data is beyond exhaustive checks. Not modelled.

## 2. Plan

| step | module | status |
|------|--------|--------|
| 1 | `ExportClaims`: the promise of the queue | done |
| 2 | `ExportQueue`: the queue and its workers, implements `ExportClaims` | done |
| 3 | `ExportQueueLock`: the atomicity that `ExportQueue` assumes | done |
| 4 | `ExportDownload`: what `ImportCsv` of `ExportQueue` leaves open, with the importer | done |
| 5 | `RemoteAttempt`: commands, markers, supervisors | done |
| 6 | `ConfirmationJobs`: the worker pools of an attempt and its reducers, implements `RemoteAttempt` | done |
| 7 | `WaveReplay`: a searched program, its session and the replay latch | done |
| 8 | `ExternalIngest`: the feed of raids and its watermark | done |
| 9 | `CalibrationWatch`: the watcher, its passes and the journal | done |
| 10 | `CausalCampaign`: the phases of a campaign, its tasks and their artifacts | done, without the phases of plan v8 |
| 11 | proofs of the queue's, the lock's, the downloads' and the importer's safety | done |
| 12 | proofs: attempts within the limit, live claims ended by their holder, `ExportQueue` implements `ExportClaims` | done |
| 13 | proofs of the safety of the remote attempt, the feed, the watch and the campaign | done |
| 14 | proofs: steps, windows, once-only resources and feedback of `WaveReplay` | done |
| 15 | proofs: the assignment of groups, the jobs' safety, and that `ConfirmationJobs` implements `RemoteAttempt` | done |
| 16 | the character sync; the request and response protocol of `sim_bridge.py`; overlay selectors and the press clock in `WaveReplay` | next |
| 17 | `run_parallel`: adoption wait, stopping of workers; the teacher and distill phases of a campaign | later |
| 18 | the schedules, against reference definitions | later |

Some modules belong together. `ExportClaims` is what the operator
sees; `ExportQueue` takes each operation on the queue for one step and implements
it; `ExportQueueLock` opens up one such step and shows when it is atomic;
`ExportDownload` opens up the step `ImportCsv`, down to the steps of the importer.
`RemoteAttempt` takes the job of an arm on a node for one step; `ConfirmationJobs`
opens it up and is checked and proved to implement `RemoteAttempt`.

## 3. The modules

### `ExportClaims`

The life of an entry as the operator sees it: open, held, done, shut,
withdrawn, with the number of tries and of grants, and the grant whose import
counts. It knows no workers, leases or tokens.

### `ExportQueue`

| model | code |
|-------|------|
| `queue[e]` | an entry of `export_queue.json`; `status`, `worker`, `token`, `attempts`, `receipt` are its fields; `ttl` is what is left of `claim_expires_at` |
| `issued[e]` | how often `e` was claimed. Tokens are `uuid4` in the code; here they are this ordinal, as unique within an entry, and the worker compares them only within an entry |
| `stored` | imports that are on disk |
| `work[w]` | the locals of `run_worker`: the entry and token in hand, the `done` list, the limit it was given |
| `RecoverExpired`, `GiveBack` | `_recover_expired_claims`, `_set_unsuccessful_attempt_state` |
| `ClaimNext`, `ClaimInstance`, `Renew`, `Release`, `Commit`, `ResetFailed`, `PrintStatus` | the operations of those names, with the recovery that some of them perform and save |
| `RenewalRefused`, `CommitRefused`, `ReleaseRefused`, ... | their error paths and the handlers of `run_worker` around them |
| `Skip`, `Discover` | the assistant's commands |
| `Crash`, `QueueUnavailable`, `Restart`, `Tick` | the environment |

What it abstracts. Entries keep their order (`discover` may sort them again and add
new ones). The time an operation takes is no time; a lease is a number of
ticks. Errors of the file system, among them the transient ones that Windows
raises and the code retries, are `QueueUnavailable` once they win. An entry
queued by slug (`Unresolved`) gets its UUID by `Discover`: a worker that claimed it
before then does not find it any more (`Found`), as in the code, where the
worker's copy is compared by instance; its renewal and release are refused and it ends
(`RenewalRefused`, `ReleaseRefused`). An operation that has saved the queue and then raises,
because its lock file could not be removed, is not a step of its own: it is the operation
followed by `Crash` or `WaitFails`, apart from a commit, which would only go unreported. `run_parallel` starts the workers and
waits for the adopting one first; that wait is not modelled, so the model allows
orders that `run_parallel` does not.

### `ExportQueueLock`

One process per operation. `lock` is the lock file with its age, `pc` the
file-system call that is next: create exclusively, read the age, unlink a stale
lock, load, save, unlink. Time passes between any two of them. Each of the first three
may fail (`CallFails`): an error that Windows raises for a while, such as another program's
hold on the file, is tried again until the deadline, another ends the call. A refusal to
create the lock counts as contention (`Contend`), also when there is no lock file
(`Refused`); what follows then is a `stat` that finds nothing (`StatGone`), and the next
attempt at once, without a sleep or a look at the deadline. `Strand` is an operation that
raises and leaves its lock file behind, since its payload was not written or the last
unlink went on failing until `LOCK_RELEASE_TIMEOUT_SECONDS`. `Prompt` says
that no live holder keeps the lock until it looks stale; the code's operations
are short, its limit is 120 s. `Assistants` are commands that load and save
without the lock. The temporary file of `save_queue`, whose name is fixed,
is not modelled: a save is one step.

### `ExportDownload`

Attempts are numbered; the browser that attempt `i` starts and the file it
writes have the number `i`. `version[i]` stands for size and time of
change, and `memory` for the locals of `_wait_and_import`. `Download` is the
browser, which is external and writes its file in one or several pieces at any
time. An attempt that ends may leave its browser behind, since terminating
the driver does not close a browser that it started. `since` is a history
variable: it records the wait during which the file was last written. The baseline of a
wait leaves out files whose `stat` fails just then (`missed`), as the code does. In the loop
of the wait a failing `stat` passes the file over for one poll, which is no step.

The importer is the part of a worker from `TakeUp` to `Record`. `import_chronicle_csv`
reads the rows into a temporary file (`Parse`), copies the source and renames the
rows (`CopyAndPublish`), and writes the record with the size and time that the source
then has (`Record`); `import` holds the version that each look saw, the first of
them (`seen`) by the wait before it called the importer. `Refuse` is an error in any
of these steps, after which the wait goes on, and `Killed` the end of the worker;
`Left` says which files each may leave (`remains`). What rows say is abstracted to the
version of the file they were read from.

### `RemoteAttempt`

`local` are the receipts of the commands, `marks` the markers on the shared
disk, `op[o]` a command process with the markers it has read, `up` the
supervisors running, `inflight` launches and installations that were given up here
and may still arrive there, `starts` a count of what was started (a history
variable). `Phase` is `derive_status_v1`; its chain of cases is the order in
which the code tests. A probe takes two steps, as its shell command reads the
phases' markers first and those of nodes and arms later. `Launch` is the remote
shell command: `mkdir` of the launch lock, the running marker, the supervisor.
Supervisors run their arms as jobs (`JobEnds`) and end with a marker; what such a
job is stays open here. The
preparation of the plan before `stage` and the fetch of the result change none of
this state and are left out.

### `ConfirmationJobs`

Extends `RemoteAttempt`: every command, call and marker is as there, and `JobEnds`,
`EnvironmentFails`, `NodeDies`, `ReduceWrites` and `ReduceEnds` get their detail.
`LptGroups` is the assignment of groups to nodes, the loop of `_lpt_groups` as a
function of the set of groups that it has come to (`Assigned`). `work[<<u, a, g>>]` is
the worker of group `g` in the job of arm `a` at unit `u`, and its domain is the
dispatch plan: `waiting` in the pipe to `xargs`, `runs`, `rows` when the rows are
written, `done` when the receipt is, or `failed`, `killed` or `refused` (it
found outputs of its group). `files` are the outputs, in one directory for the smoke and one
for all nodes, as in the code. `XargsEnds` is the end of `_tracked_job_block`: the
exit status of the pool and the tests for every file of the node decide on the marker. After a
worker was killed, `xargs` may go on with the waiting groups or stop. `ReduceArm` is
a reducer, which needs every receipt and every row; the analysis follows the last one.
In the second reduction mode the analysis does both; the order is the same. Rows,
receipts and plans have no content here, so the comparisons of digests,
identities and counts are left out, and with them failures that only
damaged contents could cause; they would be `WorkerFails`, or a reducer's failure
in `ReduceScriptEnds`.

### `ExternalIngest`

| model | code |
|-------|------|
| `count`, `at`, `order`, `Upload`, `PageOf`, `HasMore` | the server, which is external: raids become visible in the order of their times, several may have the same, and it may list either end first |
| `objects` | the content-addressed store |
| `published` | the union of the manifests |
| `mark` | the watermark file: a time and the ids known to have this very time |
| `run[p]` | the locals of `ingest_external_api` |
| `StartFromWatermark`, `StartFrom` | `--use-watermark`, refused without a watermark, and `--upload-after` |
| `TurnPage`, `Refuse`, `Select` | the loop over pages, the refusal of a listing or selection beyond the limits, the selection without what the watermark holds |
| `Fetch`, `Publish`, `Advance` | the downloads in the order of upload, the manifest, the watermark |
| `Break` | an error after the retries, or a killed process |

A raid's several objects are one. Runs by explicit ids and leaderboards leave the
watermark alone and are left out. `waived` is a history variable: the latest time from which
anybody asked to start.

### `CalibrationWatch`

`file` is the SavedVariables file, `Torn` while the game writes it; its signature
counts the beginnings and ends of writes. `watch` is the watcher's memory
(`pending`, `handled`), `run[p]` the pass that the watcher or a `--once` is in, whose
steps are `process_once`: `Inspect` (the signature is the same before and
after the read), `ReadJournal` and `Append`
(the Shadow pairs), `Load` (receipts), `Import` (the importer reads the file again),
`Save` (all receipts, as they were loaded, and the new ones) or, when nothing
is new, `Judge` (an audit may complete and rewrite the receipts). Every failure of a pass is
caught and its signature counts as handled (`Finish`). `Kill` and `Restart` are
the launcher's, `Fault` an access that fails; either may leave half a line in the
journal (`Interrupted`). `overlapped` and `overtaken` are history variables: two
passes were under way at once; a campaign left the file after a pass had seen it.
Left out: the summaries, profiles and audits that a pass derives from an import, the
polling of live debug output, and a source file that is missing.

### `CausalCampaign`

A unit of work is named by phase, loadout and shard, and so is the file it
publishes; a compact training shard also has a file of its lanes. `files[f]` tells
who wrote it and from what, `runs[u]` are all runs of the task of `u`, with the
scheduler's own state of it. `Plan`, `LookAtFiles` and `Submit` are the submit script:
its two inventories and one transaction of the scheduler. The first inventory is
merged with the look at the tasks in the second (`Plan`): files never change once they
are there, so what the first has found of them still holds. The scheduler's write
guards (pending repairs and escalations) are taken as clear. `Begin`,
`PublishLanes`, `Publish` and `Refuse` are a run: it reads and checks its inputs, works, and
publishes with `os.link`; the full form writes its error where it can under the name
of its result (`Fail`), the compact form leaves nothing. `Kill`, `RerouteDead` and
`RerouteLive` are the scheduler and its nodes, which are external. `SubmitFails` ends a
submission of a phase that is queued already, once the bound on such repetitions
is used up: a submission that fails changes nothing.
What replays compute is left out, and so are the teacher and distill phases
of plan v8.

### `WaveReplay`

`program` is the searched program; `session` are the fields of
`SearchedWaveProgramSessionV1`, `latch` is `_pending_decision` of the replay's
wrapper, `replay` are the locals of `replay` and `_execute_decision`. A decision
carries at most one action, so it is a lane, an action and a number of ticks;
`Operations` lists what `_execute_decision` makes of it. `QUEUE_KEEP` has no
effect and is left out. `Choose` is one call of the session that finds an active
target. Its loop over the steps drops some and stops at one: what happens to a step
depends on the observation and the time only, so the loop is a set (`passed`)
and its first remaining member. `ChooseIdle` and `Fallback` are the calls that
find none. `Accept`, `PassOver` and `Refuse` are the simulator's answers to one
operation, `Confirm` and `RefuseFeedback` the feedback, `Advance` is
`_advance_to_input`. The simulator is external: it shows any surface of actions at each
decision and may refuse what it has just offered; a wait returns at the latest when
it is over, an action on the GCD after at most `GcdTicks`. Time of a wait or action passes in
`Advance`, as nothing reads the clock before. `executed` and `asleep` are history
variables.

## 4. Runs

| run | question | instance |
|-----|----------|----------|
| `ExportQueue_restart` | Are claims, receipts, attempts and reports right, and is a live claim ended by its holder only, under a fault, different limits, adoption, worker limits, a restart, a skip and UUIDs that arrive late? | 2 entries, 2 workers, lease of 1 tick, limits 1 and 2, 1 upset, 1 restart |
| `ExportQueue_live` | Does the queue implement `ExportClaims`, in which an import is final, does it empty when nothing upsets the workers, and does every claim end when somebody looks? | 1 entry, by slug and perhaps skipped, 3 workers, 2 attempts, 1 upset |
| `ExportQueueLock_pair` | Does the lock lose no update and does every call end, with one crash or stranded lock, one waiter at a time and failing calls? | 2 operations, 1 crash |
| `ExportQueueLock_break` | Does it with two waiters that find the same stale lock? No. | 3 operations, 1 crash |
| `ExportDownload_mixed` | Is every file imported new unless the baseline missed it, and that of the entry if its UUID is known? Do provenance records tell the truth, whatever step of an import fails? | 2 entries, one by slug, 3 attempts, 2 writes per file; 4 in all, with the files that a baseline missed |
| `RemoteAttempt_race` | Do locks, gates and receipts hold for two commands at a time under a lost call, a killed command and a dead node? | 2 commands, 2 nodes, 1 arm |
| `RemoteAttempt_killed` | Does a failure marker always show? No. | 1 command, 2 nodes, 1 lost call, 1 killed command |
| `ConfirmationJobs_live` | Do the worker pools implement the attempt, do workers stay apart, is the set whole when it is reduced, and does the attempt come to rest, as a failure when a worker was lost? | 1 command, 2 nodes, 1 arm, 3 groups, 1 lost worker, 1 fault of each kind |
| `WaveReplay_programs` | Does the session keep steps, windows and once-only resources right, and agree with the replay on every decision? | 3 programs of 2 or 3 steps, 5 actions, 2 targets, 4 decisions |
| `ExternalIngest_feed` | Does the watermark ever skip or forget a raid, does the feed catch up? | 2 processes, 3 raids with ties, pages of one raid, 1 broken run, 1 explicit start |
| `CalibrationWatch_watcher` | Are journal, imports and receipts right, and does the watcher catch up, with passes by hand, kills and failures? | 2 writes, 2 campaigns, 2 pairs, 2 upsets |
| `CausalCampaign_phases` | Do results rest on what they were computed from, are shards whole, what blocks a campaign, does it end? | 2 operators, full and compact, 1 loadout, 1 training and 2 held-out shards, 1 upset, 1 repeated submission |

The runs check what takes several steps to go wrong. A type invariant is stated in
every module; that of the queue is among its run's properties, those of the
queue, the downloads, the attempt, the replay, the feed, the watch and the campaign are
proved. `MutualExclusion` and `RecordVouches` are proved as well, and have no run.

Why these bounds are enough to be interesting. A stale worker needs a second
worker and one expiry; it meets a third claim of the entry since two attempts and a
reset give an entry four claims. A second entry lets a worker hold one while
another of its claims is recovered. The liveness of the queue is checked with one entry and three
workers: an entry is left behind when its holder lets go, or dies, after the others
have seen nothing pending, and other entries only keep workers from leaving. The lock's errors need a holder that is gone and
two waiters, no more. A late file of an earlier attempt needs two attempts,
one of another entry in between needs three; two writes make a file that
changes after it was seen, and between two looks of the importer. Two nodes make a
partial launch; two commands make a race, and a late launch that meets a command of
its own kind. Three groups, one of them dear, give one node a queue behind its pool of
one and the other a single group. Pages of one raid put an upload between any two
pages; three raids at two times always share one, so ties meet the watermark; the limits
of a run refuse a listing of three. Two writes change the file during a pass and after
it, and two upsets overlap a pass by hand with a kill. In a campaign one upset and one
repeated submission put up to three runs of one task side by side. In four
decisions a step can be refused, proposed again, and run or dropped, with a wait or a
tail action before it; two actions share a resource, one used by a step and the
other by the tail; the simulator does not list the fifth action. The state
graphs of the passing runs have 6,800 to 2.7 million states. The bounds are the constants
marked *bound* in the modules: `Skippable`, `Retried`, `MaxUpsets` and `MaxRuns` of the
queue, `MaxCrashes`, `MaxAttempts`, `MaxWrites`, `MaxFaults`, `MaxSpoils`, `MaxDue`,
`MaxUploads`, `MaxTime`, `MaxBroken`, `MaxExplicit`, `MaxCampaigns`, `MaxPairs`,
`MaxUpsets` and `MaxRepeats`. Leases and ages saturate where nothing tells them apart.
Symmetry is used in runs without liveness and only for sets whose members the
instance treats alike.

Deadlock is checked in the runs of the queue, where the operator may always act. Locked
operations, downloads, the remote attempt and its jobs, a replay, a bounded feed, a
bounded number of writes and a campaign really end, so their runs say
`CHECK_DEADLOCK FALSE`.

### Fairness

- `ExportQueue`: a live worker process is scheduled and each of its waits has a
  deadline (`WF` of each worker's own steps), and time passes. Renewal,
  crashes, restarts and everything the operator does have no fairness.
  `WatchedClaimsEnd` takes an operator who asks for the status again and
  again as its premise; without one the claim of the last worker that crashes stays.
- `ExportQueueLock`: live processes are scheduled and time passes. It is not
  assumed that a waiter ever finds the lock free, nor that any call of it succeeds.
  `EveryCallEnds` has one premise, that a call is not refused for ever while there
  is no lock file: without it the property is false (section 6).
- `ConfirmationJobs`: commands, scripts, pools and workers that were started run on,
  unless killed; each call has a timeout in the code. Nobody has to start a command, a
  late launch need not arrive. `ComesToRest` speaks of attempts in which no command
  is killed and no node dies: a node that goes down leaves its phase running for
  ever, which no part of the code claims to prevent. Calls and workers may be lost.
- `ExternalIngest`: one process of the scope goes on for ever, as a scheduled feed
  does: its runs work until they end (`WF`), and it is started again and again with
  limits that suffice whenever there is a watermark (`SF`, since its runs may
  be broken in between). The other processes may stop anywhere.
- `CalibrationWatch`: a write of the game ends, the watcher polls, its pass goes on
  and the launcher starts it where it is not running (`WF` each). Passes by hand, kills
  and failures are not fair.
- `CausalCampaign`: one operator keeps queuing phases that have nothing yet (`WF` of
  its planning and of its submission), and the cluster works on what is queued and
  reroutes what died (`WF`). Other operators may stop anywhere.

## 5. Proofs

Every module `M` that is proved about has its theorems in `MProofs`. They are
theorems of its `Spec` for all values of the constants, under the assumption that `M`
states of them (their types, and what is said below). `IInv` is the inductive
invariant, and `Invariance` the theorem `Spec => []IInv`. What a step does to one part
of the state is a lemma of its own, cited by name.

`ExportQueueProofs` proves `TypeOK`, `HeldByNewest`, `ReceiptOfNewestClaim`,
`ReportedImported`, `AttemptsWithinLimit`, `LiveClaimEndsByHolder` and, under a
hypothesis, `PromiseKept`. `QueueAssumption` says that at least one `--max-retries`
is given (the option has a default) and that it is not 0 (the parser refuses that).

The first four need more than they say. `IInv` adds: a claim in the
queue carries the newest token; a token in a worker's hand was issued; two workers
with the same token of the same entry are the same worker; the claim in the queue
names the worker that has its token; a worker that is committing has stored its
CSV; an entry that was ever imported keeps a receipt. The argument is that tokens
only grow: a claim gets a token no process has seen, so a worker that compares
its own token with the queue's and finds them equal holds the newest claim, and
whatever it writes concerns no other worker.

`AttemptsWithinLimit` is proved beside it: what is offered was below the largest limit
when it was given back, what failed was at or above the smallest. `LiveClaimEndsByHolder`
goes through every operation on the queue: a recovery touches no entry whose lease still
runs, and any other write compares tokens first. `PromiseHolds` maps an entry to what
`ExportClaims` sees of it and every step of the queue to a step there or a stutter; the
recovery that an operation performs in passing changes several entries at once, and
its effect on each is a release. The promise has one limit, so the theorem assumes that
all commands are given the same (`OneLimitGiven`), as `run_parallel` does for its workers;
with several, an entry may be tried more often than the smaller one (section 6).

`ExportQueueLockProofs` proves `MutualExclusion` and `NoLostUpdate` for any number
of locked operations under `Careful`: no crash and no lock left behind, no holder that
looks stale, no unlocked command. Then no lock is ever stale while it is held (`LInv`), nobody reaches the
step that breaks one, and the holder's copy of the file is the file. That each
of the three conditions is needed is shown by `ExportQueueLock_break` (a crash, two waiters) and
by the text of the code for the unlocked commands (section 6).

`ExportDownloadProofs` proves `TypeOK`, `WrittenDuringWait`, `ResolvedIsOwn`,
`RecordTells`, `RecordVouches` and `RefusedAsRead` for any
number of entries, attempts and writes. The strengthening for the first three is
`ChangedSince`: while an attempt waits, a file it may look at that differs from the
baseline was written during this wait, or is one that the baseline missed. It holds when
the baseline is taken, since a file of interest that exists is in it or could not be
read, and a browser that writes later does so during the wait. The exception cannot be
proved away: the code tells a missed file from one that has just come by nothing.
`Begun` says that the files of attempts yet to come belong to no entry.
For the importer the argument is that versions only grow: the looks of one import are
in order, from the version the wait saw to the size and time in the record, so when
the first and the last are the same the looks between them are too; and what a
refusal notes is a version that was no newer than the one the rows were read from.

`RemoteAttemptProofs` proves `TypeOK`, `StartedOnce`, `GatesHold`, `ReceiptMeansStarted`,
`PartialLaunchShows` and `FailedIsFinal`, for any number of commands, nodes, arms and
faults; `AttemptAssumption` says that there are nodes, finitely many, and that none is named
like a phase. The danger is that a launch acts on markers read one after another some time
ago, and may arrive after its command has given it up. `IInv` says why that is harmless.
Markers that matter to a gate stay once they are there, so what a process has seen is
still there (`ProcessFits`), and a launch that is sent, or in flight, was cleared for good
(`UnitsCleared`). A unit was started as often as it has a launch lock (`Locked`). For
`PartialLaunchShows` it also says that, unless a command was killed, somebody answers for
every node that was started or may yet be (`NodesAnswered`): the command that is still at it,
or its receipt.

The same module then takes up `ConfirmationJobs`, which extends `RemoteAttempt`, and proves
`ImplementsAttempt`, `JobsTypeOK`, `NoneRefused` and `ReductionFindsAll`, for any groups,
costs, pools and losses. Every step of the jobs is one of the attempt or leaves it alone
(`JobsStepMaps`), so all of the above holds of them too. `JInv` says that the files
of a job are those its worker has written (`JobFits`), and that an arm is marked complete only
when all its groups are done, and done they stay (`ArmFits`). The rest depends on the
assignment: two jobs share a file only if two nodes have one group, and the reduction
misses files if no node has it. `LptPartitions` shows that neither happens, by a smallest
counterexample: the loop gives the last group of a set to some node, since the nodes
are ordered by load, number of groups and place, and the others are assigned already. To
reason about the recursive function `Assigned` at all, `AssignedObeys` first proves that a
function that obeys its equation exists, from functions that obey it for sets of up to `n`
groups. From `JobsAssumption` the proofs use that groups are finitely many, costs are numbers,
the nodes are those of the order, and, for the smoke, that the first node has a group.
`RemoteAttemptProofs` holds these proofs as well because they rest on `IInv`.

`ExternalIngestProofs` proves `TypeOK`, `NothingSkipped` and `NothingForgotten`, for
any number of runs, uploads, page sizes and limits and both orders of listing.
`IInv` describes a listing that is under way while raids are uploaded. Newest first, the
pages shift towards what was seen already, so nothing below what was seen is missing,
only what came later; oldest first, they do not shift. A whole listing therefore lacks
nothing but raids that are later than all it saw (`Chosen`), and these the new watermark
does not cover. Every watermark that a run carries satisfies what the watermark in the
file does (`MarkFits`), so that it does not matter which of several runs writes last.

`CalibrationWatchProofs` proves `TypeOK`, `JournalDeduplicated`, `ReceiptMeansImport`
and `ReceiptsKept`, for any writes, campaigns, pairs and upsets. `IInv` tells what a
pass knows between its looks at the files: campaigns that it has seen are in the file,
or imported after its import, or were released by the game meanwhile (`CampaignsFit`);
and a pass that was alone knows all of the journal and of the receipts that it is about
to rewrite (`Knows`).

`CausalCampaignProofs` proves `TypeOK`, `BundlesMatch`, `RestsOnInputs` and
`OnlyHarmBlocks`, of the full and of the compact form, for any number of operators, loadouts,
shards and upsets. The argument is that a file is published under a free name and then stays:
what a phase needs was there when it was queued (`Sound`), so it is there whenever one of
its runs starts, and what a run has read is what its inputs still are (`RunFits`). A
shard's lanes without a commit belong to a run that is half done, and a commit beside them to
the same run, as nobody else can publish over either (`FilesFit`). The last run of
a unit is the one that the scheduler knows, and with no harm done it is at work, or has left
the unit to another that is (`UnitFits`).

`WaveReplayProofs` proves `TypeOK`, `StepsAsExecuted`, `StepsInWindows`, `TailOnce`,
`FeedbackMatches` and `WaitsEndInWindow`, for any programs, tails, targets and times and any
number of decisions. `WaveAssumption` says what the constructors of steps and guards let
through, and that neither the wait for quiet nor the poll is 0. `IInv` says that the
steps that are done or dropped are an initial part of the program (`ClosedFits`), that
the session's proposal is for the first of the others, is inside its window, where it
stays, as no time passes while a decision is carried out (`DecisionFits`), and that
the decision's own operation comes once (`TodoFits`). So what is carried out exceeds
what the session counts by one step at most, that of the decision under way
(`Counted`), and this one is told to the session before it proposes again. A wait for a step,
from the moment it is proposed, ends by the step's deadline (`AsleepFits`). That the
decision of the tail is the first ready action uses that a set of numbers has
a least member (`MinIsLeast`), which the library derives from the well-foundedness of `<`.

Only model-checked:

- the liveness properties `AllSettled`, `WatchedClaimsEnd`, `EveryCallEnds`, `ComesToRest`,
  `Ends` and both `CatchesUp`, as the proof system reaches neither liveness nor `ENABLED`;
- what the two runs that refute something show: a counterexample is its own proof.

## 6. Where the code and its documents differ

Two runs refute what a document or comment says of the program:

- `ExportQueueLock_break`: two waiters that judge the same stale lock remove
  the second one's fresh lock, and two operations overlap.
- `RemoteAttempt_killed`: the marker of a partial full launch is written but
  never asked for, so it is lost on a command that dies before its receipt.

More were met and have no run of their own:

- The guide says that after a worker exits abnormally its expired claim returns
  automatically (`CHRONICLE_PARALLEL_EXPORT_zh-CN.md:18`); it returns only as part of
  a later command, so the last worker that crashes leaves its claim.
- The guide says that the lock protects every concurrent read-modify-write of the queue
  (line 20 there) and warns only against running the old collector at the same time
  (line 93), but `discover`, `skip` and `import-manifest` save without the lock as well
  (`chronicle_export_assistant.py:906`).
- `--max-retries` bounds the attempts of an entry (line 95 there), but a claim does
  not compare them (`chronicle_parallel_export.py:187`), so with different limits
  on different command lines an entry may be tried more often than the smaller one;
  `AttemptsWithinLimit` therefore compares with the largest limit.
- For an entry without a UUID any new file will do (`chronicle_parallel_export.py:445`),
  also that of a browser that an earlier attempt left behind, where the assistant
  announces the file newly generated by this page (`chronicle_export_assistant.py:718`).
  `ResolvedIsOwn` therefore speaks of entries with a UUID.

What the models show of the code that contradicts no document, and that a
property therefore names as an exception:

- A discovery that gives an entry its UUID while a worker holds it ends that worker:
  `renew_claim` and `commit_import` no longer find the instance, and then `release_claim`
  raises in the handler (`chronicle_parallel_export.py:307`). The claim stays; if the
  other workers have seen nothing pending and gone, nobody comes back for the entry,
  although nothing crashed. `AllSettled` excepts it (`Overtaken`).
- `queue_file_lock` may stay in its loop far beyond its timeout: on Windows a
  refusal to create the lock file counts as contention (lines 95-98 there); when there
  is no lock file, `stat` finds nothing and the loop goes back at once, without a sleep and
  without its deadline (103-104). As long as the directory refuses, for instance because it
  may not be written to, the process spins. `EveryCallEnds` excepts it (`Refused`), and
  only it.
- A file that cannot be read for a moment while the baseline is taken is left out of it
  (lines 465-468 there) and then counts as new, so that an old file, for an entry
  without a UUID even one of another entry, may be imported. `WrittenDuringWait` excepts it
  (`missed`).
- Two passes of the calibration watch at once, or a pass killed while it appends, leave a
  journal that every later pass refuses (`import_savedvariables.py:1158`), and a failed
  pass is not repeated until the file changes or the watcher starts again
  (`calibration_watch.py:3476`): `Stuck` in `CatchesUp`.
- Receipts are saved as they were loaded, so overlapping passes may lose one:
  `ReceiptsKept` excepts them.
- A compact training run that dies between its lanes and its commit
  (`upper_kara_causal_program_remote_compact_v2.py:660`), and a run of the full form
  that ends with an error, block their campaign: `OnlyHarmBlocks` says that nothing
  else does.

## 7. Not covered

No property speaks of these dangers, of which `PROJECT.json` lists the two that
matter most:

- the adoption wait of `run_parallel` (`chronicle_parallel_export.py:682`);
- a raid that always fails, which stops the feed of its scope
  (`chronicle_external_api_ingest_v1.py:1519`), as it does in the model, where the
  failures of runs are bounded;
- raids that become visible late or are withdrawn, of which the model assumes that
  the server does not do it;
- a node that goes down under its supervisor and leaves its phase running for ever;
- the fixed names of the temporary files of the queue and of the calibration watch:
  two writers at once end one of them with an error, and a save is one step here;
- the raw copy of the SavedVariables importer, a later look than its rows, as in the
  CSV importer, where `RecordTells` covers it;
- the waits of programs that fill their gaps, which last until an action of the tail is
  ready even if the window of the next step closes before
  (`offline_wave_searched_runtime_v1.py:550`);
- a submission that is given up after 120 seconds: it may arrive or not, as any.

Not modelled at all are the components that section 1 and `PROJECT.json` mark so: the character
sync and the simulator bridge, which the plan has next; the transports, of which only
the outcomes enter; the schedules and the ordered sink executor, sequential
algorithms for later; and the reconstruction of trajectories, the evaluation and the search,
whose control is a straight line and whose data is beyond exhaustive checks. They are most
of the repository's lines, which is why the mapped share of the whole is small.
