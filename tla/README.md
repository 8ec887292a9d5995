# YieldForge in TLA+

Models, model-checking runs and proofs for the stateful parts of YieldForge, the
research workbench for material nesting. Paths below are relative to the
repository; the Python package is `yf/src/yieldforge`.

## The system

YieldForge is mostly batch computation over fixed data: geometry, search,
statistics and certificates. What is hard to get right by testing is the small
part that keeps state across concurrency, crashes and restarts.

| Component | State | Operations | Hard behaviour |
|---|---|---|---|
| Solver-job supervisor (`workbench/jobs.py`) | jobs in memory, active identifiers, one task per job, a worker process group, a reader task, an archive thread, the job directory | `start`, `start_pair`, `cancel`, `events`, `completed_batch`, recovery at startup | asyncio interleavings, a thread, process groups, deadlines, cancellation, crash between two writes |
| Job events (`workbench/contracts.py`) | `events.jsonl` | validation of a stored history | which histories a restart accepts |
| Candidate archive (`archive.py`) | an archive directory | write aside, rename | atomic appearance, leftovers |
| Workbench application (`workbench/app.py`) | a replay cursor per event stream | HTTP routes, server-sent events | when may a stream close |
| Web client (`web/src/nest/NestLab.tsx`, `web/src/jobs`, `web/src/api.ts`) | the job on the page, received events, selection, timers, pending requests | submit, cancel, follow the stream, reconnect, refresh the history | duplicates and gaps after a reconnect, answers that come late, effects that run after the state changed |
| Solver worker (`workbench/solver_worker.py`) | none | emits a phase, candidates, a final message | the environment of the supervisor |
| Order-book catalog (`workbench/order_books.py`, `order_books/archive.py`) | a directory of immutable manifests | list, detail, generate | publication against listing, capacity, leftovers of a crash |
| Datasets (`datasets/`) | downloads, a Postgres catalog | fetch and promote, import, query | two fetches of one file |
| Calibration and remnant experiments (`experiments/`) | write-once records of a run | submit jobs over HTTP, wait, read evidence, resume | a crash after submit, two runs at once, a restart of the workbench |
| Replay engine (`replay/`) | caches | fold orders over an inventory | exact geometry and Decimal amounts |
| Exact oracle (`oracle/`) | immutable artifacts; of an experiment's phase: owned processes, their groups, pipes and payload threads | publish, search, check, run a phase in worker processes | races with foreign changes, rollback, durability; handshakes, deadlines and what a failed phase leaves running |
| Realistic falsification (`realistic_falsification/`, `tools/`) | cell evidence, checkpoints, failure receipts, summaries, a manifest | run and resume a stage | orphans of a crash, failures that are counted, two runs at once |
| Temporal benchmark, residual and reuse geometry, baselines, CLI | caches, registries of the objects they made | pure computation | none a model checker reaches |

How they interact: the browser calls the application; the application calls the
supervisor, the order-book catalog and the corpus; the supervisor runs the
worker as a process and writes job directories and archives; the event stream
reads the supervisor's memory; calibration is a client of the same HTTP
interface. The experiment stages touch the rest only through files.

What makes each correct: a job has at most one outcome, recorded once, agreed by
memory, `events.jsonl`, `terminal.json` and the archive, and startup accepts
whatever the service has written as a whole; a stream delivers every event once and in order
and ends after the terminal one; a catalog is readable whenever a publisher may
have died; a published artifact stays, and a rollback removes only what it made; a
resumed run does no work twice and adopts only its own orphans.

## Modules

| Module | What it is |
|---|---|
| `JobHistory` | the events of a job and `_validate_event_history`: `ValidHistory` |
| `SolverJobs` | the supervisor with its worker, reader, thread, disk and restarts |
| `JobOutcome` | the abstract promise: one outcome, never changed, archive exactly with "completed" |
| `MCSolverJobs` | constants for TLC |
| `JobStream` | the event stream, the connection and the page that follows a job |
| `OrderBookCatalog` | the catalog of order books, its publication and its pages |
| `CalibrationRun` | the resumable run of registered cells against the workbench |
| `ArtifactPublisher` | `publish_immutable_artifact` under faults and foreign changes |
| `CentralStage` | the resumable central economic screen |
| `SolverJobsCancel` | proofs about `SolverJobs`: its types, and that an accepted cancel wins |
| `SolverJobsOutcome` | the same: what history, terminal file, archive and snapshot say in the end, and that the supervisor implements `JobOutcome` |
| `SolverJobsService` | the same: what a job leaves behind, which jobs run together, which histories a startup accepts, pairs |
| `OrderBookCatalogProofs`, `CalibrationRunProofs`, `CentralStageProofs`, `ArtifactPublisherProofs`, `JobStreamProofs` | proofs about the module of that name |

`SolverJobs` composes `JobHistory` (EXTENDS) and `JobOutcome` (INSTANCE, through
the refinement mapping `RecordedOutcome`, `disk[j].archive`). `JobStream` extends
`JobHistory` too: the supervisor appears in it as a writer that keeps a history
valid, which is what `SolverJobs` shows of it. `CalibrationRun` uses what
`SolverJobs` shows a client: one active job at a time, each ends, and a status
that could not be written lives until the restart. `CentralStage` takes for granted
what `ArtifactPublisher` shows: a file is published as a whole or not at all, and
an error may be raised of a publication that was done.

### SolverJobs and the code

The service is one asyncio loop, so code between two awaits is not interleaved
with other tasks. A runner's position is `pc[j]`. The values in `Await` are the
places where `_run_job` awaits; those in `NoAwait` lie inside a stretch without
await that makes several writes, and exist only so that a crash, the clock, the
worker or the thread can come between the writes. `Quiet` keeps every other task
of the loop out meanwhile.

| State | Code |
|---|---|
| `booking` | the call that holds `_service_lock` and is creating its jobs |
| `active` | `_active_job_ids` |
| `mem[j]` | `_JobState`: status, candidate count, `cancel_requested` |
| `pc[j]`, `goal[j]` | where the runner is, the status it is about to record |
| `late[j]` | the deadline has passed, for the timer and for `time.monotonic()` |
| `reader[j]` | the `_consume_stdout` task and its result |
| `worker[j]`, `exitOk[j]` | the process group: `alive` has the direct worker, `kin` only descendants; `dropped` while its cancelled spawn is being undone, `orphan` for what that leaves |
| `thread[j]`, `abandoned[j]` | the archive thread and the `threading.Event` it shares |
| `disk[j]` | what was written whole: the job's directory, `events.jsonl`, `terminal.json`, staging, archive |
| `torn[j]` | the files of the job that hold part of a write |

Actions follow the code from top to bottom: `Start`, `MakeDirectory`, `QueueJob`
(`start`, `start_pair`, `_create_validated_state_locked`); `Cancel`; `Begin` to
`Spawned` (the spawn race); `RunCancelled` to `RunDrained` (the two supervision
loops); `StopDone`, `SettleDone` (`_stop_process`, `_settle_reader`);
`ArchiveGivenUp` to `Commit` (staging and publishing); `FinishEvent`, `FinishMeta`,
`Cleanup`, `Reap` (`_finish_terminal` and the finally block); `Read...`
(`_consume_stdout`); `Thread...` (`_create_staged_archive`); `Crash`, `Shutdown`,
`Restart`, `Recover...` (the process and `_recover_existing_jobs`).

Writes. `_append_event` and `_write_new` open, write and close; nothing takes back what
a write left that did not get to its end. The `...Fails` actions are an `OSError` at a
write while the service is up, `CutWrite` is the end of the process within one, and
either leaves nothing of the write or its beginning (`Tears`). A recovery that cannot
write raises in the constructor, which ends the process: that is `CutWrite` or `Crash`.
A write that raises after everything is on disk (the `chmod` of `_write_new`) is a torn
file here, which the next startup refuses although the code's would be whole. The
files are never synced; a loss of power, which may take back what a write has
finished, is not modelled.

The spawn race. A runner that is interrupted while `create_subprocess_exec` is under way
cancels that task, writes its terminal files and awaits the task in its finally block
only. There asyncio kills the direct worker, if it was forked, and waits for it
(`SpawnDropped`; `Reap` waits for that). `state.process` was never set, so nobody signals
the group: what such a worker has started itself is left (`orphan`).

Abstractions. A candidate is its position in the stream, a batch its length. Paths,
hashes, payload limits and error texts are left out; a line that breaks the
protocol in any way is one action. Identifiers are fresh because they are uuid4.
`request.json` is part of the step that writes the first event, and a creation cut short
is a directory that is `partial`; `runtime.json` is part of the step that writes the next
event, unless its own write fails or is cut off.
Locals that are not looked at again are reset, which only joins equal states.

### JobStream and the code

| State | Code |
|---|---|
| `log[j]`, `mute[j]` | the persisted events; a terminal status only in memory |
| `post[j]`, `cancel[c]`, `history` | the POST, DELETE and list requests, each with its stage |
| `link` | one `streamJobEvents` fetch: the cursor of `_stream_job_events` and what the reader has seen |
| `stream` | the state of `jobReducer` |
| `view` | `job`, `selectedRunId`, `lastSequence`, `reconnectAttempt`, `refreshedCompletedJob` of `NestLab` |
| `due` | effects whose dependencies changed and which React has not run yet |
| `hasty`, `overtaken` | what has happened: see below |

The server: `ServeCreate`, `ServeCancel`, `AnswerCancel`, `AcceptStream`, `SendEvent`,
`EndStream`, `ServeFirstListing`. The page: `Submit`, `ClickCancel`, `OpenRun` and
the answers `CreateAnswered`, `CancelAnswered`, `RefreshAnswered`,
`FirstListingAnswered`; `TakeEvent`, `StreamOver`, `Reconnect` for the stream; and
`RunEffects`, which does everything the effects do between two renders. A
response is a separate step from its request, so answers arrive in any order and
between any two effects. `Drop`, `Crash` and `LoseTerminal` are the faults.

A request for the completed runs belongs to the effect that sent it and keeps the
`completedJobId` of its render (`history.refresh`). Its answer is taken for that job
until the cleanup of the effect has run, which `due` tells. One job that is completed in
memory only makes every such request fail (`ListingFails`: the answer 500).

The user may do anything at any time. `hasty` remembers that the user has once submitted
before the answer to an earlier submit, or submitted or opened a run before the effects
of a render had run: code and form allow both, and the page then shows what comes last.
`overtaken` are the jobs whose create answer came when the page showed them already,
selected from the first listing. Neither restricts a step of the service, of the network
or of the page; they are read by the properties that name these exceptions. A hasty
act counts as a fault (`Noted`), which bounds how many there are.

### OrderBookCatalog and the code

`published`, `temporaries` and `left` are the entries of the runtime directory: final
names, temporary files somebody will remove, and those nobody will, because their
process died or its `os.unlink` failed. `proc` walks through
`generate` and `write_manifest`: `ReadCatalog`, `CheckCapacity` (the directory is read
twice), `Create`, `Link`, `Unlink`. `listing` is a client that asks `list_books`
for one page after the other. A process serves one request at a time, because the
routes call the service from the event loop; several processes may share the
directory.

### CalibrationRun and the code

`recorded`, `outcome` and `result` are the files `attempt-N-job.json`,
`attempt-N-outcome.json` and `runtime-result.json`; `run[r]` is a process in
`orchestrate_calibration` or `orchestrate_confirmation`, which have the same loop;
`jobs` is the workbench. `Look`, `Submit`, `Save`, `Wait`, `ReadEvidence`, `Record` are
the steps of an attempt, `Advance` the loops, `Listed` and `ListAnswers` the
route the evidence comes from. `Break` is every way a run ends early.

### ArtifactPublisher and the code

`files` is the directory and `durable` what of it the disk has; `content` and
`synced` the same for the bytes of each inode; `lock` the flock of the parent;
`me[p]` the locals of a call: the baseline it compares with, what it owns, how it
will end. The actions follow `publish_immutable_artifact` from `Lock` to
`Release`; `LookAtTarget` to `RestoreQuarantined` are `_remove_owned_entry`, used by
the rollback and by the loser of a race. Checks and their acts are separate steps,
and `Put`, `Remove`, `Tamper` and `MoveParent` come between any two of them.
`PowerLoss` keeps or loses each change that was not synced.

### CentralStage and the code

`sidecars`, `checkpoints`, `failures`, `summaries` and `manifests` are the files of
the output directory; `run[r]` is `run_economic_central_stage` in one process.
`Start` and `Survey` are the checks of the head of that function, `Adopt` is
`_recover_orphan`, `Execute` to `Reread` are `_execute_cell`, `RecordFailure` is
`_record_failed_cell_attempt`, `Validate` to `Final` the end. Looking for a manifest
(`FindManifest`) and publishing one (`PublishManifest`) are two steps, as in the code,
and the name is made from the content, so two runs may publish two. A cell's evidence is a
function of its position, so a file is its position, and a checkpoint adds the
number of failed attempts it anchors.

## Runs

`tlc -config SolverJobs_<run>.cfg MCSolverJobs`, and for the other modules
`tlc -config <Module>_<run>.cfg <Module>`.

| Run | Bounds | Question |
|---|---|---|
| `job` | 1 job, 2 candidates, 2 ends of the service, 1 failed write | do memory, history, terminal file, archive and processes agree, is `JobOutcome` implemented; does every run end, every job close, every staging go |
| `calls` | 2 jobs, 2 `start` calls, 1 restart | is a call let in while an earlier job is unfinished |
| `pair` | 2 jobs, 1 `start_pair`, 1 restart | does one arm go on without the other, also after a crash between the two |
| `replay` | 1 job | violation: a history that startup rejects |
| `terminal` | 1 job | violation: `terminal.json` while the worker of a cancelled spawn lives |
| `halfpair` | 2 jobs, 1 failed write | violation: an arm left queued |
| `follow` | 2 jobs, 4 events each, 1 cancel, 1 fault or hasty act | does the page show one job, contiguously, truthfully and to its end |
| `select` | 1 job, 1 cancel, no fault | violation: a completed run that is not selected |
| `publish` | 2 publishers, 2 contents, 2 faults, 2 foreign changes, 3 together | does what was published stay, does a rollback remove its own and nothing else |
| `runs` | 2 processes, segments of 2 cells, 3 faults | can the next run always go on, is no work done twice, is each manifest founded, and the only one without overlap |
| `calibrate` | 2 runs, 2 cells of 2 attempts, a page of 1, 1 overlap, 1 cut, 1 fault | do the records agree with the jobs, does work count, is nothing repeated |
| `books` | 2 processes, 5 books, room for 2, pages of 1, 1 crash, 2 faults | when is the catalog refused, is a listing exact |

Why the bounds are enough. Supervisor: jobs share nothing but `active`, `booking` and the loop
itself, so one job shows what happens to one job; two jobs are needed for the
questions about calls, and these do not depend on candidates. Two candidates are the
smallest stream with a coalesced event and a flush. The second restart is for a
crash during recovery. One failed write lets each write fail in some behaviour;
a second failure meets a job whose first failure already excuses it. Either end of the
service may fall within a write. `calls` and
`pair` use symmetry: their calls are closed under exchanging the jobs, and they
check no liveness.

`follow`: the second job is the one a late answer could bring to the page in place of
the first, or the run that completed before the page was opened. Four events are
queued, running, one more, and the end, so a cancel and a cut fit between any two.
One fault at a time: a second drop finds the page in the state a first one left, and
the reconnection is the same. A hasty act takes the place of the fault, since what it
can break is exempted from then on.

`publish`: two publishers are a publisher and its rival, a crashed one and its
successor, and those who agree or do not. Three troubles make a fault, a foreign
change and another fault during the rollback of the first.

`runs`: with two cells a segment has a first, a next and a last one, and the border
between the segments is crossed; the code has twenty. Three faults allow a failed
attempt, a crash between evidence and checkpoint and a fault of the recovery.

`calibrate`: the second cell follows the first; with a page of one, one later completed
job hides an earlier one, as fifty do in the code. `books`: one committed book and
room for two reach the capacity with two processes that both checked it; the second fault
lets a process fail to remove the temporary file of a publication that failed.

Deadlock is not checked where identifiers, requests or publishers are used up, and
where a service may stay refused.

Fairness. In `job`, the loop runs a ready task (`Creation`, `Runner`, `Recovery` is
weakly fair); time passes (`Expire`); the archive thread returns (`Thread`); a pipe
whose writers are dead reaches its end (`ReadEOF` for a dead worker); SIGKILL ends the
child of a cancelled spawn (`SpawnDropped`). Somebody
starts the service again after it ended. The worker, its descendants, the spawn and
the clients owe nothing: a worker may hang for ever and a client may never cancel,
and the runner must end all the same. `AcceptedJobsClose` excuses a failed write.

In `follow` the loop serves what it can, the browser runs its callbacks, timers and
effects, the supervisor ends every job and somebody starts it again; the user owes
nothing. In `publish` a living process goes on and the flock is granted; nothing is
owed by those who crash or by the others. In `runs` and `calibrate` a run goes on,
and the operator starts it again as long as there is no result: both tools are
made to be resumed by hand. `StageCompletes` and `ResultInTheEnd` are about that
repetition, since every single run may fail.

### What the code does not keep

* `replay`: a cancel accepted during the grace period of a timeout writes
  `cancelling`, then the runner writes `timed_out`. `_validate_event_history` rejects
  this, and since recovery raises on the first bad directory the whole service
  does not start. `HistoriesReplayOrKnownDamage` shows that this is the only history of
  the kind, and `RefusesOnlyKnownDamage` that a startup refuses nothing but this, a
  creation cut short, and a file that holds part of a write.
* `terminal`: asyncio kills the direct child of a cancelled spawn, but only when the runner
  awaits the task in its finally block, after it has written `terminal.json`.
* `halfpair`: a failing second arm leaves the first one queued for good; nothing
  cancels it before a restart marks it failed.
* `select`: the answer to a cancel that came too late replaces the job on the page
  while the list of completed runs is on its way. The effect drops the list and
  remembers that it has asked, so the completed run is never selected.

Properties that hold with an exception name it, and the exception is real:

* `HistoriesReplayOrKnownDamage` and `RefusesOnlyKnownDamage` except the late cancel of
  `replay` and files that hold part of a write. A service that serves has such a file
  only after a write failed while it was up, and its next startup refuses it; one that
  a crash has cut off is refused at once.
* `NoProcessLeftBehind` excepts what the worker of a cancelled spawn has started itself.
* `NothingLeftBehind` excepts a staging file whose identity could not be had: the code
  then neither removes it nor reports that it is left.
* `ManifestIsFounded` allows more than one manifest once two runs have overlapped; each is
  founded nevertheless.
* `ShownIsContiguous`, `PageIsOfOneJob` and `ActiveJobStays` except a hasty user. A reset
  under a fetch that still delivers mixes two histories, and of two submits the later
  answer owns the page.
* `EndIsShown` excepts an overtaken job, and a hasty user. The job completes
  before its create answer arrives, the first listing selects the completed run, and the
  answer then sets it back to `queued` under the same identifier. Neither dependency of the
  stream effect changes, so no stream is opened and the end does not come.
* `PageIsOfOneJob` and `ActiveJobStays` except the answer to a cancel, which is put on
  the page without looking at what it shows. `ActiveJobStays` also excepts the
  answer to a refresh that comes after a render in which its effect is obsolete
  and before the effect's cleanup: the job is then replaced by the completed run.
* `PairReservedWhole` excepts failed writes; `halfpair` shows what they do.
* `EndIsShown` is about ends that are in the history. One that could not be written
  makes the page reconnect until the service is restarted.
* `Resumable` excepts `lateError`: an error raised after the checkpoint was published
  is recorded as a failed attempt of the same cell, and the receipt and the
  checkpoint then contradict each other for every later run. It also excepts
  overlapping runs, which nothing prevents.
* `CompletedWorkCounts` excepts a failed write or request and jobs beyond the page: one
  completed job without its terminal event makes the whole list answer 500, and the
  runner records its own completed cell as invalid, for good.
* `OnlyLostJobsRepeat` bounds the repetition by the runs that can be between submit and
  record; the record of the job comes after the submission.
* `RefusedForKnownReasons`: while a book is being published, and for ever after a
  crash there or an unlink that failed, the hidden temporary file makes the whole catalog unreadable.

## Proofs

`tlapm <module>.tla` for the eight modules named above. Every safety invariant and
every action property a passing run checks is a theorem, and so is the refinement of
`JobOutcome`: 33 theorems, for every value of the constants that satisfies the
assumptions below. An invariant of the runs is hardly ever inductive. Each module
states the one that is, piece by piece, and proves that `Init` establishes it, that
every action keeps it, and that it implies the property.

| Assumed of | What | Why the code justifies it |
|---|---|---|
| `SolverJobs` | a call is one job or a pair of two different jobs; bounds are numbers | `start`, `start_pair` |
| `PairsAreReservedWhole` | `FreshIds`: two calls share all their identifiers or none | uuid4; without it a job would count as half of a call that never came |
| `JobStream` | at least one job; bounds are numbers | the page has something to follow |
| `OrderBookCatalog` | finitely many processes; the committed books are finitely many and fewer than the capacity; a page has at least one book | 1 to 50 books a page, room for 256 files, the committed ones among them |
| `CalibrationRun` | finitely many runs, at least one cell, a page of at least one job | the routes and the protocol |
| `CentralStage` | a segment has at least one cell | it has twenty |
| `ArtifactPublisher` | there is some content, and it is none of the three marks for other bytes | the marks are the model's |

### Supervisor

* `Types`. The terminal event and `terminal.json` record `goal[j]`, so `TypeInv` adds
  `GoalChosen`: wherever a runner can still reach them it has chosen an outcome.
* `CancelIsFinal` (`AcceptedCancelWins`). `CancelInv` says per job: `completed` is chosen
  only at the last look at the clock and becomes the status in the same stretch of
  code (`CompletionCommitted`, `CompletedIsOver`); the reader cannot move the
  status back, because it has ended before the archive is staged (`ReaderAttached`); an
  archive of a job with a runner is there only in that stretch
  (`ArchiveCommitted`); a job being created, or not created, has nothing yet
  (`NewIsIdle`); and what a restart leaves (`OutOfService`).
* `TerminalEventStaysLast`, `TerminalFileIsTrue`, `ArchiveIsFounded`, `SnapshotsAreTrue`,
  `NoJobIsForgotten`, from `OutcomeInv`. The code nowhere asks whether a history is
  closed before it appends. That nobody does follows from where runner and reader
  stand (`ClosedIsOver`, `ReaderRuns`), and that the archive agrees with the outcome from
  what the runner knows when it enters its last stretch (`ArchiveFits`). `TornInv` adds
  where a write can have been torn, and that a service which has recovered a job found its
  files whole.
* `SupervisorKeepsPromise` (`KeepsPromise`): `SolverJobs` implements `JobOutcome`. Under
  `OutcomeInv` each step shows, of one job at most, an acceptance, a
  publication or withdrawal while it is open, or the closing with the archive exactly
  for `completed` (`Shown`); crashes and restarts show nothing.
* `CallsExclude` (`OneCallAtATime`), from `CallInv`: `_active_job_ids` names each job before
  its terminal event (`OpenIsActive`), and recovery closes one job after the
  other (`RecoversInTurn`).
* `NoProcessStays`, `NoStagingStays`, from `EndsInv`: a spawn is under way only for a
  job whose runner stands at it, so it is either taken over or cancelled and awaited
  (`SpawnAwaited`); the finally block and the archive thread share the staged archive, and
  whoever comes last removes it (`Handed`, `PublishedIsClean`).
* `HistoriesReplay`, `RefusalIsExplained`, from `HistoryInv`. `ValidGrows` says which event may
  follow which history. What the runner and the reader write follows from memory,
  so memory has to tell what stands on disk: the count, whether a phase came, the
  result (`CountTold`, `PhaseTold`, `ResultTold`). `StatusTold` ties the last status on
  disk to the cancel request and not to the status in memory, which a failed
  cancel changes without writing. The timeout after a late cancel is the only append
  that may not follow. What a startup refuses beyond that is torn or half made.
* `PairsAreReservedWhole` (`PairReservedWhole`), from `PairInv`: half a pair is there
  only while its call is creating, or after a crash until recovery has closed the
  arm that exists or refused to start (`Half`, `Passing`).

### The other components

* `RefusalIsBounded`, `ListingsAreExact`, `CatalogTypes`, from `CatalogInv`. How far the
  catalog exceeds its limit is no invariant by itself, since two processes may both
  have found room. `Room` counts the processes between the check and the link as books.
  `ListingAgrees` says what a client has seen that stands behind a book.
* `OutcomesAreFounded`, `CompletedWorkIsKept`, `RepetitionIsBounded`, `CalibrationTypes`, from
  `CalibrationInv`. `RunKnows` says what a run knows between two requests. The jobs of an
  attempt are bounded in two stages (`Repeats`): before an identifier is recorded each job
  is one a run is about to save or a lost one; afterwards only runs that
  had already looked add one.
* `ManifestsAreFounded`, `OnlyNeededWork`, `StageIsResumable`, `CentralTypes`, from
  `CentralInv`. A run carries its own copy of the checkpoints and receipts. `Rooted` says
  what of the copy the files bear out, `OnItsWay` where a run can be with that
  many checkpoints, `Counted` why no receipt counts twice. Without overlap the evidence that
  has no checkpoint is that of the cell in hand (`Alone`), and without a late error
  the files are those of some number of finished cells (`Whole`).
* `PublicationStays`, `NothingStaysBehind`, `NoFileIsLost`, `PublisherTypes`, from
  `PublisherInv`. Only the holder of the lock is past it (`Locked`), a file has one name
  while somebody is alive (`Apart`). For each place of a call: under which names its
  file is (`Where`, `OnDisk`), which names are free, so that no rename replaces anything
  (`Clear`), and what the checks and the two syncs have established (`Ready`, and
  `Settled` after the return). `NoFileIsLost` is the action property
  `ForeignFilesSurvive`, step by step from the same invariant.
* `ShownStaysContiguous`, `PageStaysOfOneJob`, `ActiveJobIsKept`, `StreamTypes`, from
  `Inv`. `PageInv` holds whatever the user does: what the page shows, lists, cancels or
  follows exists. `StreamInv` holds as long as the user is not hasty. The sequence number is
  shared by whatever resets the page and by a fetch that is aborted only when the effects
  run. An old connection must have nothing left to bring after a reset: what an open
  one delivers continues what the page shows (`Delivers`, `Continues`), and everything that
  resets the page finds the connection drained (`Pauses`, `Drained`). Whoever was hasty
  stays so, so `PageInv /\ (hasty \/ StreamInv)` is inductive.

### Only model-checked

Liveness, which the prover cannot do: `EveryRunEnds`, `AcceptedJobsClose`, `StagingGoes`,
`EndIsShown`, `EveryPublisherEnds`, `StageCompletes`, `ResultInTheEnd`. The four
violations are counterexamples, found by TLC.

## Not modelled

* A descendant of the worker that leaves its process group and keeps stderr open;
  the hidden temporary directory `CandidateArchive.create` may leave behind.
* A loss of power under the supervisor, whose files are never synced.
* Of the central screen, another run between the look for a failure receipt or a summary
  and its publication: each is one step, with the faults of its publication.
* Of the page: the change of the task, matched pairs and the polling of the second
  one, the candidates and their geometry, the comparison of runs. Of the
  application: routes that only read, validate and format.
* Of the publisher: opening the parent's chain of directories and the check that a
  validator does not publish, which happen before the lock; errors of `close`.
* Of the central screen: the numbers in a cell, its summary and its decision; the
  other stages, which publish single files computed from fixed inputs.
* Calibration jobs of several tasks, whose lists are independent of each other.
* Datasets: parsing and projection are pure. A download is verified aside and then
  linked to its name, which replaces nothing; whoever loses verifies the file
  that won. The catalog import is one database transaction.
* The process phase of the oracle's experiments (`_run_process_phase` and
  `_terminate_owned_processes` in `oracle/experiment.py`): a parent spawns up to a
  fixed number of workers, exchanges ready, task, started and result with each over a
  pipe, and on any failure or deadline kills and joins every process, thread and
  group it owns. It is a state machine like the supervisor and would deserve a module
  of its own; it is the first one to add. So is the wrapper that stops the qualifier
  of `tools/lectra/run_qualifier.py`, a smaller relative.
* The process pools of `baseline/experiment.py`: independent pure tasks whose results
  are collected in a fixed order.
* The replay engine, policies, baselines, geometry, search, bounds, certificates and
  statistics: sequential functions of their arguments over real coordinates, Decimal
  amounts and large data. What outlives a call there is caches and the process-local
  registries that recognise objects the module itself has produced. A model small
  enough for TLC would leave out the arithmetic, and with it what could be wrong.

## Plan

Of the state machines found in the survey only the process phase of the oracle's
experiments is left, and it is the first module to add: a parent with a fixed
number of workers, what a failed phase may leave running, and as an invariant to
prove that every process it ever owned is joined when it returns. Of the modules there
are, the safety properties are proved. What remains there is to narrow exceptions:
`hasty` stays set for good, and could end when the page has caught up.
