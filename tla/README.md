# A verification project for jobdb

jobdb runs workflow jobs.  A job has an append-only *story* of chapters (its
start, one outcome per task attempt, its final outcome) and a scheduler row
(what the job needs next, who has a lease on it, whether it is archived).
Workers poll for leases, replay the story, append chapters and complete or
reschedule the job.  External systems complete tasks without a lease.

This directory holds TLA+ modules of that machinery, TLC runs on small
instances and TLAPS proofs for all instances.  Paths are relative to the root
of the repository.

## Inventory

| Part | State it keeps | Operations | Hard behaviour |
| --- | --- | --- | --- |
| Chapter store, `pkg/jobdb/internal/chapterstore` | story rows (latest ordinal, count, finalized, deleted, link), chapter rows, blobs | create, clone, append, read, list, finalize, delete | operations of several transactions, linked clones that share a prefix, crash between blob and row |
| Row stores: SQLite, Postgres | the tables behind it | one transaction each | isolation, unique keys |
| SQLite runtime, `runtime/sqlite` | `jobdb_jobs`, `jobdb_schedules`, schema tables | submit, restart, poll, targeted lease, keepalive, put chapter, complete, reschedule, commit-if-waiting, cancel | row and story are changed in separate transactions; leases expire; calls are retried |
| Submission and reconciliation, `runtime.go`, `reconcile.go` | the same | submit and restart with an explicit job id | three transactions, repeated or concurrent requests |
| Schedules, `schedule.go`, `schedule_preflight.go` | schedule row with generation and next job | upsert, pause, resume, archive, trigger, preflight | row and occurrence in separate transactions, stale occurrences |
| Remote runtime, `runtime/remote` | signing key of one process | the whole runtime over HTTP with lease tokens | tokens outlive or lag their lease |
| Toy runtime, `runtime/toy` | maps under mutexes | the same | check and write under separate lock sections |
| Direct runtime, `runtime/direct` | pgwf scheduler and Postgres | the same | scheduler and store are separate services |
| Workflow worker, `pkg/workflow` | position in the story, retry state | run job, run task, await, retry, replay, poll loop | attempts that outlive their timeout, determinism |
| Types and views, `pkg/jobdb` | none | triggers, listing, job runs | pure functions |
| Schema validation, codecs, generated code, commands | none | | not protocol |

The runtime calls the chapter store for every read and write of a story and
its own tables for everything else; no transaction spans both.  The remote
server calls a local runtime; the worker calls a runtime, local or remote.

What makes each part correct:

* chapter store: every story looks like a private append-only log;
* leases: one owner, outdated owners are fenced out, terminal jobs stay so;
* chapters: one writer per ordinal, success means stored;
* completion: behind a final chapter, and finished even after a crash
  (successes are, failures are not, see `runner_failed`);
* commit-if-waiting: all or nothing, only for the slot it was meant for;
* submission: an equivalent repeat converges, whatever the first call left;
* schedules: at most one next occurrence, never a stale one handed to an app;
* lease tokens: what is accepted stands for a lease that is still there;
* worker: replay consumes exactly the chapters it wrote, in order.

## Modules

| Module | What it is |
| --- | --- |
| `StoryLog` | abstract: stories as private logs (create, fork, extend, seal, delete) |
| `ChapterStore` | the chapter store over the SQLite row store |
| `MCChapterStore` | its TLC instances |
| `ChapterStoreProofs` | its proofs |
| `JobLease` | leases, chapter writes, completion, reschedule, commit-if-waiting and cancel of the SQLite runtime |
| `MCJobLease` | its TLC instances |
| `JobLeaseProofs` | its proofs |
| `Submission` | submit and restart with explicit job ids, reconciliation, the insert of the row |
| `MCSubmission` | its TLC instances |
| `SubmissionProofs` | its proofs |
| `ScheduleControl` | schedules: rows, filing of occurrences, manual triggers, preflight |
| `MCScheduleControl` | its TLC instances |
| `ScheduleControlProofs` | its proofs |
| `RemoteLease` | leases over HTTP: tokens, keepalive, requests in flight, restarts of the server |
| `MCRemoteLease` | its TLC instance |
| `RemoteLeaseProofs` | its proofs |
| `ToyRuntime` | the in-memory runtime, one lock section at a time |
| `MCToyRuntime` | its TLC instance |
| `ToyRuntimeProofs` | its proofs |
| `WorkflowRunner` | workers that run a job by replaying its story |
| `MCWorkflowRunner` | its TLC instances |
| `WorkflowRunnerProofs` | its proofs, in all circumstances |
| `WorkflowReplayProofs` | its proofs about replay, in steady circumstances |

`JobLease`, `Submission`, `ScheduleControl` and `WorkflowRunner` look at the same
tables from four sides.  `JobLease` begins a job with the insert of its row, the last step of
a submission, and takes the story as the private log that `ChapterStore` is proved to implement (`StoryLog`).
`Submission` is the coming into being of one job.  `ScheduleControl` takes jobs
as its unit, with the windows inside submission and completion left to the other
two.  `WorkflowRunner` is the client that `JobLease` leaves open: what the holder
of a lease appends, and why.  `RemoteLease` puts a clock and a network between
the two, for the lease alone.  `ToyRuntime` is another implementation of the
interface, with sections under mutexes in place of transactions.  Definitions marked `Slip` are mistakes one could make in the definition
they stand before; no specification uses them, they document which property
notices what.

### ChapterStore

`stories` and `chapters` are the two tables (`jobdb_chapter_stories`,
`jobdb_chapter_chapters`), `blobs` the blob store.  Each SQL transaction is one
action.  Operations of `Store` that take several are split: `op[c]` is what
client `c` still has to do.  `CreateStory` inserts the row and leaves an append
of chapter 0; `SaveChapter` computes the ordinal and leaves (blob and) append;
`CloneStory` reads the source and leaves the link, which leaves the extra
chapter; `MarkStoryDeleted` reads the row and leaves publish and tombstone;
`ReadChapter` leaves one step per link and the final fetch.  `Crash` drops what
is left.  `text` is a history variable: the logical content of each story,
assigned when a chapter or a link commits.

Chapter bodies are model values; those in `BigBody` have artifacts above the
inline limit.  Blob paths are content addresses here: the code names a blob
afresh on every save, which only adds unreferenced blobs.

### JobLease

`row[j]` is the scheduler row, `log[j]` and `size[j]` the story as the abstract
log.  `call[c]` is an API call between its transactions: `PutChapter` (check the
lease, check the ordinal, append), `Complete` (check the lease, look for the
stored chapter, check the ordinal, append, capture the time, archive),
`Reschedule` (capture the time, update), `CompleteTaskIfWaiting` (read the row,
check the ordinal, append, update).  `Poll`, `GetJobLease` and `Cancel` are one
transaction each.  `PollWork` models one acquisition of its loop.

`InsertJobRecord` is the insert of the row.  Until then the job has a story but
no row (`inserted`), it cannot be leased or cancelled, and a job that waits for it
counts as ready: `dependenciesReady` passes over identifiers it does not find
(`Ready`).

Time is abstract.  A lease expires, a delay ends and an alternate need fires in
steps of their own, at any moment, so a keepalive is a lease that expires later;
the clock itself and the expiry of tokens are in `RemoteLease`.
`ontime` keeps what a call concluded from the time it captured before its
transaction.  Lease ids are reused once no row and no call refers to them.

`Script[o]` is what workers may do at ordinal `o`: append an ordinary chapter,
wait for an external task, or complete.  With everything allowed, any client of
the API is covered; a script with one choice per ordinal is a deterministic
workflow, which is what the worker demands of workflows.  A holder only writes
at an ordinal it has found empty since it got its lease (`Reached`).
`TokenAuth` says that a remote server vouches for `PutChapter` with the claims
of an unexpired token, in which case the row is not read.

`spent` is a history variable: leases that are over.  So is `late[j]`: jobs that
`j` waits for, and that got their row after `j` had been leased without them.
`LeasedIsReady` exempts just these and those without a row.

Whether a completion that was cut short is taken up again depends on what the
worker does with the chapter it finds, so it is a question to `WorkflowRunner`
(`JobEnds`, `StoredFinalEnds`), not to `JobLease`, which has no fairness.

Schema validation, artifacts, payload encoding and worker ids are left out.
A repeated cancel of an archived job sets `cancel` again (`CancelJob` is
unconditional); the visible status of a completed job then reads as cancelled,
about which the documents say nothing.

### Submission

One job id, and the requests that meet on it.  `made` says that the story row is
there, `story` is the sequence of its visible chapters (linked ones included),
`row` the scheduler row, `call[c]` a request between its transactions.
`SubmitJob` and `SubmitRestartJob` are the first transaction (insert the story
row, or link the source story); `AppendOwn` appends chapter 0 or the extra
chapter; `InsertRow` inserts the scheduler row.  Who finds the story there goes
through `LoadStart` or `ComparePrefix` (reconciliation), and who finds the row
there through `CompareRow`.  `Work` and `Reschedule` are what workers do to the
job meanwhile; `Crash` ends a request between two transactions.

The source story of restarts is a constant.  A chapter's `by` stands for the
envelope (creation time, writer) that tells two chapters of equal content apart.
Job type, input hash, policies and prerequisites of a request are its `body`,
application metadata its `meta`.  Generated ids never collide and are not
modelled, nor is schema validation, which precedes the first transaction.
`maker` (the request that made the story) and `acked` (the requests that were
answered with success) are history variables.

### ScheduleControl

One schedule.  `sched` is its row, `story` and `job` are the chapter stories and
scheduler rows of its occurrences, `call` what each caller is doing.
`UpsertSchedule` and `MutateScheduleState` (pause, resume, archive) commit a row
with a new generation and leave the filing of its first occurrence;
`TriggerSchedule` reads the row and leaves the filing of a manual one.  Filing is
`CreateStory` (or comparing the start chapter that is there) and `EnsureRow`.
`AcquireLease` is either way of leasing; behind it come the steps of
`preflightScheduleLease`: `CountChapters`, `LoadSchedule`, `JudgeHistory`, then
the filing of the successor or `RefuseChapter` and `RefuseRow`.  Only then is the
lease `granted`.  The application appends chapters and completes; jobs are
cancelled, leases expire, callers crash, time ticks.

A refusal is a chapter, then a row update.  If only the first was done, the next
lease finds a second chapter in `CountChapters` and is granted without a preflight.
To the worker that chapter is the failed outcome of a first attempt.  If the
target has another attempt (`retries`) it runs the application: the content of
the story is then "rework", so that work which preflights let start ("work") stays
apart from it.  If it has none, `DoJob` returns the stored error and completes
nothing, so no step but the end of the lease follows.

Coarser than the code: filing makes the story row and chapter 0 at once
(`Submission` has the window between), completion by an application is one step
and chapter writes check their lease as they write (`JobLease` has those
windows).  Left out: expected generations (they only refuse more), `startAt`,
`minSuccessPercent`, other overlap policies than serial, request times in the
past.  The hash of a schedule stands for its trigger; `endAt` is the bound on
time.  A tick is the minute of cron and the period of intervals, so both kinds
fire at whole ticks, intervals counted from the preflight.

`fresh` is history: whether the schedule wanted the occurrence when it was
leased.

A schedule's circumstances (its triggers, window, limit, end, whether its target is
retried, how often it changes, how many callers are busy at once) are the variable `given`, chosen in
`Init` from `Cases` and never changed, so that one run covers several.

### RemoteLease

One job.  `row` is its scheduler row as far as leases go, `hand[c]` the lease and
token that client `c` has, `req[q]` a request in flight.  A request goes through
`Send`, `CheckToken` (`validatedLeaseClaims`), for a renewal, completion or
reschedule `ReadClock` (the time is taken before the transaction), the
transaction (`ExtendLease`, `ReleaseLease`) or the append, for a renewal or a
poll `MintToken`, and `ReceiveToken` or `LoseAnswer`.  `now` advances between any
two of these.  `RestartServer` makes a new signing key (`key`) and drops every
request.  `KeepAlive` may begin while an earlier one is on its way: the lock of
`remoteExecutionLease` guards the token, not the call.

The durations of tokens are whole seconds, rounded up; a `Second` is several
ticks, so the rounding is visible.  `used`, `over` (given back or cancelled),
`setBack` (the expiry was once moved to an earlier time) and `overtaken` (a
renewal began while another one was under way, or lost its answer) are history.

`TokenBacked` is what lets `PutChapter` trust a token.  Its two exceptions are
real: the row knows that the lease is over, or ends earlier, and the token does
not.  Both are listed below.  `SetBackNeedsOvertaking` says that a client which
waits for each answer never meets the second one, however slow its calls, because
a duration is rounded up: rounded down, it fails.

### ToyRuntime

`rec[j]` are the records made for job `j`, of which the last one is in the map;
an older one is still pointed to by calls that have looked it up before.
`story[j]` is `runtimeChapters`.  Each section under a mutex is one action:
`CheckSubmit`, `InsertJob`; `CheckLease`, then `StoreChapter` for `PutChapter`;
`CheckLease`, `EnsureCompletionChapter`, `StoreChapter`, `StoreResult`,
`CompleteLease` or `LeaseLost` for a completion; `BeginCommit`, `StoreChapter`,
`ResumeJob` for a commit-if-waiting.  `SubmitRestart`, `PollWork` (with
`GetJobLease`), `CancelJob` and `RescheduleLease` are one section.

Time is a choice of the action that looks (`due`); a lease never runs out, as in
the code.  The completion of a job is told apart by its lease (`Final(l)`), which
is what equality of final chapters comes to.  `done` (jobs whose completion or
cancellation was answered) and `contested` are history.  A job is contested when
a submission or a commit of it overlaps another call that changes the job, or
when a commit starts on a job that is leased or finished: `InsertJob` and
`ResumeJob` write without looking at what is there, so the promises about leases
and terminal jobs are stated for the other jobs, and `ChaptersKept` for all.

Left out: schedules (the rules of `ScheduleControl` on maps), schemas, artifacts,
the copy of the chapters in the record, and a job that waits for itself.

### WorkflowRunner

One job behind its start chapter, and `Runner`s that run it in turns or, when a
lease was lost unnoticed, at once.  `story` is what `JobLease` calls `log`, `row`
the scheduler row.  `run[r]` is `DoJob` in worker `r` (its `pc` is where in the
loop it stands, `counter` is `storyCounter`), `fn[r][a]` the goroutine of attempt
`a` of the job, which runs the job function and through it `DoTask`.  The two are
separate because `waitForJobResultWithDeadline` leaves the goroutine behind when
the invocation times out: it goes on with the counter and the lease of the run,
beside the next attempt.

`flow` is the job function, a sequence of steps: a local task, one whose failure
it tolerates, an external task, a pause.  `traits` are the circumstances (a
timeout, a failed prerequisite, errors that must not be retried, writes that
fail).  Both are chosen in `Init` from `Cases`.  The input of a task stands for
its step, so the comparison of input hashes is a comparison of steps.

`DoTask` is `CallTask` (read the counter), then `ReplayTask` if the story has
that ordinal, `AwaitTask` if the task is somebody else's, otherwise `ExecuteTask`,
`PutTask` and `RecordTask`.  The last two are separate because `PutChapter` checks
the lease before its append transaction.  `DoJob` is `CheckPrerequisites`, then
per attempt `TooLate`, `ReplayOutcome` or `StartAttempt`, then `AttemptReturns` or
`AttemptTimesOut`, `CheckOutcome`, `PutOutcome`, `RecordOutcome` and `Archive`.
`ReplayOutcome` is `DoJob` at a stored outcome: a success is submitted again, a
failure with attempts left leads to the next one, and any other failure is
returned as the error of the run, without the row being touched.
`Poll` is the poll loop of the engine with `runClaimedJobLease`, `FinishTask` a
commit-if-waiting in one step (`JobLease` has its windows).  Crashes, lost
leases, lost answers, failing writes, invocation timeouts and the alternate need
are mishaps, whose number is bounded.

Left out: `AwaitJobs` and child jobs, read-only replay, observers, timeouts of
single tasks other than as an error that is retried, and the length of backoffs:
a retry follows at once, except that the deadline may pass in between
(`WaitedTooLong`).  What is left of timed-out attempts ends when the same worker
gets the job again; another worker can get it at any time.
## Runs

| Run | What it asks | Bounds |
| --- | --- | --- |
| `store_race` | rows gapless, blobs first, reads find and return what was committed, `StoryLog` implemented | 2 clients, 2 stories, ordinals 0..1, one inline and one big body |
| `lease_race` | one owner, one writer per ordinal, success is stored, fencing, terminal stays | 1 job, 2 calls of any kind, 2 leases, ordinals 0..2, every kind of write allowed, tokens on |
| `lease_wait` | no lease before the delay is over and the dependencies are archived, but for missing rows | 2 jobs whose rows appear at any time, 1 call, 2 leases, ordinals 0..1, waits for any jobs and times |
| `submit_race` | acknowledged requests are durable, history precedes work, repeats converge | 2 requests at a time, any of the requests over 2 bodies, 1 metadata, 1 time; a source of 3 chapters, stories of 3 |
| `schedule_race` | serial order, unbroken chain, nothing stale is started, a pause is final, no work behind as many failures as allowed | 2 workers, 1 administrator; an interval schedule with 2 generations and times 0..1, its target retried; a cron schedule with window 2, limit 2 and times 0..2, its target retried; one with window 2, limit 1, a manual trigger and no retries |
| `remote_lease` | an accepted token stands for the lease in the row, renewals lose no time unless overtaken, rounding does not creep | 1 client, 2 leases, 2 requests in flight, terms of 3 ticks, seconds of 2, skew 1, times 0..4, 1 chapter, 1 restart |
| `toy_race` | chapters are kept, a lease ends by its holder or a cancel, finished jobs stay finished and have an outcome; no deadlock of the calls | 2 jobs, 2 leases, 2 calls at a time, stories of 3, 2 records in all |
| `runner_replay` | replay goes on where the story ends, nothing is run twice, success is earned, jobs end or have a stored failure | 2 workers, 9 workflows of at most 2 steps with their circumstances, 2 attempts of tasks and jobs, 2 mishaps, stories of at most 10 |

On two cores the longest of these, `runner_replay` (1 million states),
`schedule_race` (2.2 million), `lease_race` (3.2 million),
`remote_lease` (7.5 million) and `toy_race` (1.6 million), take between one and
three minutes each.

Two clients (or calls) are enough for every pair of operations to interleave in
all ways; chains of two links need a third story, which the proof of
`ImplementsLog` covers.  Ordinal 1 is the
first one above a fork at 0; ordinal 2 gives the lease model a second wait and
a result after a task.  With two
generations an occurrence can be outdated, with times 0..1 it can have a
successor and with 0..2 two predecessors, which is what a limit of two failures
is about; the one administrator suffices because schedule operations are single
transactions but for the filing, which its crash leaves undone.  `lease_race` has
one job; dependencies between jobs are in `lease_wait`, where two jobs can wait for
each other and appear in any order, and, for occurrences, in `SerialOrder`.  One
call suffices there, since nothing but single transactions reads or changes the
columns that `LeasedIsReady` is about.  Two leases are enough for an outdated and a current
holder; a third holder meets the same row as the second.  Symmetry is used for
clients, stories, calls and leases, which are only compared for equality, and
never together with liveness.  For `runner_replay`, two mishaps give a crash
during the recovery from another one, or a lost lease and what the outdated
worker does with it; no story gets longer than seven chapters, so the bound on
stories is never met.  Each circumstance is combined with
the workflows that meet it: `ReplayableStory` and `NoRework` speak of jobs without
invocation timeouts, non-retryable errors and failing writes (`Steady`), `JobEnds`
of jobs without any of the circumstances, which end or come to a stored failure,
because the code does not keep more, as said below; the others hold for all.

In `remote_lease`, four ticks let a lease of three run out while a request made
under it is still on its way, a second lease be given out, and a renewal of the
first be rounded up; two requests are what one renewal needs to overtake
another.  A second client adds no new way for the row to change: it holds the
other lease.  In `toy_race`, two records suffice for a submission to replace the
record that a call has looked up, or for two jobs, of which one waits for the
other; a third chapter gives a result after a task.

The remaining runs state a sentence of the documents that the code
does not keep; each finds a counterexample:

| Run | Sentence | What happens |
| --- | --- | --- |
| `commit_slot` | Guarantees:93 | a slow commit for one slot wakes a job that waits on another |
| `submit_crash` | Guarantees:153 | a submit that dies before chapter 0 leaves an id on which every equal submit is a mismatch |
| `schedule_window` | Schedule-API:435 | without a window size the history is cut to one outcome, so a limit of two failures never applies |
| `runner_failed` | Final-Chapter:157-160, 233-234 | a worker dies between a final failure and the row update; every later worker replays the failure, returns it as an error and leaves the job as it is |

More disagreements were seen while modelling.  The models show them (each is a
few steps away), but no run is kept for them:

* an error that must not be retried is stored as one that may
  (`worker_envelope.go:134`) and retried when its outcome is replayed after a
  crash (`pkg/jobdb/errors.go:43`);
* with a token that has not expired, the server writes a chapter for a lease that
  was given back, cancelled or cut short meanwhile (`runtime.go:893` with
  `leaseauth.Authorize`, Guarantees:110-111);
* a renewal whose answer is late or lost may be followed by one that is committed
  later but was computed from an earlier clock: it moves the expiry of the lease
  back, and an earlier token outlives the lease (`lease.go:84`, Guarantees:109 and
  OpenAPI-Contract:884-886);
* `Complete` and `Reschedule` of a lease that is held are refused after a restart
  of the server, since its signing key is new (`server.go:39`);
* the worker calls `KeepAlive` once per job (`worker_runner.go:1154`), which on the
  SQLite and remote runtimes renews once: a longer run loses its lease;
* toy runtime: two submissions of one id at a time overwrite each other, after
  both were acknowledged (`runtime.go:166`); a commit-if-waiting revives a job that
  was cancelled or completed and takes a live lease away (`runtime.go:1301`); a
  completed job can be cancelled (`:384`); a repeated completion may be answered
  before the outcome is in the record (`:741`); a job that waits for itself blocks
  the engine at the next poll (`:970`); a time to wait for is forgotten beside jobs
  to wait for (`:1131`); leases never expire;
* direct runtime: `PutChapter` looks at the lease id but not at its expiry
  (`directimpl/runtime.go:784`), and a commit-if-waiting resumes the job without
  comparing the slot again (`directimpl/task.go`);
* the poll loop asks the first poll group again after every lease it finds, so the
  other groups wait as long as the first has work (`worker_engine.go:231`);
* a chapter behind a chain of 1024 linked stories is unreadable, and nothing
  keeps `CloneStory` from building one (`chapterstore/store.go:307`, against
  Guarantees:198);
* a commit-if-waiting that loses the row answers conflict but keeps its chapter
  (`runtime.go:1189`, Guarantees:94), and a completion whose lease ends between
  its transactions answers lease-lost but keeps the final chapter (`lease.go:128`,
  Final-Chapter:82).  The next worker ends the job with that chapter if it is a
  success (`JobEnds`), and never if it is a failure (`runner_failed`);
* `PutChapter` checks the lease before, not in, the append (`runtime.go:921`,
  Guarantees:110), and not at all for an unexpired token (`runtime.go:894`,
  Guarantees:111); `OneWriter` holds all the same;
* the repeat of an acknowledged submit with `availableAt` is a mismatch once a
  reschedule has moved the job (`scheduler.go:153`, Guarantees:153), so
  `RepeatConverges` leaves such requests out;
* a restart without an extra chapter takes the unfinished story of one with an
  extra chapter for its own (`reconcile.go:118`, Guarantees:157);
* a manual occurrence files a successor with itself as predecessor
  (`schedule_preflight.go:62`, Schedule-API:624);
* a preflight that is repeated after a crash takes the clock anew and may file a
  second successor (`schedule_preflight.go:62`, Schedule-API:819);
* a commit-if-waiting that dies between its two transactions leaves a job that
  waits on a filled slot: every retry is a conflict (`runtime.go:1156`,
  Guarantees:213);
* `DoJob` looks at the total timeout and at prerequisites before it reads the
  story, and writes their outcome at ordinal 1: once anything is stored the write
  conflicts at every replay and the job never ends, even if its final outcome is a
  success stored just before a crash (`worker_runner.go:1143`, `:1171`,
  Final-Chapter:104 and 234).  `JobEnds` is about jobs without either;
* `AwaitDuration` computes its wake time anew at each replay and stores nothing: a
  pause above the recycle threshold gives the lease back each time and never ends
  (`worker_runner.go:416`, `tasks.go:40`; `Recycle` in `WorkflowRunner`);
* a preflight that blocks an occurrence and dies between the cancellation chapter
  and the row update leaves a story of two chapters; the next lease skips the
  preflight (`schedule_preflight.go:25`), and if the target has retries its worker
  runs the application (Guarantees:186-188, Schedule-API:435).  In `ScheduleControl`
  it takes a failure before it and then `RefuseChapter`, `Crash`, `ExpireLease`,
  `AcquireLease`, `CountChapters`, `WriteChapter`;
* an occurrence that was refused, whose preflight died before the row update and
  whose target has no further attempt, is leased again and again and never ends
  (`schedule_preflight.go:25`, `worker_runner.go:1210`), so its successor, if it has
  one, never starts;
* a dependency without a row counts as archived (`scheduler.go:267`): a job that
  names one still being submitted may be leased first;
* a failed chapter write, or an invocation timeout, ends an attempt in the middle
  of the job function and its outcome is stored there; a later replay runs into
  that chapter in `DoTask` and takes it for nondeterminism
  (`worker_runner.go:805`), each time anew;
* a final outcome with a non-retryable error is retried if its worker dies before
  the row is updated, which gives a second final chapter (Final-Chapter:213);
* what is left of a timed-out attempt shares the counter of the next one and may
  write, or give the lease back, in its place (`worker_runner.go:495`);
* the result of an external task takes its attempt number from the chapter before
  it (`runtime.go:1121`, Guarantees:142), so `AttemptsFollow` leaves these out.

Guarantees, Final-Chapter, Schedule-API and OpenAPI-Contract are
`SPEC-WorkflowRuntime-Guarantees`, `SPEC-Lease-Completion-Final-Chapter`,
`SPEC-Remote-Schedule-API` and `SPEC-OpenAPI-Runtime-Contract` in `docs`; file
names without a path are those of the part named, or of the SQLite runtime.

## Fairness

Only `WorkflowRunner` has a fair specification.  In it (`runner_replay`,
`runner_failed`) workers poll in an endless loop; code that runs takes its next
step, and tasks return; the lease of a worker that is gone expires; external tasks are finished by somebody.  Weak fairness of
each is enough.  Mishaps are never forced, and their bound means that they end.
The lease of a live worker is kept alive, so its expiry is a mishap.

## Proofs

`ChapterStoreProofs` proves, for any sets of clients, stories and bodies and any
bounds, that `ChapterStore!Spec` implies its type invariant and each state
invariant of `store_race`, two lemma invariants of use to a reader (`LinkSound`:
a clone leans on a base that is there and reaches its fork; `TextIsStored`: what a
story shows is stored along its links), `ChaptersImmutable`, and that it
implements `StoryLog`.  Assumed are only the facts in `StoreAssumption`.  The argument:
`IInv` joins the type invariant, `RowSound` (a key without a row has nothing, a row without a link has no fork,
only a finalized story is deleted), `Contiguous` (both counters agree and rows
are present exactly between fork and latest), `LinkSound`, `TextIsStored`,
`BlobBeforeRow` and, for each client, what its position in its operation says of
the tables (`OpSound`: a client about to append a big body has saved it; a read
stands on a story whose text at the ordinal is the text of the story it was
asked for).  The last part is what makes reads provable: while a read is between
two queries, other clients may extend, finalize and delete every story on its
way, but text at an existing ordinal and links do not change
(`OpSoundStable`).  One lemma per action shows that it preserves the parts it
can disturb; the refinement follows from the same invariant, action by action.

`JobLeaseProofs` proves, for any jobs, calls, leases, ordinals, script and
division of calls, each safety property of `lease_race` and `lease_wait`.  Its `IInv` joins the
type invariant, `CallInv` (what a call between two transactions has established:
its chapter is at its ordinal once it is past the append, and no ordinal is
filled beyond the size of the story), `OneWriter`, `OneOwner`, `RowInv` (an
archived row has no lease, a missing one neither lease nor completion; a leased
job has its delay over and its dependencies archived, but for missing and late
ones) and `CompletedHasFinal`.  `StepKinds` sorts the actions into those
that insert a row, grant a lease, move a call, change a row, append and expire, so each part
is shown once per kind; `FencedOut` and `TerminalStays` follow from the same
invariant, step by step.

`SubmissionProofs` proves the safety properties of `submit_race` for any requests
and any source.  Its `IInv` joins the type invariant, `Unmade` (nothing exists
before the story row), `CallSound` for each request (what it may conclude from
where it stands) `RowHasStart` (a job that workers can
see has its start chapter) and the properties of the run; the common lemma is that the story only
grows, by single chapters at its end, so what a request has compared stays true.

`RemoteLeaseProofs` proves the properties of `remote_lease` for any clients,
requests, leases and restarts, and for every term, second and skew above zero: the
run has one choice of these numbers.  Rounding is dealt with once, in
`RoundUpBounds` (what is left of a rounded duration does not round to more than
it) and the lemmas after it.  `IInv` joins the type invariant, `TokenSound` (what
backs a token, wherever it is), `RequestSound` (what a request has established
when its next step comes), `RowSound`, `HeldOnce` (a lease is with one client, or
on its way to it), `OneRenewal` (a lease whose renewals were never overtaken has
one in flight at most, with the token that its client has) and `InTime`: for such
a lease, whatever renews it next, wherever that is (a token in a hand, a request
before or after it has read the clock, an answer), reaches the expiry in the row.
`SetBackNeedsOvertaking` needs all of the last three, for it is violated only by
the step that ends a chain of them.

`ToyRuntimeProofs` proves every property of `toy_race`, for any jobs, calls, leases
and bounds.  `IInv` joins the type invariant, the two state invariants, what each
lock section leaves behind (`Counted`: the records made are finitely many, which
the bound on them needs) and `CallSound`: what a call between two sections still
knows of the record and the chapter it met in the first one.  Records and
chapters are only added (`Grows`), so that knowledge stays true whatever other
calls do, with the exception of jobs in `contested`, where the code overwrites
what it has not looked at again; the properties except these jobs for that
reason.  `ChaptersKept` and `LeaseKept` follow from the invariant, step by step.

`ScheduleControlProofs` proves each property of `schedule_race`, for any schedules,
callers, period and bounds.  An occurrence carries from the moment it is filed
what later decisions rest on: its generation, its predecessor and the outcomes of
those before that.  `Evolves` says what a step leaves alone: a change of the
schedule takes a new generation, what is filed stays as it is, what is over stays
over, and what is filed newly follows something filed.  `CallSound` says what a
preflight has established at each of its steps (it is due; whether the schedule
wanted it; that its successor is filed; that its history is in order), and
`CallStays` that all of this outlasts any step of others: this is why the
separate transactions of `preflightScheduleLease` do no harm.  For the failure
policy, `Chain` is an occurrence with those before it, as far back as the policy
looks, and `Tells` says that the bits of an occurrence are the outcomes along its
chain; `HistoryTells` extends that by one with `AppendBit`.  `Policy` has the
condition `Windowed`: a window that is given, and as long as the policy looks
back, or a policy that looks back one occurrence only.  Without it the property
is false, which is what `schedule_window` shows.  `Successor` and `Policy` speak of
work that preflights let start; that a refused occurrence never runs cannot be
added to them, for it may (`WriteChapter`).  Its retries are steps of the proved
specification all the same, and `SerialOrder` covers them.  `FailurePolicyHolds` speaks of
chains as functions, since what a recursive definition computes is out of the
prover's reach.

`WorkflowRunnerProofs` proves what `runner_replay` checks in all circumstances,
for any application, number of workers, attempts and bounds: types,
`AttemptsFollow`, `SuccessIsEarned` and `EndHasFinal`.  The invariant ties what a
goroutine or a run has come to, to chapters: who is at attempt `n` of a step has
the failure before it in the story (`Tried`), who is at a step has a success of
every step before that needs one (`Earned`), who archives a job has a final
chapter that says the same (`Ended`).  All three only need chapters to exist, so
they outlast whatever other workers append (`StoryGrows`, `FoundStays`); they
hold for the lease's holder, for a worker that lost it and for what is left of a
timed-out attempt alike.  `StepHolds` reduces every action to the one goroutine,
run or row it moves and the one chapter it may append (`Fits`).

`WorkflowReplayProofs` proves the rest of `runner_replay` but for liveness:
`ReplayableStory` and `NoRework`, for any application, number of workers, attempts
and bounds, under the circumstances these properties are about (`Steady`).  The
idea is `Walk(o, s, n)`: whoever replays the story up to ordinal `o` comes to try
`n` of step `s` there, which depends on the chapter before `o` alone (`LeadsTo`).
`Fresh` and `Comes` say likewise which attempt of the job, and which outcome, may
stand at `o`.  `RInv` says that every goroutine is where the story leads at its
counter (`Stands`), every run is about to write what comes (`RunFits`), and the
row asks for the external step that comes (`RowFits`); this is said of ordinals
up to the next one, where no chapter is ever replaced, so it outlasts what others
append (`Said`).  A chapter that is appended from there makes the story a longer
one of the same kind (`StoryGoes`), and a chapter met there is the one that would
have been written (`Meets`): that is why the `nondet` check of `DoTask` never
fires on a deterministic application, except where the total timeout ended the
job under a worker that had lost its lease.

The total timeout is what makes the rest necessary.  It ends the job wherever the
story stands, and leaves a goroutine behind that may still append.  `Owned` says
that such a goroutine belongs to an attempt that is waited for or was given up by
the total timeout; `late` then keeps any new attempt from starting.  `InTime` says
that who holds the lease during an attempt has not overlooked a total timeout
that others stored, and `OneEnd` that nobody is about to store one under it: the
lease is checked in `PutOutcome`, before the append.  A run without the lease may
have missed anything; it is only known that it will be refused.  The whole
invariant was checked by TLC on the cases of the run and on longer flows before it
was proved.  `NoRework` follows at the one action that starts a task
(`OnlyExecute`): it stands at the end of the story, and the story does not lead
back to a step that succeeded since the last outcome (`NotYet`).

The assumptions are those named in the modules: distinct null values, and bounds
and durations that are natural numbers.  Every invariant and action
property of a passing run is proved.  Liveness (`JobEnds`)
stays model-checked: it needs fairness, which is out of the prover's reach.

## Not modelled

The list of components in `PROJECT.json` gives the status and reason of each.
Of the modelled ones: listing of stories, jobs and schedules, migration,
schema validation, artifacts beyond inline or blob, and polls that collect more
than one lease.

The direct runtime is left out because its job states, leases and transactions
are those of pgwf, a service whose source is not in the repository: a model of it
would be a model of how it is called, which is the protocol of `JobLease` and
`Submission` once more.  Where the code around it differs is listed above.
The Postgres row store has the transactions of `ChapterStore`, under row locks in
place of a single writer.  The generated code, the encodings, the views and the
commands hold no state of the protocol.

## Plan

Done: `ChapterStore` over `StoryLog`, `JobLease`, `Submission`, `RemoteLease`,
`ScheduleControl`, `ToyRuntime` and `WorkflowRunner`, all with proofs.
Next, in this order:

1. the poll loop of the worker engine (limit, wake-ups, poll groups, shutdown),
   and polls that collect several leases and drop them on an error;
2. `AwaitJobs` and child jobs in `WorkflowRunner`; the page arithmetic of the
   chapter iterator; job listing and views.

Theorems worth proving then: that two equal submissions end in one story and one
row; that the expiry of `RemoteLease` implements that of `JobLease`.
