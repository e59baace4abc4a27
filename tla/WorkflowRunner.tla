--------------------------- MODULE WorkflowRunner ---------------------------
(***************************************************************************)
(* Workers that run one job by replaying its story (pkg/workflow).  A      *)
(* runner walks over the chapters with a counter: what the story holds is  *)
(* taken from it, what it lacks is executed and appended.  The job         *)
(* function runs in a goroutine of its own, and so does what is left of it *)
(* after a timeout.  Workers crash, leases expire under running workers,   *)
(* answers get lost; the next holder of the lease replays from the start.  *)
(*                                                                         *)
(* The application is a deterministic sequence of steps, and the inputs of *)
(* a task are identified with its step.  Retries follow at once: waiting   *)
(* for a backoff is only seen where a deadline may pass meanwhile.  A      *)
(* runner is one run of DoJob with what it leaves behind, and leaves       *)
(* nothing behind once its worker has the job again.                       *)
(*                                                                         *)
(* An operator marked "Slip" is not the code: it is a plausible mistake in *)
(* the definition that follows it, kept to show which property notices it. *)
(***************************************************************************)
EXTENDS Integers, Sequences

CONSTANTS
  Runner,       \* worker processes
  NoRunner,     \* nobody has the lease
  Cases,        \* the workflows considered and their circumstances
  TaskAttempts, \* MaximumAttempts of tasks
  JobAttempts,  \* MaximumAttempts of the job
  MaxMishaps,   \* bound on timeouts, crashes, lost leases and lost answers
  MaxStory      \* bound on the length of the story

StepKind == {"local",     \* a task of this worker; the job fails with it
             "lenient",   \* likewise, but the job goes on when it failed
             "external",  \* a task somebody else completes
             "pause"}     \* AwaitDuration

Trait == {"timeout",      \* the job has an invocation timeout
          "total",        \* the job has a total timeout
          "fatal",        \* tasks may fail with a NonRetryableError
          "prereq",       \* a prerequisite of the job failed
          "long",         \* pauses exceed the recycle threshold
          "flaky"}        \* chapter writes may fail

\* What the result of a task, or of an attempt of the job, is as far as retries
\* can tell.  "app" stands for every error that may be retried.
TaskResult == {"ok", "app", "fatal", "total"}
JobResult == TaskResult \cup {"timeout", "system", "nondet", "prereq"}

ASSUME RunnerAssumption ==
  /\ NoRunner \notin Runner
  /\ Cases \subseteq [flow : Seq(StepKind) \ {<<>>}, traits : SUBSET Trait]
  /\ TaskAttempts \in Nat \ {0}
  /\ JobAttempts \in Nat \ {0}
  /\ MaxMishaps \in Nat
  /\ MaxStory \in Nat

VARIABLES
  flow,         \* the application
  traits,       \* the circumstances
  story,        \* chapters 1, 2, ... of the job
  row,          \* the scheduler row
  late,         \* the total timeout of the job is over
  run,          \* run[r]: DoJob in worker r
  fn,           \* fn[r][a]: the goroutine of job attempt a in worker r
  mishaps       \* how many mishaps there were

vars == <<flow, traits, story, row, late, run, fn, mishaps>>

Attempt == 1 .. JobAttempts

TaskChapter(s, n, k) == [type |-> "task", step |-> s, attempt |-> n, kind |-> k]
JobChapter(n, k) == [type |-> "job", step |-> 0, attempt |-> n, kind |-> k]

NoFn == [pc |-> "none", step |-> 1, try |-> 1, at |-> 0, kind |-> "ok"]
NoRun == [pc |-> "off", counter |-> 1, attempt |-> 1, at |-> 0, kind |-> "ok"]

NextOrdinal == Len(story) + 1
Present(o) == o \in DOMAIN story
Leased(r) == row.holder = r

Init ==
  /\ \E c \in Cases : flow = c.flow /\ traits = c.traits
  /\ story = <<>>
  /\ row = [need |-> "job", slot |-> 0, step |-> 0, holder |-> NoRunner,
            status |-> "open"]
  /\ late = FALSE
  /\ run = [r \in Runner |-> NoRun]
  /\ fn = [r \in Runner |-> [a \in Attempt |-> NoFn]]
  /\ mishaps = 0

(***************************************************************************)
(* Retries.  A NonRetryableError loses its type when it is stored: what    *)
(* comes back is an AppError.  Timeouts keep their flag.                   *)
(***************************************************************************)
Retryable(k) == k \notin {"ok", "fatal", "prereq", "total"}
StoredKind(k) == IF k \in {"fatal", "prereq", "nondet"} THEN "app" ELSE k
StoredRetryable(k) == Retryable(StoredKind(k))

Mishap ==
  /\ mishaps < MaxMishaps
  /\ mishaps' = mishaps + 1

Append1(c) ==
  /\ Len(story) < MaxStory
  /\ story' = Append(story, c)

\* Goroutine a of runner r is under way.
Alive(r, a) == fn[r][a].pc # "none"

\* DoJob returns, and with it goroutine a.  What is left of other attempts goes on
\* with its counter.
Stopped(r, a) ==
  [NoRun EXCEPT !.counter =
     IF \E b \in Attempt \ {a} : Alive(r, b) THEN run[r].counter ELSE 1]

\* markStoryOrdinalConsumed: the counter never moves back.
Past(counter, o) == IF o >= counter THEN o + 1 ELSE counter

(***************************************************************************)
(* DoTask, in the goroutine of job attempt a of worker r.                  *)
(***************************************************************************)
\* The job function gets the result of a step and goes on, or returns.
Succeed(f) ==
  IF f.step < Len(flow)
    THEN [NoFn EXCEPT !.pc = "call", !.step = f.step + 1]
    ELSE [NoFn EXCEPT !.pc = "done"]

\* The job function gets an error: it goes on if the step is lenient and the error is
\* one of the task, and returns it otherwise.
Fail(f, k) ==
  IF flow[f.step] = "lenient" /\ k \in TaskResult
    THEN Succeed(f)
    ELSE [NoFn EXCEPT !.pc = "done", !.kind = k]

\* Slip: one attempt too many.
AfterAttemptOneMore(f, k, n, retryable) ==
  CASE k = "ok" -> Succeed(f)
    [] k # "ok" /\ retryable /\ n <= TaskAttempts ->
         [NoFn EXCEPT !.pc = "call", !.step = f.step, !.try = n + 1]
    [] OTHER -> Fail(f, k)

\* Slip: the attempt number of a stored failure is not taken over.
AfterAttemptUncounted(f, k, n, retryable) ==
  CASE k = "ok" -> Succeed(f)
    [] k # "ok" /\ retryable /\ n < TaskAttempts ->
         [NoFn EXCEPT !.pc = "call", !.step = f.step]
    [] OTHER -> Fail(f, k)

\* Slip: the error of the last attempt is dropped.
AfterAttemptSilent(f, k, n, retryable) ==
  IF k # "ok" /\ retryable /\ n < TaskAttempts
    THEN [NoFn EXCEPT !.pc = "call", !.step = f.step, !.try = n + 1]
    ELSE Succeed(f)

\* Attempt n of a task had result k: return it, or try again.
AfterAttempt(f, k, n, retryable) ==
  CASE k = "ok" -> Succeed(f)
    [] k # "ok" /\ retryable /\ n < TaskAttempts ->
         [NoFn EXCEPT !.pc = "call", !.step = f.step, !.try = n + 1]
    [] OTHER -> Fail(f, k)

\* The goroutine ends without a result (Goexit), and with it DoJob if it was
\* still waiting for this one.
Quit(r, a) ==
  /\ fn' = [fn EXCEPT ![r][a] = NoFn]
  /\ run' = IF run[r].pc = "wait" /\ run[r].attempt = a
              THEN [run EXCEPT ![r] = Stopped(r, a)] ELSE run

\* Goroutine a of r is f now.  A result nobody waits for is dropped.
Goes(r, a, f) ==
  fn' = [fn EXCEPT ![r][a] =
    IF f.pc = "done" /\ ~(run[r].pc = "wait" /\ run[r].attempt = a) THEN NoFn ELSE f]

\* The position of the task is read from the counter all goroutines of the
\* runner share.
CallTask(r, a) ==
  LET f == fn[r][a] IN
  /\ f.pc = "call"
  /\ flow[f.step] # "pause"
  /\ fn' = [fn EXCEPT ![r][a].pc = "look", ![r][a].at = run[r].counter]
  /\ UNCHANGED <<flow, traits, story, row, late, run, mishaps>>

\* The story has a chapter at the position of the task.
ReplayTask(r, a) ==
  LET f == fn[r][a]
      c == story[f.at]
  IN
  /\ f.pc = "look"
  /\ Present(f.at)
  /\ run' = [run EXCEPT ![r].counter = Past(@, f.at)]
  /\ Goes(r, a,
       IF c.type # "task" \/ c.step # f.step THEN Fail(f, "nondet")
       ELSE AfterAttempt(f, StoredKind(c.kind), c.attempt, StoredRetryable(c.kind)))
  /\ UNCHANGED <<flow, traits, story, row, late, mishaps>>

\* Slip: the job waits at the ordinal of the input.
AwaitTaskAtInput(r, a) ==
  LET f == fn[r][a] IN
  /\ f.pc = "look"
  /\ ~Present(f.at)
  /\ flow[f.step] = "external"
  /\ row' = IF Leased(r)
              THEN [row EXCEPT !.need = "task", !.slot = f.at - 1,
                               !.step = f.step, !.holder = NoRunner]
              ELSE row
  /\ Quit(r, a)
  /\ UNCHANGED <<flow, traits, story, late, mishaps>>

\* It has none, and the task is somebody else's: the job waits for it.
AwaitTask(r, a) ==
  LET f == fn[r][a] IN
  /\ f.pc = "look"
  /\ ~Present(f.at)
  /\ flow[f.step] = "external"
  /\ row' = IF Leased(r)
              THEN [row EXCEPT !.need = "task", !.slot = f.at,
                               !.step = f.step, !.holder = NoRunner]
              ELSE row
  /\ Quit(r, a)
  /\ UNCHANGED <<flow, traits, story, late, mishaps>>

ExecuteTask(r, a) ==
  LET f == fn[r][a] IN
  /\ f.pc = "look"
  /\ ~Present(f.at)
  /\ flow[f.step] # "external"
  /\ fn' = [fn EXCEPT ![r][a].pc = "work"]
  /\ UNCHANGED <<flow, traits, story, row, late, run, mishaps>>

\* The results a task may have.  An invocation timeout of the task is "app".
Results ==
  {"ok", "app"} \cup (IF "fatal" \in traits THEN {"fatal"} ELSE {})
               \cup (IF late THEN {"total"} ELSE {})

\* PutChapter checks the lease and the position before it appends, and not again
\* when it does: the lease may be lost in between.
PutTask(r, a, k) ==
  LET f == fn[r][a] IN
  /\ f.pc = "work"
  /\ k \in Results
  /\ Leased(r)
  /\ f.at = NextOrdinal
  /\ fn' = [fn EXCEPT ![r][a].pc = "put", ![r][a].kind = k]
  /\ UNCHANGED <<flow, traits, story, row, late, run, mishaps>>

RecordTask(r, a) ==
  LET f == fn[r][a] IN
  /\ f.pc = "put"
  /\ f.at = NextOrdinal
  /\ Append1(TaskChapter(f.step, f.try, f.kind))
  /\ run' = [run EXCEPT ![r].counter = Past(@, f.at)]
  /\ Goes(r, a, AfterAttempt(f, f.kind, f.try, Retryable(f.kind)))
  /\ UNCHANGED <<flow, traits, row, late, mishaps>>

\* The outcome cannot be stored: a SystemError is the result of the task.
TaskRefused(r, a) ==
  LET f == fn[r][a] IN
  /\ \/ f.pc = "work" /\ ~Leased(r)
     \/ f.pc \in {"work", "put"} /\ f.at # NextOrdinal
  /\ Goes(r, a, Fail(f, "system"))
  /\ UNCHANGED <<flow, traits, story, row, late, run, mishaps>>

\* Slip: an attempt that could not be stored is retried as a failed one.
TaskWriteFailsRetried(r, a) ==
  LET f == fn[r][a] IN
  /\ f.pc = "put"
  /\ "flaky" \in traits
  /\ Mishap
  /\ Goes(r, a, AfterAttempt(f, "system", f.try, TRUE))
  /\ UNCHANGED <<flow, traits, story, row, late, run>>

\* The write fails for a reason of its own.
TaskWriteFails(r, a) ==
  LET f == fn[r][a] IN
  /\ f.pc = "put"
  /\ "flaky" \in traits
  /\ Mishap
  /\ Goes(r, a, Fail(f, "system"))
  /\ UNCHANGED <<flow, traits, story, row, late, run>>

\* The outcome is stored, but the answer is lost.
TaskAnswerLost(r, a) ==
  LET f == fn[r][a] IN
  /\ f.pc = "put"
  /\ f.at = NextOrdinal
  /\ Mishap
  /\ Append1(TaskChapter(f.step, f.try, f.kind))
  /\ Goes(r, a, Fail(f, "system"))
  /\ UNCHANGED <<flow, traits, row, late, run>>

\* AwaitDuration sleeps, or gives the lease back if the wait is long.
Sleep(r, a) ==
  LET f == fn[r][a] IN
  /\ f.pc = "call"
  /\ flow[f.step] = "pause"
  /\ "long" \notin traits
  /\ Goes(r, a, Succeed(f))
  /\ UNCHANGED <<flow, traits, story, row, late, run, mishaps>>

Recycle(r, a) ==
  LET f == fn[r][a] IN
  /\ f.pc = "call"
  /\ flow[f.step] = "pause"
  /\ "long" \in traits
  /\ row' = IF Leased(r) THEN [row EXCEPT !.holder = NoRunner] ELSE row
  /\ Quit(r, a)
  /\ UNCHANGED <<flow, traits, story, late, mishaps>>

(***************************************************************************)
(* DoJob.                                                                  *)
(***************************************************************************)
\* Slip: the walk begins behind the last chapter.
PollAtEnd(r) ==
  /\ run[r].pc = "off"
  /\ row.status = "open"
  /\ row.need = "job"
  /\ row.holder = NoRunner
  /\ row' = [row EXCEPT !.holder = r]
  /\ run' = [run EXCEPT ![r] = [NoRun EXCEPT !.pc = "begin", !.counter = NextOrdinal]]
  /\ fn' = [fn EXCEPT ![r] = [a \in Attempt |-> NoFn]]
  /\ UNCHANGED <<flow, traits, story, late, mishaps>>

\* PollWork and newWorkerRunner: the walk begins at ordinal 1.
Poll(r) ==
  /\ run[r].pc = "off"
  /\ row.status = "open"
  /\ row.need = "job"
  /\ row.holder = NoRunner
  /\ row' = [row EXCEPT !.holder = r]
  /\ run' = [run EXCEPT ![r] = [NoRun EXCEPT !.pc = "begin"]]
  /\ fn' = [fn EXCEPT ![r] = [a \in Attempt |-> NoFn]]
  /\ UNCHANGED <<flow, traits, story, late, mishaps>>

\* Something is to be stored at the counter as the outcome of the attempt.
ToRecord(x, k) == [x EXCEPT !.pc = "record", !.at = x.counter, !.kind = k]

CheckPrerequisites(r) ==
  /\ run[r].pc = "begin"
  /\ run' = [run EXCEPT ![r] =
       IF "prereq" \in traits THEN ToRecord(@, "prereq") ELSE [@ EXCEPT !.pc = "top"]]
  /\ UNCHANGED <<flow, traits, story, row, late, fn, mishaps>>

TooLate(r) ==
  /\ run[r].pc = "top"
  /\ late
  /\ run' = [run EXCEPT ![r] = ToRecord(@, "total")]
  /\ UNCHANGED <<flow, traits, story, row, late, fn, mishaps>>

\* The deadline passes while DoJob waits before a retry: it returns with nothing
\* done.
WaitedTooLong(r) ==
  /\ run[r].pc = "top"
  /\ run[r].attempt > 1
  /\ late
  /\ run' = [run EXCEPT ![r] = Stopped(r, 0)]
  /\ UNCHANGED <<flow, traits, story, row, late, fn, mishaps>>

\* Slip: whatever outcome is stored ends the job.
ReplayOutcomeEnds(r) ==
  LET x == run[r]
      c == story[x.counter]
  IN
  /\ x.pc \in {"top", "check"}
  /\ x.pc = "top" => ~late
  /\ Present(x.counter)
  /\ c.type = "job"
  /\ run' = [run EXCEPT ![r] =
       IF late THEN Stopped(r, 0)
       ELSE [x EXCEPT !.pc = "archive", !.kind = StoredKind(c.kind)]]
  /\ UNCHANGED <<flow, traits, story, row, late, fn, mishaps>>

\* The story has the outcome of an attempt at the counter.  A success ends the job,
\* a failure that may be retried is passed over.  Behind any other failure
\* checkCachedJobResult returns it as an error of its own, and DoJob returns that
\* before it completes the lease: the row stays as it is.
ReplayOutcome(r) ==
  LET x == run[r]
      c == story[x.counter]
  IN
  /\ x.pc \in {"top", "check"}
  /\ x.pc = "top" => ~late
  /\ Present(x.counter)
  /\ c.type = "job"
  /\ run' = [run EXCEPT ![r] =
       CASE ~late /\ c.kind = "ok" -> [x EXCEPT !.pc = "archive", !.kind = "ok"]
         [] ~late /\ StoredRetryable(c.kind) /\ c.attempt < JobAttempts ->
              [x EXCEPT !.pc = "top", !.counter = @ + 1,
                        !.attempt = c.attempt + 1, !.kind = "ok"]
         [] OTHER -> Stopped(r, 0)]
  /\ UNCHANGED <<flow, traits, story, row, late, fn, mishaps>>

StartAttempt(r) ==
  LET x == run[r] IN
  /\ x.pc = "top"
  /\ ~late
  /\ Present(x.counter) => story[x.counter].type # "job"
  /\ run' = [run EXCEPT ![r].pc = "wait"]
  /\ fn' = [fn EXCEPT ![r][x.attempt] = [NoFn EXCEPT !.pc = "call"]]
  /\ UNCHANGED <<flow, traits, story, row, late, mishaps>>

\* The attempt returned, in time or not.
AttemptReturns(r) ==
  LET x == run[r]
      f == fn[r][x.attempt]
  IN
  /\ x.pc = "wait"
  /\ f.pc = "done"
  /\ run' = [run EXCEPT ![r].pc = "check",
                        ![r].kind = IF f.kind = "ok" /\ late THEN "total" ELSE f.kind]
  /\ fn' = [fn EXCEPT ![r][x.attempt] = NoFn]
  /\ UNCHANGED <<flow, traits, story, row, late, mishaps>>

\* The attempt is given up, but its goroutine goes on.
AttemptTimesOut(r, k) ==
  /\ run[r].pc = "wait"
  /\ \/ k = "timeout" /\ "timeout" \in traits /\ Mishap
     \/ k = "total" /\ late /\ UNCHANGED mishaps
  /\ run' = [run EXCEPT ![r].pc = "check", ![r].kind = k]
  /\ fn' = [fn EXCEPT ![r] = [a \in Attempt |-> IF @[a].pc = "done" THEN NoFn ELSE @[a]]]
  /\ UNCHANGED <<flow, traits, story, row, late>>

\* checkCachedJobResult behind the attempt: nothing may stand at the counter
\* except the outcome of the attempt (ReplayOutcome).
CheckOutcome(r) ==
  LET x == run[r] IN
  /\ x.pc = "check"
  /\ Present(x.counter) => story[x.counter].type # "job"
  /\ run' = [run EXCEPT ![r] =
               IF Present(x.counter) THEN Stopped(r, 0) ELSE ToRecord(x, x.kind)]
  /\ UNCHANGED <<flow, traits, story, row, late, fn, mishaps>>

EndsJob(x) == ~Retryable(x.kind) \/ x.attempt >= JobAttempts

\* completeJobOutcome writes the final chapter and then the row, persistJobOutcome
\* only a chapter.
PutOutcome(r) ==
  LET x == run[r] IN
  /\ x.pc = "record"
  /\ Leased(r)
  /\ x.at = NextOrdinal
  /\ run' = [run EXCEPT ![r].pc = "put"]
  /\ UNCHANGED <<flow, traits, story, row, late, fn, mishaps>>

RecordOutcome(r) ==
  LET x == run[r] IN
  /\ x.pc = "put"
  /\ x.at = NextOrdinal
  /\ Append1(JobChapter(x.attempt, x.kind))
  /\ run' = [run EXCEPT ![r] =
       IF EndsJob(x) THEN [x EXCEPT !.pc = "archive", !.at = 0]
       ELSE [x EXCEPT !.pc = "top", !.counter = Past(@, x.at),
                      !.attempt = @ + 1, !.at = 0, !.kind = "ok"]]
  /\ UNCHANGED <<flow, traits, row, late, fn, mishaps>>

OutcomeRefused(r) ==
  LET x == run[r] IN
  /\ \/ x.pc = "record" /\ ~Leased(r)
     \/ x.pc \in {"record", "put"} /\ x.at # NextOrdinal
  /\ run' = [run EXCEPT ![r] = Stopped(r, 0)]
  /\ UNCHANGED <<flow, traits, story, row, late, fn, mishaps>>

Archive(r) ==
  /\ run[r].pc = "archive"
  /\ row' = IF Leased(r)
              THEN [row EXCEPT !.holder = NoRunner,
                     !.status = IF run[r].kind = "ok" THEN "success" ELSE "failed"]
              ELSE row
  /\ run' = [run EXCEPT ![r] = Stopped(r, 0)]
  /\ UNCHANGED <<flow, traits, story, late, fn, mishaps>>

(***************************************************************************)
(* The surroundings.                                                       *)
(***************************************************************************)
Crash(r) ==
  /\ run[r].pc # "off"
  /\ Mishap
  /\ run' = [run EXCEPT ![r] = NoRun]
  /\ fn' = [fn EXCEPT ![r] = [a \in Attempt |-> NoFn]]
  /\ UNCHANGED <<flow, traits, story, row, late>>

\* The lease of a worker that is gone, or of one that is not.
Expire(r) ==
  /\ Leased(r)
  /\ IF run[r].pc = "off" THEN UNCHANGED mishaps ELSE Mishap
  /\ row' = [row EXCEPT !.holder = NoRunner]
  /\ UNCHANGED <<flow, traits, story, late, run, fn>>

\* TaskHandle.Finish: the result of an external task always is a success, and
\* takes its attempt number from the chapter before it.
FinishTask ==
  /\ row.need = "task"
  /\ row.holder = NoRunner
  /\ row.slot = NextOrdinal
  /\ Append1(TaskChapter(row.step,
       IF story = <<>> THEN 1 ELSE story[Len(story)].attempt, "ok"))
  /\ row' = [row EXCEPT !.need = "job", !.slot = 0, !.step = 0]
  /\ UNCHANGED <<flow, traits, late, run, fn, mishaps>>

\* The wait ends without a result: the alternate need of the row.
AlternateNeed ==
  /\ row.need = "task"
  /\ row.holder = NoRunner
  /\ Mishap
  /\ row' = [row EXCEPT !.need = "job", !.slot = 0, !.step = 0]
  /\ UNCHANGED <<flow, traits, story, late, run, fn>>

DeadlinePasses ==
  /\ "total" \in traits
  /\ ~late
  /\ late' = TRUE
  /\ UNCHANGED <<flow, traits, story, row, run, fn, mishaps>>

TaskStep(r, a) ==
  \/ CallTask(r, a) \/ ReplayTask(r, a) \/ AwaitTask(r, a) \/ ExecuteTask(r, a)
  \/ RecordTask(r, a) \/ TaskRefused(r, a) \/ Sleep(r, a) \/ Recycle(r, a)
  \/ \E k \in TaskResult : PutTask(r, a, k)

JobStep(r) ==
  \/ CheckPrerequisites(r) \/ TooLate(r) \/ WaitedTooLong(r)
  \/ ReplayOutcome(r) \/ StartAttempt(r) \/ AttemptReturns(r)
  \/ CheckOutcome(r) \/ PutOutcome(r) \/ RecordOutcome(r)
  \/ OutcomeRefused(r) \/ Archive(r)
  \/ \E k \in {"timeout", "total"} : AttemptTimesOut(r, k)

Next ==
  \/ \E r \in Runner :
       \/ Poll(r) \/ JobStep(r) \/ Crash(r) \/ Expire(r)
       \/ \E a \in Attempt :
            \/ TaskStep(r, a) \/ TaskWriteFails(r, a) \/ TaskAnswerLost(r, a)
  \/ FinishTask \/ AlternateNeed \/ DeadlinePasses

Spec == Init /\ [][Next]_vars

(***************************************************************************)
(* Fairness: workers poll, code that runs takes its next step and tasks    *)
(* return, the lease of a worker that is gone expires, somebody finishes   *)
(* external tasks.                                                         *)
(***************************************************************************)
Fairness ==
  /\ WF_vars(\E r \in Runner : Poll(r))
  /\ WF_vars(FinishTask)
  /\ \A r \in Runner :
       /\ WF_vars(JobStep(r))
       /\ WF_vars(Expire(r) /\ run[r].pc = "off")
       /\ \A a \in Attempt : WF_vars(TaskStep(r, a))

FairSpec == Spec /\ Fairness

(***************************************************************************)
(* Properties.                                                             *)
(***************************************************************************)
Ordinal == 0 .. MaxStory + 1

ChapterSet ==
  [type : {"task", "job"}, step : Nat, attempt : Nat, kind : JobResult]

\* The types of the variables: what DoJob, DoTask and the row hold.
TypeOK ==
  /\ [flow |-> flow, traits |-> traits] \in Cases
  /\ story \in Seq(ChapterSet)
  /\ row \in [need : {"job", "task"}, slot : Ordinal, step : Nat,
              holder : Runner \cup {NoRunner},
              status : {"open", "success", "failed"}]
  /\ late \in BOOLEAN
  /\ run \in [Runner -> [pc : {"off", "begin", "top", "wait", "check", "record", "put",
                                "archive"},
                         counter : Ordinal, attempt : Attempt, at : Ordinal,
                         kind : JobResult]]
  /\ fn \in [Runner -> [Attempt ->
               [pc : {"none", "call", "look", "work", "put", "done"}, step : DOMAIN flow,
                try : 1 .. TaskAttempts, at : Ordinal, kind : JobResult]]]
  /\ mishaps \in 0 .. MaxMishaps

\* A job without invocation timeouts and non-retryable errors, on a store whose
\* writes only fail with the lease.
Steady == traits \cap {"timeout", "fatal", "flaky"} = {}

\* Is c an outcome that ends the job?
Final(c) == c.type = "job" /\ (~Retryable(c.kind) \/ c.attempt = JobAttempts)

\* The chapter at o is what the job function writes next when it has come to step
\* s: the outcome, if only pauses are left, or the first step that is none.
Begins(o, s) ==
  IF \A t \in s .. Len(flow) : flow[t] = "pause"
    THEN story[o].type = "job" /\ story[o].kind = "ok"
  ELSE /\ story[o].type = "task"
       /\ story[o].step \in s .. Len(flow)
       /\ flow[story[o].step] # "pause"
       /\ \A t \in s .. story[o].step - 1 : flow[t] = "pause"
       /\ flow[story[o].step] = "external" \/ story[o].attempt = 1

\* Chapter o is the one chapter that may follow chapter o - 1.
Follows(o) ==
  LET c == story[o - 1]
      failed == /\ c.kind # "ok"
                /\ ~StoredRetryable(c.kind) \/ c.attempt = TaskAttempts
  IN
  CASE c.type = "job" -> ~Final(c) /\ Begins(o, 1)
    [] c.type = "task" /\ c.kind = "ok" -> Begins(o, c.step + 1)
    [] c.type = "task" /\ failed /\ flow[c.step] = "lenient" -> Begins(o, c.step + 1)
    [] c.type = "task" /\ failed /\ flow[c.step] = "local" ->
         story[o].type = "job" /\ story[o].kind = c.kind
    [] OTHER -> story[o] = TaskChapter(c.step, c.attempt + 1, story[o].kind)

\* Where the outcomes of attempts of the job are up to o.
Outcomes(o) == {p \in 1 .. o : story[p].type = "job"}

\* The story is one that a single worker could have written that was never
\* interrupted: every chapter is the next one after the chapter before it, and the
\* attempts of the job are numbered through, whoever wrote them after whatever
\* crash.  Only the total timeout or a failed prerequisite may cut in.
ReplayableStory ==
  Steady =>
    \A o \in DOMAIN story :
      /\ o > 1 => ~Final(story[o - 1])
      /\ story[o].type = "job" =>
           \A p \in Outcomes(o - 1) : story[p].attempt < story[o].attempt
      /\ \/ story[o].type = "job" /\ story[o].kind \in {"total", "prereq"}
         \/ IF o = 1 THEN Begins(1, 1) ELSE Follows(o)

\* A job only succeeds when each of its steps has: every step that is not lenient
\* has a stored success before the outcome, in every circumstance.
SuccessIsEarned ==
  \A o \in DOMAIN story :
    story[o].type = "job" /\ story[o].kind = "ok" =>
      \A s \in DOMAIN flow :
        flow[s] \in {"local", "external"} =>
          \E p \in 1 .. o - 1 :
            /\ story[p].type = "task" /\ story[p].step = s
            /\ story[p].kind = "ok"

\* "A retry attempt is represented by a later chapter with later ordinal and
\* updated attempt metadata" (SPEC-WorkflowRuntime-Guarantees:58): behind every
\* numbered attempt of a task stands the failed attempt before it.
AttemptsFollow ==
  \A o \in DOMAIN story :
    story[o].type = "task" /\ story[o].attempt > 1 /\ flow[story[o].step] # "external" =>
      \E p \in 1 .. o - 1 :
        /\ story[p].type = "task" /\ story[p].step = story[o].step
        /\ story[p].attempt = story[o].attempt - 1
        /\ story[p].kind # "ok"

\* A job that ended has a final chapter that says how.
EndHasFinal ==
  row.status # "open" =>
    \E o \in DOMAIN story :
      /\ Final(story[o])
      /\ (row.status = "success") = (story[o].kind = "ok")

\* A task that succeeded is not run again by whoever replays the story ("expected 1
\* task execution", worker_runner_test.go:789): when a runner starts step s, no
\* success of s is in the story behind the last outcome of an attempt.
NoRework ==
  [][\A r \in Runner, a \in Attempt :
       Steady /\ fn[r][a].pc = "look" /\ fn'[r][a].pc = "work" =>
         \A o \in DOMAIN story :
           /\ story[o].type = "task" /\ story[o].step = fn[r][a].step
           /\ story[o].kind = "ok"
           => \E p \in o .. Len(story) : story[p].type = "job"]_vars

\* A job without timeouts, long pauses and the like ends, whatever crashes and losses
\* its workers suffer, if these end; or it has come to its final outcome, that is a
\* failure, and the row was not updated with it (StoredFinalEnds).
JobEnds ==
  traits = {} ~>
    \/ row.status # "open"
    \/ \E o \in DOMAIN story : Final(story[o]) /\ story[o].kind # "ok"

\* "If a final job outcome chapter is already present for an otherwise uncompleted
\* job, call lease.Complete with that stored chapter"
\* (SPEC-Lease-Completion-Final-Chapter:157): behind a stored final outcome the job
\* ends, whoever crashed before the row update.
StoredFinalEnds ==
  (\E o \in DOMAIN story : Final(story[o])) ~> row.status # "open"
=============================================================================
