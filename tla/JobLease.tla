------------------------------ MODULE JobLease ------------------------------
(***************************************************************************)
(* Execution leases and chapter commits of the SQLite runtime              *)
(* (pkg/jobdb/runtime/sqlite).  A job has one row in jobdb_jobs and one    *)
(* chapter story.  The story is one private append-only log, which is what *)
(* ChapterStore implements (StoryLog); the runtime neither finalizes nor   *)
(* deletes it.                                                             *)
(*                                                                         *)
(* PollWork, GetJobLease, CancelJob and the row updates are single         *)
(* transactions.  PutChapter, Complete, Reschedule and                     *)
(* CompleteTaskIfWaiting read the row, read the story, append a chapter    *)
(* and update the row in separate transactions: call[c] is how far one     *)
(* API call has come, so that calls of live and of outdated lease holders, *)
(* of external committers and of cancelling clients interleave.            *)
(*                                                                         *)
(* Time is abstract: a lease, a delay or an alternate need expires in a    *)
(* step of its own, at any moment.  Lease identifiers (ksuids) that no     *)
(* row and no call refers to any more are reused.                          *)
(*                                                                         *)
(* An operator marked "Slip" is not the code: it is a plausible mistake in *)
(* the definition that follows it, kept to show which property notices it. *)
(***************************************************************************)
EXTENDS Integers

CONSTANTS
  Job,           \* job keys
  Call,          \* API calls in flight at the same time (bound)
  LeaseId,       \* lease identifiers
  NoJob, NoLease,
  Body,          \* chapter contents
  NoBody,
  MaxOrdinal,    \* largest chapter ordinal (bound)
  Script,        \* Script[o]: what workers of the workflow may do at ordinal o
  TokenAuth,     \* PutChapter may be authorized by the claims of a lease token
  Serves         \* Serves[c]: leases whose holder makes call c, NoLease for a
                 \* caller that needs none

Ordinal == 0 .. MaxOrdinal
NoSlot == -1

ASSUME LeaseAssumption ==
  /\ NoJob \notin Job
  /\ NoLease \notin LeaseId
  /\ NoBody \notin Body
  /\ MaxOrdinal \in Nat
  /\ Script \in [Ordinal -> SUBSET {"work", "task", "final"}]
  /\ TokenAuth \in BOOLEAN
  /\ Serves \in [Call -> SUBSET (LeaseId \cup {NoLease})]

VARIABLES
  row,       \* row[j]: the jobdb_jobs row of job j
  log,       \* log[j][o]: the chapter at ordinal o of the story of job j
  size,      \* size[j]: number of chapters of that story
  expired,   \* leases whose expiry time has passed, and unused ones
  grant,     \* grant[l]: the job lease l was given for, chapters it started at
  call,      \* the API calls in flight
  spent,     \* history: leases that are over (completed, rescheduled, cleared by
             \* a commit or a cancel, or replaced once they had expired)
  late       \* history: late[j], the jobs that j waits for whose row was inserted
             \* after a transaction had found j ready and leased it

vars == <<row, log, size, expired, grant, call, spent, late>>

Chapter == [kind : {"none", "start", "work", "task", "final"},
            body : Body \cup {NoBody}]

NoChapter == [kind |-> "none", body |-> NoBody]
StartChapter == [kind |-> "start", body |-> NoBody]

\* need is next_need ("run": the workflow, "task": one of its external tasks),
\* slot the output ordinal of the TaskWait in the payload, alt the workflow as
\* alternate_need, delayed whether available_at lies ahead.  A job whose row is
\* not inserted may have a story, and other jobs may wait for it.
JobRow == [inserted : BOOLEAN, need : {"run", "task"}, slot : Ordinal \cup {NoSlot},
           alt : {"none", "pending", "due"}, delayed : BOOLEAN,
           waitFor : SUBSET Job, lease : LeaseId \cup {NoLease},
           archived : BOOLEAN, status : {"none", "ended", "cancelled"},
           cancel : BOOLEAN]

\* A job as insertJobRecord leaves it.
Submitted(delayed, waitFor) ==
  [inserted |-> TRUE, need |-> "run", slot |-> NoSlot, alt |-> "none",
   delayed |-> delayed, waitFor |-> waitFor, lease |-> NoLease,
   archived |-> FALSE, status |-> "none", cancel |-> FALSE]

\* The job is still being submitted: there is no row.
NoRow == [Submitted(FALSE, {}) EXCEPT !.inserted = FALSE]

PC == {"idle", "existing", "next", "save", "capture", "archive", "resched",
       "resume", "ok", "lost", "conflict"}

CallState ==
  [op : {"none", "put", "complete", "reschedule", "commit"}, pc : PC,
   job : Job \cup {NoJob}, lease : LeaseId \cup {NoLease}, ord : Ordinal,
   chapter : Chapter, ontime : BOOLEAN, wrote : BOOLEAN]

Begun(op, pc, j, l, o, ch) ==
  [op |-> op, pc |-> pc, job |-> j, lease |-> l, ord |-> o, chapter |-> ch,
   ontime |-> FALSE, wrote |-> FALSE]

NoCall == Begun("none", "idle", NoJob, NoLease, 0, NoChapter)

Init ==
  /\ row = [j \in Job |-> NoRow]
  /\ log = [j \in Job |-> [o \in Ordinal |->
               IF o = 0 THEN StartChapter ELSE NoChapter]]
  /\ size = [j \in Job |-> 1]
  /\ expired = LeaseId
  /\ grant = [l \in LeaseId |-> [job |-> NoJob, from |-> 0]]
  /\ call = [c \in Call |-> NoCall]
  /\ spent = {}
  /\ late = [j \in Job |-> {}]

-----------------------------------------------------------------------------
(* Helpers                                                                 *)

\* dependenciesReady: every job waited for is archived or has no row.
Ready(j) == \A d \in row[j].waitFor : row[d].inserted => row[d].archived

\* The row has a lease that has not expired.
Leased(j) == row[j].lease # NoLease /\ row[j].lease \notin expired

\* validateLeaseRow for lease l at the time of the read.
Holds(l, j) == ~row[j].archived /\ row[j].lease = l /\ l \notin expired

\* Slip: any lease in the row will do.
HeldOnTimeAnyLease(c) ==
  LET j == call[c].job IN
  ~row[j].archived /\ row[j].lease # NoLease /\ call[c].ontime

\* The same check against a time the call captured earlier.
HeldOnTime(c) ==
  LET j == call[c].job IN
  ~row[j].archived /\ row[j].lease = call[c].lease /\ call[c].ontime

Now(c, r) == call' = [call EXCEPT ![c] = r]
Goto(c, pc) == Now(c, [call[c] EXCEPT !.pc = pc])

\* The lease columns of the row are cleared.
LeaseOver(j) ==
  /\ spent' = spent \cup ({row[j].lease} \ {NoLease})
  /\ late' = [late EXCEPT ![j] = {}]

\* A holder of lease l starts a call on its job.
HolderMayCall(c, l) ==
  /\ call[c].pc = "idle"
  /\ l \in Serves[c]
  /\ grant[l].job # NoJob

\* Ordinals a holder of l may write with kind k: it has replayed the story and
\* found them empty some time after it got the lease.
Reached(l, k) ==
  {o \in Ordinal \ {0} : /\ grant[l].from <= o /\ o <= size[grant[l].job]
                         /\ k \in Script[o]}

-----------------------------------------------------------------------------
(* Inserting the row                                                       *)

\* insertJobRecord, the last step of a submission.
InsertJobRecord(j, delayed, waitFor) ==
  /\ ~row[j].inserted
  /\ j \notin waitFor
  /\ row' = [row EXCEPT ![j] = Submitted(delayed, waitFor)]
  /\ late' = [i \in Job |->
       IF row[i].lease # NoLease THEN late[i] \cup ({j} \cap row[i].waitFor)
                                 ELSE late[i]]
  /\ UNCHANGED <<log, size, expired, grant, call, spent>>

-----------------------------------------------------------------------------
(* Leasing                                                                 *)

\* The row written by acquireOneLease and GetJobLease: an alternate need that
\* has fired becomes the need.  The payload, and with it the slot, is kept.
Granted(r, l) ==
  [r EXCEPT !.lease = l,
            !.need = IF r.alt = "due" THEN "run" ELSE @,
            !.alt = IF r.alt = "due" THEN "none" ELSE @]

\* A new lease identifier is one nobody refers to any more.
Fresh(l) ==
  /\ l \in expired
  /\ \A j \in Job : row[j].lease # l
  /\ \A c \in Call : call[c].lease # l

Grant(j, l) ==
  /\ Fresh(l)
  /\ row' = [row EXCEPT ![j] = Granted(@, l)]
  /\ expired' = expired \ {l}
  /\ grant' = [grant EXCEPT ![l] = [job |-> j, from |-> size[j]]]
  /\ spent' = (spent \cup (expired \cap {row[j].lease})) \ {l}
  /\ UNCHANGED <<log, size, call>>

\* Slip: the expiry of the present lease is not looked at.
PollWorkSteals(j, l) ==
  /\ row[j].inserted /\ ~row[j].archived
  /\ ~row[j].cancel
  /\ Ready(j)
  /\ ~row[j].delayed
  /\ Grant(j, l)
  /\ late' = [late EXCEPT ![j] = {}]

\* acquireOneLease, the transaction of PollWork.
PollWork(j, l) ==
  /\ row[j].inserted /\ ~row[j].archived
  /\ ~row[j].cancel
  /\ ~Leased(j)
  /\ Ready(j)
  /\ ~row[j].delayed
  /\ Grant(j, l)
  /\ late' = [late EXCEPT ![j] = {}]

\* Slip: targeted leasing takes no notice of dependencies.
GetJobLeaseEarly(j, l) ==
  /\ row[j].inserted /\ ~row[j].archived
  /\ ~row[j].cancel
  /\ IF row[j].lease # NoLease THEN row[j].lease \in expired ELSE ~row[j].delayed
  /\ Grant(j, l)
  /\ UNCHANGED late

\* GetJobLease accepts the statuses ready and crash concern; the latter says
\* nothing of dependencies and availability.
GetJobLease(j, l) ==
  /\ row[j].inserted /\ ~row[j].archived
  /\ ~row[j].cancel
  /\ IF row[j].lease # NoLease THEN row[j].lease \in expired
                               ELSE Ready(j) /\ ~row[j].delayed
  /\ Grant(j, l)
  /\ UNCHANGED late

-----------------------------------------------------------------------------
(* Appending a chapter                                                     *)

\* ensureNextVisibleChapterOrdinal reads the story.
CheckNextOrdinal(c) ==
  /\ call[c].pc = "next"
  /\ Goto(c, IF call[c].ord = size[call[c].job] THEN "save" ELSE "conflict")
  /\ UNCHANGED <<row, log, size, expired, grant, spent, late>>

\* Slip: the ordinal that was read is trusted, and the chapter upserted.
SaveChapterTrusting(c) ==
  LET j == call[c].job IN
  /\ call[c].pc = "save"
  /\ log' = [log EXCEPT ![j][call[c].ord] = call[c].chapter]
  /\ size' = [size EXCEPT ![j] = @ + 1]
  /\ Now(c, [call[c] EXCEPT
       !.wrote = TRUE,
       !.pc = CASE call[c].op = "put" -> "ok"
                [] call[c].op = "complete" -> "capture"
                [] call[c].op = "commit" -> "resume"])
  /\ UNCHANGED <<row, expired, grant, spent, late>>

\* The append transaction checks the ordinal again.  What follows depends on
\* the operation the chapter belongs to.
SaveChapter(c) ==
  LET j == call[c].job IN
  /\ call[c].pc = "save"
  /\ IF call[c].ord = size[j]
     THEN /\ log' = [log EXCEPT ![j][size[j]] = call[c].chapter]
          /\ size' = [size EXCEPT ![j] = @ + 1]
          /\ Now(c, [call[c] EXCEPT
               !.wrote = TRUE,
               !.pc = CASE call[c].op = "put" -> "ok"
                        [] call[c].op = "complete" -> "capture"
                        [] call[c].op = "commit" -> "resume"])
     ELSE /\ Goto(c, "conflict")
          /\ UNCHANGED <<log, size>>
  /\ UNCHANGED <<row, expired, grant, spent, late>>

\* PutChapter reads the row to validate the lease, unless the claims of an
\* unexpired lease token vouch for it.
PutChapter(c, l, o, b) ==
  /\ HolderMayCall(c, l)
  /\ o \in Reached(l, "work")
  /\ Holds(l, grant[l].job) \/ (TokenAuth /\ l \notin expired)
  /\ Now(c, Begun("put", "next", grant[l].job, l, o,
                  [kind |-> "work", body |-> b]))
  /\ UNCHANGED <<row, log, size, expired, grant, spent, late>>

-----------------------------------------------------------------------------
(* Completing                                                              *)

\* CompleteJobWithLeaseByID validates the lease.  The final chapter is new or
\* the stored one that a replay by this holder has found; a client of the API
\* may repeat any outcome, the workflow worker only a success.
BeginComplete(c, l, o, ch) ==
  LET j == grant[l].job IN
  /\ HolderMayCall(c, l)
  /\ Holds(l, j)
  /\ ch.kind = "final"
  /\ o \in Reached(l, "final") \/ log[j][o] = ch
  /\ Now(c, Begun("complete", "existing", j, l, o, ch))
  /\ UNCHANGED <<row, log, size, expired, grant, spent, late>>

\* Slip: any chapter at the ordinal counts as already written.
ReadExistingAny(c) ==
  /\ call[c].pc = "existing"
  /\ Goto(c, IF log[call[c].job][call[c].ord] = NoChapter
             THEN "next" ELSE "capture")
  /\ UNCHANGED <<row, log, size, expired, grant, spent, late>>

\* existingCompletionChapter: the same chapter counts as already written.
ReadExisting(c) ==
  LET stored == log[call[c].job][call[c].ord] IN
  /\ call[c].pc = "existing"
  /\ Goto(c, CASE stored = NoChapter -> "next"
               [] stored = call[c].chapter -> "capture"
               [] OTHER -> "conflict")
  /\ UNCHANGED <<row, log, size, expired, grant, spent, late>>

\* The time against which the final transaction validates the lease.
CaptureTime(c) ==
  /\ call[c].pc = "capture"
  /\ Now(c, [call[c] EXCEPT !.pc = "archive",
                            !.ontime = call[c].lease \notin expired])
  /\ UNCHANGED <<row, log, size, expired, grant, spent, late>>

\* The row of a job completed with the status of the request.
Archived(r, status) ==
  [r EXCEPT !.archived = TRUE, !.status = status,
            !.cancel = r.cancel \/ status = "cancelled",
            !.lease = NoLease, !.alt = "none"]

\* The final transaction.
ArchiveJob(c, status) ==
  LET j == call[c].job IN
  /\ call[c].pc = "archive"
  /\ IF HeldOnTime(c)
     THEN /\ row' = [row EXCEPT ![j] = Archived(row[j], status)]
          /\ LeaseOver(j)
          /\ Goto(c, "ok")
     ELSE Goto(c, "lost") /\ UNCHANGED <<row, spent, late>>
  /\ UNCHANGED <<log, size, expired, grant>>

-----------------------------------------------------------------------------
(* Rescheduling                                                            *)

\* RescheduleJobWithLeaseByID captures the time, then runs one transaction.
BeginReschedule(c, l, o) ==
  /\ HolderMayCall(c, l)
  /\ o \in Reached(l, "task") \cup Reached(l, "work")
  /\ Now(c, [Begun("reschedule", "resched", grant[l].job, l, o, NoChapter)
               EXCEPT !.ontime = l \notin expired])
  /\ UNCHANGED <<row, log, size, expired, grant, spent, late>>

\* The rows the workflow asks for: wait for an external task at ordinal o,
\* perhaps with the workflow as alternate, or for a time and for other jobs.
TaskWait(r, o, alt) ==
  [r EXCEPT !.need = "task", !.slot = o, !.alt = alt, !.delayed = FALSE,
            !.waitFor = {}, !.lease = NoLease]

JobWait(r, delayed, waitFor) ==
  [r EXCEPT !.need = "run", !.slot = NoSlot, !.alt = "none",
            !.delayed = delayed, !.waitFor = waitFor, !.lease = NoLease]

Rescheduled(r, o) ==
  {TaskWait(r, o, alt) :
     alt \in IF "task" \in Script[o] THEN {"none", "pending"} ELSE {}}
  \cup {JobWait(r, d, S) : d \in BOOLEAN, S \in SUBSET Job}

RescheduleJob(c) ==
  LET j == call[c].job IN
  /\ call[c].pc = "resched"
  /\ IF HeldOnTime(c)
     THEN /\ \E r \in Rescheduled(row[j], call[c].ord) :
               j \notin r.waitFor /\ row' = [row EXCEPT ![j] = r]
          /\ LeaseOver(j)
          /\ Goto(c, "ok")
     ELSE Goto(c, "lost") /\ UNCHANGED <<row, spent, late>>
  /\ UNCHANGED <<log, size, expired, grant>>

-----------------------------------------------------------------------------
(* Completing an external task without a lease                             *)

\* CompleteTaskIfWaiting reads the row, whose capability and slot match the
\* guards of the request.  It looks at neither archived_at nor the lease.
BeginCommit(c, j, b) ==
  /\ call[c].pc = "idle"
  /\ NoLease \in Serves[c]
  /\ row[j].need = "task"
  /\ row[j].slot # NoSlot
  /\ Now(c, Begun("commit", "next", j, NoLease, row[j].slot,
                  [kind |-> "task", body |-> b]))
  /\ UNCHANGED <<row, log, size, expired, grant, spent, late>>

\* Slip: archived jobs are resumed too.
ResumableArchived(j, o) == row[j].need = "task"

\* The conditions of the final update: not archived, and still the capability
\* that was read.
Resumable(j, o) == ~row[j].archived /\ row[j].need = "task"

\* The wait is cleared, and the lease if there is one.
Resumed(r) ==
  [r EXCEPT !.need = "run", !.slot = NoSlot, !.alt = "none",
            !.delayed = FALSE, !.waitFor = {}, !.lease = NoLease]

\* The final update.
ResumeJob(c) ==
  LET j == call[c].job IN
  /\ call[c].pc = "resume"
  /\ IF Resumable(j, call[c].ord)
     THEN /\ row' = [row EXCEPT ![j] = Resumed(row[j])]
          /\ LeaseOver(j)
          /\ Goto(c, "ok")
     ELSE Goto(c, "conflict") /\ UNCHANGED <<row, spent, late>>
  /\ UNCHANGED <<log, size, expired, grant>>

-----------------------------------------------------------------------------
(* Cancelling, time and failures                                           *)

Cancelled(r) ==
  [r EXCEPT !.archived = TRUE, !.cancel = TRUE, !.lease = NoLease,
            !.status = IF r.status = "none" THEN "cancelled" ELSE r.status]

\* CancelJob is one update of the row, whatever its state.
CancelJob(j) ==
  /\ row[j].inserted
  /\ row' = [row EXCEPT ![j] = Cancelled(row[j])]
  /\ LeaseOver(j)
  /\ UNCHANGED <<log, size, expired, grant, call>>

\* Time passes: an unexpired lease expires, renewed or not.
LeaseExpires(l) ==
  /\ l \notin expired
  /\ expired' = expired \cup {l}
  /\ UNCHANGED <<row, log, size, grant, call, spent, late>>

\* alternate_at is reached (effectiveNextNeed).
AlternateFires(j) ==
  /\ row[j].alt = "pending"
  /\ row' = [row EXCEPT ![j].alt = "due"]
  /\ UNCHANGED <<log, size, expired, grant, call, spent, late>>

\* available_at is reached.
DelayEnds(j) ==
  /\ row[j].delayed
  /\ row' = [row EXCEPT ![j].delayed = FALSE]
  /\ UNCHANGED <<log, size, expired, grant, call, spent, late>>

\* The caller takes the result of its call.
Return(c) ==
  /\ call[c].pc \in {"ok", "lost", "conflict"}
  /\ Now(c, NoCall)
  /\ UNCHANGED <<row, log, size, expired, grant, spent, late>>

\* The process that runs the call dies between two transactions.
Crash(c) ==
  /\ call[c].pc \in {"existing", "next", "save", "capture", "archive",
                     "resched", "resume"}
  /\ Now(c, NoCall)
  /\ UNCHANGED <<row, log, size, expired, grant, spent, late>>

Next ==
  \/ \E j \in Job, d \in BOOLEAN, S \in SUBSET Job : InsertJobRecord(j, d, S)
  \/ \E j \in Job, l \in LeaseId : PollWork(j, l) \/ GetJobLease(j, l)
  \/ \E j \in Job : CancelJob(j) \/ AlternateFires(j) \/ DelayEnds(j)
  \/ \E l \in LeaseId : LeaseExpires(l)
  \/ \E c \in Call :
       \/ \E l \in LeaseId, o \in Ordinal, b \in Body :
            \/ PutChapter(c, l, o, b)
            \/ BeginComplete(c, l, o, [kind |-> "final", body |-> b])
       \/ \E l \in LeaseId, o \in Ordinal : BeginReschedule(c, l, o)
       \/ \E j \in Job, b \in Body : BeginCommit(c, j, b)
       \/ CheckNextOrdinal(c)
       \/ SaveChapter(c)
       \/ ReadExisting(c)
       \/ CaptureTime(c)
       \/ \E s \in {"ended", "cancelled"} : ArchiveJob(c, s)
       \/ RescheduleJob(c)
       \/ ResumeJob(c)
       \/ Return(c)
       \/ Crash(c)

Spec == Init /\ [][Next]_vars

-----------------------------------------------------------------------------
(* Properties                                                              *)

\* Every variable keeps its shape (rows as scanJobRow reads them).
TypeOK ==
  /\ row \in [Job -> JobRow]
  /\ log \in [Job -> [Ordinal -> Chapter]]
  /\ size \in [Job -> 1 .. MaxOrdinal + 1]
  /\ expired \subseteq LeaseId
  /\ grant \in [LeaseId -> [job : Job \cup {NoJob}, from : 0 .. MaxOrdinal + 1]]
  /\ call \in [Call -> CallState]
  /\ spent \subseteq LeaseId
  /\ late \in [Job -> SUBSET Job]

\* A call that answered success has its chapter at its ordinal, whatever other
\* holders, committers and cancels did between its transactions.
SuccessIsStored ==
  \A c \in Call :
    call[c].pc = "ok" /\ call[c].op \in {"put", "complete", "commit"}
      => log[call[c].job][call[c].ord] = call[c].chapter

\* docs/SPEC-WorkflowRuntime-Guarantees.md:73: of several calls that race for an
\* ordinal at most one commits its chapter, also when they send the same bytes.
OneWriter ==
  \A c, d \in Call :
    c # d /\ call[c].wrote /\ call[d].wrote /\ call[c].job = call[d].job
      => call[c].ord # call[d].ord

\* A job is only completed behind a final chapter (ensureCompletionChapter runs
\* before the row update), also when holders of several leases race.
CompletedHasFinal ==
  \A j \in Job : row[j].status = "ended"
                   => \E o \in Ordinal : log[j][o].kind = "final"

\* A leased job has its delay over and its dependencies archived, although
\* GetJobLease looks at neither for a job with an expired lease, and although
\* dependencies are submitted, archived and waited for all the while.  Exempt
\* are dependencies without a row, which dependenciesReady passes over, and
\* those whose row came after the job had been leased.
LeasedIsReady ==
  \A j \in Job : row[j].lease # NoLease =>
    /\ ~row[j].delayed
    /\ \A d \in row[j].waitFor \ late[j] : row[d].inserted => row[d].archived

\* One job, one owner: a lease whose holder may believe it is live (granted,
\* not expired, not over) is the one in the row of its job, so there is at most
\* one of them; and a row never shows a lease that is over.
OneOwner ==
  /\ \A l \in LeaseId : grant[l].job # NoJob /\ l \notin expired \cup spent
                          => row[grant[l].job].lease = l
  /\ \A j \in Job : row[j].lease # NoLease =>
       row[j].lease \notin spent /\ grant[row[j].lease].job = j

\* A lease completes or reschedules its job at most once, and never after it
\* was lost to a later grant, to a commit or to a cancel.
FencedOut ==
  [][\A c \in Call :
       call[c].pc \in {"archive", "resched"} /\ call'[c].pc = "ok"
         => call[c].lease \notin spent /\ call[c].lease \in spent']_vars

\* A terminal job stays terminal: no later step leases it, wakes it up or
\* replaces its completion status.
TerminalStays ==
  [][\A j \in Job : row[j].archived =>
       /\ row'[j].archived
       /\ row'[j].lease = NoLease
       /\ row'[j].status = row[j].status
       /\ row'[j].need = row[j].need]_vars

\* docs/SPEC-WorkflowRuntime-Guarantees.md:93: commit-if-waiting is not applied
\* when a guard, here the output ordinal, does not match the current wait.
ResumeMatchesSlot ==
  [][\A c \in Call : call[c].pc = "resume" /\ call'[c].pc = "ok"
       => row[call[c].job].slot = call[c].ord]_vars
=============================================================================
