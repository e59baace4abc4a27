----------------------------- MODULE ToyRuntime -----------------------------
(***************************************************************************)
(* The in-memory runtime (pkg/jobdb/runtime/toy/internal/toyimpl,          *)
(* runtime.go).  It keeps two maps under one mutex, the job records and    *)
(* the chapters, and a mutex in every record.  A call looks its record up, *)
(* and then goes through several sections under one mutex or the other:    *)
(* between two of them other calls may change the record, or put another   *)
(* record in its place, while the call still points to the old one.        *)
(*                                                                         *)
(* There is no time here: an expired lease is not taken away, and whether  *)
(* the time of a job has come is a choice of the action that looks.  Left  *)
(* out are schedules, schemas, artifacts, and the copy of the chapters in  *)
(* the record, which only views read.                                      *)
(*                                                                         *)
(* An operator marked "Slip" is not the code: it is a plausible mistake in *)
(* the definition that follows it, kept to show which property notices it. *)
(***************************************************************************)
EXTENDS Integers, Sequences, FiniteSets, SequencesExt

CONSTANTS
  Job,         \* job keys of one tenant
  LeaseId,     \* lease identifiers, each given out once (bound)
  Call,        \* places for calls in progress (bound)
  NoLease,
  NoJob,
  NoCall,
  MaxChapters, \* largest number of chapters of a story (bound)
  MaxRecords   \* records made, for all job keys (bound)

ASSUME ToyAssumption ==
  /\ NoLease \notin LeaseId /\ NoJob \notin Job /\ NoCall \notin Call
  /\ MaxChapters \in Nat \ {0} /\ MaxRecords \in Nat \ {0}

VARIABLES
  rec,       \* every record made for a job; the last one is in the map
  story,     \* runtimeChapters
  call,      \* calls in progress
  grant,     \* history: the job for which a lease was given out
  done,      \* history: jobs that were completed or cancelled, and answered so
  contested  \* history: jobs that a submission or a commit has met in use

vars == <<rec, story, call, grant, done, contested>>

Terminal == {"completed", "cancelled"}
\* A job is active exactly while its record has a lease.
Status == {"ready", "awaiting_future", "pending_jobs", "active"} \cup Terminal

\* task: the ordinal of the chapter that an external task is to write, if the
\* payload has a wait for one (and the capability is that of the task), or 0.
\* result: the outcome of the job is in the record.
Record == [status : Status, lease : LeaseId \cup {NoLease},
           task : 0 .. MaxChapters, waitFor : SUBSET Job, result : BOOLEAN]
Fresh(s) == [status |-> s, lease |-> NoLease, task |-> 0, waitFor |-> {},
             result |-> FALSE]

\* What is told apart of a chapter: a final one is that of a lease.
Start == [kind |-> "start", of |-> NoLease]
Work == [kind |-> "work", of |-> NoLease]
Final(l) == [kind |-> "final", of |-> l]
Chapter == {Start, Work} \cup {Final(l) : l \in LeaseId}

Op == {"none", "submit", "put", "complete", "commit"}
PC == {"idle", "chapter", "store", "result", "finish"}

\* at: the record that a completion has looked up; to: the one that was in the
\* map when its chapter was stored.  ord: the ordinal that is written (from 0).
CallState == [op : Op, pc : PC, job : Job \cup {NoJob},
              at : 0 .. MaxRecords, to : 0 .. MaxRecords,
              lease : LeaseId \cup {NoLease}, ord : 0 .. MaxChapters]
Idle == [op |-> "none", pc |-> "idle", job |-> NoJob, at |-> 0, to |-> 0,
         lease |-> NoLease, ord |-> 0]

Init ==
  /\ rec = [j \in Job |-> <<>>]
  /\ story = [j \in Job |-> <<>>]
  /\ call = [c \in Call |-> Idle]
  /\ grant = [l \in LeaseId |-> NoJob]
  /\ done = {} /\ contested = {}

Known(j) == rec[j] # <<>>
Now(j) == Last(rec[j])
Write(j, r) == rec' = [rec EXCEPT ![j][Len(rec[j])] = r]
Records == {p \in Job \X (1 .. MaxRecords) : p[2] <= Len(rec[p[1]])}
Made == Cardinality(Records)
Free(c) == call[c] = Idle
At(c, op, pc) == call[c].op = op /\ call[c].pc = pc
Return(c) == call' = [call EXCEPT ![c] = Idle]

\* A submission or a commit of the job is on its way.
Delicate(d, j) == call[d].job = j /\ call[d].op \in {"submit", "commit"}
Contest(c, j) ==
  contested' = contested \cup {k \in {j} : \E d \in Call \ {c} : Delicate(d, j)}

-----------------------------------------------------------------------------
(* Submission                                                              *)

\* submitJobWithParent as far as existingEquivalentJob, which finds no job; one
\* that it finds is not touched.
CheckSubmit(c, j) ==
  /\ Free(c)
  /\ ~Known(j)
  /\ call' = [call EXCEPT ![c] = [Idle EXCEPT !.op = "submit", !.pc = "finish",
                                              !.job = j]]
  /\ UNCHANGED <<rec, story, grant, done, contested>>

\* The end of submitJobWithParent.  It does not look whether there is a job now.
InsertJob(c) ==
  LET j == call[c].job IN
  /\ At(c, "submit", "finish")
  /\ Made < MaxRecords
  /\ \E s \in {"ready", "awaiting_future"} :
       rec' = [rec EXCEPT ![j] = Append(@, Fresh(s))]
  /\ story' = [story EXCEPT ![j] =
       <<Start>> \o (IF @ = <<>> THEN @ ELSE Tail(@))]
  /\ Contest(c, j)
  /\ Return(c)
  /\ UNCHANGED <<grant, done>>

\* Slip: the look at the target is not repeated under the lock.
SubmitRestartOver(j, prior, keep) ==
  /\ Known(prior) /\ keep + 1 < Len(story[prior])
  /\ Made < MaxRecords
  /\ rec' = [rec EXCEPT ![j] = Append(@, Fresh("ready"))]
  /\ story' = [story EXCEPT ![j] = SubSeq(story[prior], 1, keep + 1)]
  /\ Contest(NoCall, j)
  /\ UNCHANGED <<call, grant, done>>

\* submitRestartJobWithParent, one section.  The chapters up to keep are copied;
\* a target that exists is not touched.
SubmitRestart(j, prior, keep) ==
  /\ Known(prior) /\ keep + 1 < Len(story[prior])
  /\ ~Known(j) /\ Made < MaxRecords
  /\ rec' = [rec EXCEPT ![j] = <<Fresh("ready")>>]
  /\ story' = [story EXCEPT ![j] = SubSeq(story[prior], 1, keep + 1)]
  /\ Contest(NoCall, j)
  /\ UNCHANGED <<call, grant, done>>

-----------------------------------------------------------------------------
(* Polling                                                                 *)

Finished(j) == Known(j) => Now(j).status \in Terminal

\* advanceRecordStateLocked, for a record whose time has come or not.  A job
\* that is not there is not waited for.
Advance(r, due) ==
  IF r.status = "awaiting_future" /\ due THEN [r EXCEPT !.status = "ready"]
  ELSE IF r.status = "pending_jobs" /\ \A d \in r.waitFor : Finished(d)
  THEN [r EXCEPT !.status = "ready", !.waitFor = {}]
  ELSE r

\* PollWork and GetJobLease: the records that are looked at are brought up to
\* date, and one of them that is ready may be leased.  (A poll with a larger
\* limit leases several, as several polls do; nothing happens to a record that is
\* active or at an end.)
PollWork(looked, taken, l, due) ==
  /\ grant[l] = NoJob
  /\ taken \subseteq looked
  /\ \A j \in looked : Known(j) /\ Now(j).status \notin Terminal \cup {"active"}
  /\ \A j \in taken : Advance(Now(j), due).status = "ready"
  /\ rec' = [j \in Job |->
       IF j \notin looked THEN rec[j]
       ELSE [rec[j] EXCEPT ![Len(rec[j])] =
               IF j \in taken
               THEN [Advance(@, due) EXCEPT !.status = "active", !.lease = l]
               ELSE Advance(@, due)]]
  /\ rec' # rec
  /\ grant' = [grant EXCEPT ![l] = IF taken = {} THEN @ ELSE CHOOSE j \in taken : TRUE]
  /\ contested' = contested \cup {j \in taken : \E d \in Call : Delicate(d, j)}
  /\ UNCHANGED <<story, call, done>>

-----------------------------------------------------------------------------
(* Calls                                                                   *)

\* Slip: the lease stays in the record.
CancelJobOnly(j) ==
  /\ Known(j)
  /\ Write(j, [Now(j) EXCEPT !.status = "cancelled"])
  /\ done' = done \cup {j}
  /\ Contest(NoCall, j)
  /\ UNCHANGED <<story, call, grant>>

\* CancelJob, whatever state the job is in.  Here, as in the first section of
\* any call, the record is looked up and then locked; a record that is replaced
\* in between is seen by nobody who could tell this from one step.
CancelJob(j) ==
  /\ Known(j)
  /\ Write(j, [Now(j) EXCEPT !.status = "cancelled", !.lease = NoLease])
  /\ done' = done \cup {j}
  /\ Contest(NoCall, j)
  /\ UNCHANGED <<story, call, grant>>

\* The first section of PutChapter and of completeLease.  The callers of a lease
\* know the story as it is or was; without the lease they get
\* ErrExecutionLeaseLost.
CheckLease(c, l, op, o) ==
  LET j == grant[l] IN
  /\ Free(c)
  /\ j # NoJob /\ Now(j).lease = l
  /\ o \in 1 .. Len(story[j]) /\ o < MaxChapters
  /\ call' = [call EXCEPT ![c] =
       [op |-> op, pc |-> IF op = "put" THEN "store" ELSE "chapter",
        job |-> j, at |-> Len(rec[j]), to |-> 0, lease |-> l, ord |-> o]]
  /\ UNCHANGED <<rec, story, grant, done, contested>>

\* The chapter at the ordinal of the call, if any
Existing(c) == story[call[c].job][call[c].ord + 1]
Exists(c) == call[c].ord < Len(story[call[c].job])

\* Slip: what is there is not compared.
EnsureCompletionChapterAny(c) ==
  /\ At(c, "complete", "chapter")
  /\ call' = [call EXCEPT ![c].pc = IF Exists(c) THEN "finish" ELSE "store"]
  /\ UNCHANGED <<rec, story, grant, done, contested>>

\* ensureCompletionChapter: a final chapter of this lease is taken for its own.
EnsureCompletionChapter(c) ==
  /\ At(c, "complete", "chapter")
  /\ IF ~Exists(c) THEN call' = [call EXCEPT ![c].pc = "store"]
     ELSE IF Existing(c) = Final(call[c].lease) THEN call' = [call EXCEPT ![c].pc = "finish"]
     ELSE Return(c)
  /\ UNCHANGED <<rec, story, grant, done, contested>>

\* storeRuntimeChapter, the section under the engine's mutex.  Any other
\* ordinal than the next one is a conflict.
StoreChapter(c) ==
  LET k == call[c]
      j == k.job IN
  /\ k.pc = "store"
  /\ IF k.ord = Len(story[j])
     THEN /\ story' = [story EXCEPT ![j] =
               Append(@, IF k.op = "complete" THEN Final(k.lease) ELSE Work)]
          /\ call' = [call EXCEPT ![c] =
               CASE k.op = "put" -> Idle
                 [] k.op = "commit" -> [k EXCEPT !.pc = "finish"]
                 [] k.op = "complete" -> [k EXCEPT !.pc = "result", !.to = Len(rec[j])]]
     ELSE Return(c) /\ UNCHANGED story
  /\ UNCHANGED <<rec, grant, done, contested>>

\* storeRuntimeChapter, the section under the mutex of the record that was in
\* the map.
StoreResult(c) ==
  LET k == call[c] IN
  /\ At(c, "complete", "result")
  /\ rec' = [rec EXCEPT ![k.job][k.to].result = TRUE]
  /\ call' = [call EXCEPT ![c].pc = "finish"]
  /\ UNCHANGED <<story, grant, done, contested>>

\* The record that the call has looked up, with the lease of the call or not.
OfCall(c) == rec[call[c].job][call[c].at]
HasLease(c) == OfCall(c).lease = call[c].lease

\* A call that has lost its lease on the way gets ErrExecutionLeaseLost.
LeaseLost(c) ==
  /\ At(c, "complete", "finish")
  /\ ~HasLease(c)
  /\ Return(c)
  /\ UNCHANGED <<rec, story, grant, done, contested>>

\* Slip: the lease is not compared again.
FinishLeaseOnly(c, status) ==
  LET j == call[c].job IN
  /\ At(c, "complete", "finish")
  /\ rec' = [rec EXCEPT ![j][call[c].at] =
               [@ EXCEPT !.status = status, !.lease = NoLease]]
  /\ done' = done \cup {j}
  /\ Contest(c, j)
  /\ Return(c)
  /\ UNCHANGED <<story, grant>>

\* The last section of completeLease
CompleteLease(c, status) ==
  LET j == call[c].job IN
  /\ At(c, "complete", "finish")
  /\ HasLease(c)
  /\ rec' = [rec EXCEPT ![j][call[c].at] =
               [@ EXCEPT !.status = status, !.lease = NoLease]]
  /\ done' = done \cup {j}
  /\ Contest(c, j)
  /\ Return(c)
  /\ UNCHANGED <<story, grant>>

Rescheduled(r, o, for, later) ==
  [r EXCEPT !.lease = NoLease, !.task = o, !.waitFor = for,
            !.status = IF for # {} THEN "pending_jobs"
                       ELSE IF later THEN "awaiting_future" ELSE "ready"]

\* Slip: the lease is not compared.
RescheduleLeaseLate(l, o, for, later) ==
  LET j == grant[l] IN
  /\ j # NoJob
  /\ o \in 0 .. Len(story[j]) /\ o < MaxChapters
  /\ Write(j, Rescheduled(Now(j), o, for, later))
  /\ Contest(NoCall, j)
  /\ UNCHANGED <<story, call, grant, done>>

\* rescheduleLease: the next need is an external task or not; the job may wait
\* for others or for a time, which is forgotten if it also waits for jobs.  (A
\* job must not wait for itself: the next poll would lock its record twice.)
RescheduleLease(l, o, for, later) ==
  LET j == grant[l] IN
  /\ j # NoJob /\ Now(j).lease = l
  /\ o \in 0 .. Len(story[j]) /\ o < MaxChapters
  /\ Write(j, Rescheduled(Now(j), o, for, later))
  /\ Contest(NoCall, j)
  /\ UNCHANGED <<story, call, grant, done>>

\* The first section of CompleteTaskIfWaiting: the payload has the task that
\* the caller was given; the status and the lease are not looked at.
BeginCommit(c, j) ==
  /\ Free(c)
  /\ Known(j) /\ Now(j).task # 0
  /\ call' = [call EXCEPT ![c] = [Idle EXCEPT !.op = "commit", !.pc = "store",
                                              !.job = j, !.ord = Now(j).task]]
  /\ contested' = contested \cup
       {k \in {j} : Now(j).status \in Terminal \cup {"active"}
                      \/ \E d \in Call : Delicate(d, j)}
  /\ UNCHANGED <<rec, story, grant, done>>

\* The last section of CompleteTaskIfWaiting, on the record of that moment and
\* without any condition
ResumeJob(c) ==
  LET j == call[c].job IN
  /\ At(c, "commit", "finish")
  /\ Write(j, [Now(j) EXCEPT !.status = "ready", !.lease = NoLease, !.task = 0])
  /\ Contest(c, j)
  /\ Return(c)
  /\ UNCHANGED <<story, grant, done>>

Next ==
  \/ \E c \in Call, j \in Job : CheckSubmit(c, j) \/ BeginCommit(c, j)
  \/ \E j \in Job :
       \/ CancelJob(j)
       \/ \E prior \in Job, keep \in 0 .. MaxChapters :
            SubmitRestart(j, prior, keep)
  \/ \E l \in LeaseId :
       \/ \E looked \in SUBSET Job, due \in BOOLEAN :
            \E taken \in {{}} \cup {{j} : j \in looked} :
              PollWork(looked, taken, l, due)
       \/ \E o \in 0 .. MaxChapters :
            \/ \E c \in Call, op \in {"put", "complete"} : CheckLease(c, l, op, o)
            \/ \E for \in SUBSET (Job \ {grant[l]}), later \in BOOLEAN :
                 RescheduleLease(l, o, for, later)
  \/ \E c \in Call :
       \/ InsertJob(c)
       \/ EnsureCompletionChapter(c)
       \/ StoreChapter(c)
       \/ StoreResult(c)
       \/ LeaseLost(c)
       \/ \E s \in Terminal : CompleteLease(c, s)
       \/ ResumeJob(c)

Spec == Init /\ [][Next]_vars

-----------------------------------------------------------------------------
(* Properties                                                              *)

\* Every variable keeps its shape, and a job has records exactly when it has a
\* story (the two maps of ToyEngine are filled in one section).
TypeOK ==
  /\ rec \in [Job -> Seq(Record)] /\ story \in [Job -> Seq(Chapter)]
  /\ \A j \in Job :
       /\ Len(rec[j]) <= MaxRecords /\ Len(story[j]) <= MaxChapters
       /\ \A n \in DOMAIN rec[j] :
            rec[j][n].status = "active" <=> rec[j][n].lease # NoLease
       /\ \A n \in DOMAIN story[j] : n = 1 <=> story[j][n].kind = "start"
       /\ Known(j) <=> story[j] # <<>>
  /\ DOMAIN call = Call /\ \A c \in Call : call[c] \in CallState
  /\ grant \in [LeaseId -> Job \cup {NoJob}]
  /\ done \subseteq Job /\ contested \subseteq Job

\* A chapter behind the start is never replaced or taken away, not even by a
\* submission or a restart that puts a new record in the place of an old one.
ChaptersKept ==
  [][\A j \in Job :
       /\ Len(story'[j]) >= Len(story[j])
       /\ \A n \in 2 .. Len(story[j]) : story'[j][n] = story[j][n]]_vars

\* A lease ends by a call of its holder or by a cancellation, whatever calls of
\* earlier leases are still in their later sections; only a submission or a
\* commit that meets the job in use takes it away (submitJobWithParent inserts
\* and CompleteTaskIfWaiting resumes without a condition).
LeaseKept ==
  [][\A j \in Job \ contested :
       Known(j) /\ Now(j).lease # NoLease /\ Now(j)'.lease # Now(j).lease =>
         \/ CancelJob(j)
         \/ \E o \in 0 .. MaxChapters, for \in SUBSET Job, later \in BOOLEAN :
              RescheduleLease(Now(j).lease, o, for, later)
         \/ \E c \in Call, s \in Terminal :
              CompleteLease(c, s) /\ call[c].lease = Now(j).lease]_vars

\* A job whose completion or cancellation was answered stays at an end, with the
\* same exception.
DoneStays == \A j \in done \ contested : Now(j).status \in Terminal

\* A completed job has its final chapter, and its outcome is in the record or
\* about to be put there (completeLease called twice with one lease may be done
\* before the call that stored the chapter has stored the outcome).
CompletedHasOutcome ==
  \A j \in Job : Known(j) /\ Now(j).status = "completed" =>
    /\ \E n \in DOMAIN story[j] : story[j][n].kind = "final"
    /\ \/ Now(j).result
       \/ \E c \in Call : /\ At(c, "complete", "result")
                           /\ call[c].job = j /\ call[c].to = Len(rec[j])
       \/ j \in contested
=============================================================================
