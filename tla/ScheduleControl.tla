--------------------------- MODULE ScheduleControl ---------------------------
(***************************************************************************)
(* Schedules of the SQLite runtime (schedule.go, schedule_preflight.go in  *)
(* pkg/jobdb/runtime/sqlite, and schedule.go, schedule_trigger.go in       *)
(* pkg/jobdb).  A schedule is a row; its occurrences are ordinary jobs.    *)
(* No process watches the clock: whoever leases an occurrence that has not *)
(* started checks it against the row and files the next one before it      *)
(* hands the lease to the application.  The reads of that preflight, the   *)
(* story and the row of the next occurrence are transactions of their own. *)
(*                                                                         *)
(* One schedule is modelled.  Its occurrences are leased, completed and    *)
(* cancelled as in JobLease, in larger steps: the window inside CreateStory*)
(* is the subject of Submission, those inside completion of JobLease.      *)
(*                                                                         *)
(* An operator marked "Slip" is not the code: it is a plausible mistake in *)
(* the definition that follows it, kept to show which property notices it. *)
(***************************************************************************)
EXTENDS Integers, Sequences, FiniteSets

CONSTANTS
  Worker,        \* callers of PollWork and GetJobLease (bound)
  Admin,         \* callers of the schedule operations (bound)
  NoWorker,
  Every,         \* the period of the triggers
  Request,       \* request ids of TriggerSchedule
  NoRequest,
  NoId,          \* no job
  Cases,         \* the schedules considered and their circumstances
  MaxTime,       \* last moment of any case (bound)
  MaxGeneration  \* largest generation of any case (bound)

\* In every case: the kinds of trigger in use; failurePolicy.windowSize and
\* maxSequentialFailures, 0 if not given; the request ids of TriggerSchedule; the
\* endAt of the triggers, which is also the last moment; whether the target may
\* make more than one attempt (MaximumAttempts); and bounds for the generation
\* and for the workers that are busy at once.
Case == [triggers : SUBSET {"interval", "cron"}, window : Nat, failures : Nat,
         requests : SUBSET Request, end : 0 .. MaxTime, retries : BOOLEAN,
         generations : 0 .. MaxGeneration, busy : Nat]

ASSUME ScheduleAssumption ==
  /\ NoWorker \notin Worker
  /\ Worker \cap Admin = {}
  /\ Cases \subseteq Case
  /\ Every \in Nat \ {0}
  /\ NoRequest \notin Request
  /\ MaxTime \in Nat /\ MaxGeneration \in Nat

VARIABLES
  given,   \* the case, which does not change
  now,     \* the clock
  sched,   \* the jobdb_schedules row
  story,   \* chapter stories of the occurrences
  job,     \* jobdb_jobs rows of the occurrences
  call     \* what each caller is doing

vars == <<given, now, sched, story, job, call>>

Time == 0 .. MaxTime
Trigger == {"interval", "cron"}
Generation == 0 .. MaxGeneration
Caller == Worker \cup Admin

\* ScheduleRunJobID and ScheduleManualJobID
RunId(g, t) == [gen |-> g, at |-> t, req |-> NoRequest]
ManualId(r) == [gen |-> 0, at |-> 0, req |-> r]
Id == {RunId(g, t) : g \in 1 .. MaxGeneration, t \in Time}
        \cup {ManualId(r) : r \in Request}

ASSUME NoIdAssumption == NoId \notin Id

\* What a story holds behind its start chapter: nothing, chapters of the
\* application, the final chapter of a preflight that refused, or chapters of
\* the application behind that one.
Content == {"none", "start", "work", "refused", "rework"}
Outcome == {"success", "failed", "cancelled"}

ScheduleRow ==
  [exists : BOOLEAN, state : {"active", "paused", "archived"},
   gen : Generation, trigger : Trigger \cup {"none"},
   next : Id \cup {NoId}]

\* The failure history, oldest first; TRUE is a success.
Bits == Seq(BOOLEAN)

\* Schedule metadata of an occurrence (ScheduleOccurrenceMetadata): generation
\* and spec hash of the schedule row, scheduledAt, previousJobId, history.
Occurrence(g, k, t, p, b) ==
  [gen |-> g, trigger |-> k, at |-> t, prev |-> p, bits |-> b]
NoOccurrence == Occurrence(0, "none", 0, NoId, <<>>)
Occurrences == [gen : Generation, trigger : Trigger \cup {"none"}, at : Time,
                prev : Id \cup {NoId}, bits : Bits]

JobRow == [status : {"none", "open"} \cup Outcome, occ : Occurrences,
           lease : Worker \cup {NoWorker}]
NoRow == [status |-> "none", occ |-> NoOccurrence, lease |-> NoWorker]

PC == {"idle", "count", "check", "history", "story", "row", "refuse",
       "archive", "granted"}

\* job: the leased occurrence.  id, occ: the occurrence to be filed.  fresh:
\* the leased one fitted the schedule row when it was leased (history).
CallState == [pc : PC, job : Id \cup {NoId}, id : Id \cup {NoId},
              occ : Occurrences, fresh : BOOLEAN]
Idle == [pc |-> "idle", job |-> NoId, id |-> NoId, occ |-> NoOccurrence,
         fresh |-> FALSE]

Init ==
  /\ given \in Cases
  /\ now = 0
  /\ sched = [exists |-> FALSE, state |-> "paused", gen |-> 0,
              trigger |-> "none", next |-> NoId]
  /\ story = [i \in Id |-> [content |-> "none", prev |-> NoId]]
  /\ job = [i \in Id |-> NoRow]
  /\ call = [c \in Caller |-> Idle]

-----------------------------------------------------------------------------
(* Triggers and the failure policy                                         *)

\* Slip: endAt is not looked at.
UpToEndOpen(t) == {t}

\* Fire times up to endAt; startAt is not used.
UpToEnd(t) == {t} \cap 0 .. given.end

\* The first period boundary at or after t, and the first after t.
BoundaryFrom(t) == ((t + Every - 1) \div Every) * Every
BoundaryAfter(t) == (t \div Every + 1) * Every

\* InitialScheduleFire: the set has the fire time, or nothing.
InitialFire(k, t) == UpToEnd(IF k = "interval" THEN t ELSE BoundaryFrom(t))

\* NextScheduleFire: an interval runs from the moment of the preflight.
NextFire(k, t) ==
  UpToEnd(IF k = "interval" THEN t + Every ELSE BoundaryAfter(t))

\* AppendScheduleFailureBit
AppendBit(bits, ok, w) ==
  LET b == Append(bits, ok)
  IN  IF w > 0 /\ Len(b) > w THEN SubSeq(b, Len(b) - w + 1, Len(b)) ELSE b

\* The size of the window comes from the policy, and otherwise from the
\* occurrence, which was filed with the length of the history it carries.
WindowSize(bits) == IF given.window > 0 THEN given.window ELSE Len(bits)

\* ScheduleFailurePolicyViolated, the sequential failures.
PolicyViolated(bits) ==
  /\ given.failures > 0
  /\ Len(bits) >= given.failures
  /\ \A i \in Len(bits) - given.failures + 1 .. Len(bits) : ~bits[i]

-----------------------------------------------------------------------------
(* Schedule operations                                                     *)

Closed(i) == job[i].status \in Outcome

\* The row with a new state and generation, and the occurrence it names next.
Row(state, k, g, t) ==
  [exists |-> TRUE, state |-> state, gen |-> g, trigger |-> k,
   next |-> IF state = "active" /\ t # {}
            THEN RunId(g, CHOOSE x \in t : TRUE) ELSE NoId]

\* The transaction commits; the first occurrence is filed afterwards.
Commit(a, r) ==
  /\ sched' = r
  /\ call' = [call EXCEPT ![a] =
       IF r.next = NoId THEN Idle
       ELSE [Idle EXCEPT !.pc = "story", !.id = r.next,
               !.occ = Occurrence(r.gen, r.trigger, r.next.at, NoId, <<>>)]]
  /\ UNCHANGED <<given, now, story, job>>

UpsertSchedule(a, k, state) ==
  /\ call[a].pc = "idle"
  /\ sched.state # "archived"
  /\ sched.gen < given.generations
  /\ Commit(a, Row(state, k, sched.gen + 1, InitialFire(k, now)))

\* Slip: a change of state alone keeps the generation.
MutateScheduleStateInPlace(a, state) ==
  /\ call[a].pc = "idle"
  /\ sched.exists
  /\ sched.state = "archived" => state = "archived"
  /\ Commit(a, Row(state, sched.trigger, sched.gen,
                   InitialFire(sched.trigger, now)))

\* PauseSchedule, ResumeSchedule, ArchiveSchedule
MutateScheduleState(a, state) ==
  /\ call[a].pc = "idle"
  /\ sched.exists
  /\ sched.state = "archived" => state = "archived"
  /\ sched.gen < given.generations
  /\ Commit(a, Row(state, sched.trigger, sched.gen + 1,
                   InitialFire(sched.trigger, now)))

\* The row is read once; what is filed is an occurrence of what was read.
TriggerSchedule(a, r) ==
  /\ call[a].pc = "idle"
  /\ sched.exists
  /\ sched.state # "archived"
  /\ call' = [call EXCEPT ![a] =
       [Idle EXCEPT !.pc = "story", !.id = ManualId(r),
          !.occ = Occurrence(sched.gen, sched.trigger, now, NoId, <<>>)]]
  /\ UNCHANGED <<given, now, sched, story, job>>

-----------------------------------------------------------------------------
(* Filing an occurrence                                                    *)

Goto(c, pc) == call' = [call EXCEPT ![c].pc = pc]

\* A call that ends in an error; a lease it has is left to expire.
Fail(c) == call' = [call EXCEPT ![c] = Idle]

\* The lease is handed out.
Grant(w) ==
  call' = [call EXCEPT ![w] = [@ EXCEPT !.pc = "granted", !.id = NoId,
                                        !.occ = NoOccurrence]]

\* An occurrence filed by a preflight: the lease may be handed out.
Filed(c) == IF call[c].job = NoId THEN Fail(c) ELSE Grant(c)

\* Slip: a story that is there is taken for an occurrence that is filed.
CreateStoryGrants(c) ==
  LET i == call[c].id IN
  /\ call[c].pc = "story"
  /\ IF story[i].content = "none"
     THEN /\ story' = [story EXCEPT ![i] =
                         [content |-> "start", prev |-> call[c].occ.prev]]
          /\ Goto(c, "row")
     ELSE /\ IF story[i].prev = call[c].occ.prev THEN Filed(c) ELSE Fail(c)
          /\ UNCHANGED story
  /\ UNCHANGED <<given, now, sched, job>>

\* CreateStory, or loadExistingStartChapter and compareSubmitStartChapter: the
\* start chapters of one id may differ in their prerequisite.
CreateStory(c) ==
  LET i == call[c].id IN
  /\ call[c].pc = "story"
  /\ IF story[i].content = "none"
     THEN /\ story' = [story EXCEPT ![i] =
                         [content |-> "start", prev |-> call[c].occ.prev]]
          /\ Goto(c, "row")
     ELSE /\ IF story[i].prev = call[c].occ.prev THEN Goto(c, "row") ELSE Fail(c)
          /\ UNCHANGED story
  /\ UNCHANGED <<given, now, sched, job>>

\* ensureSubmittedJobRecord: insert, or compare metadata and availableAt.
EnsureRow(c) ==
  LET i == call[c].id IN
  /\ call[c].pc = "row"
  /\ IF job[i].status = "none"
     THEN /\ job' = [job EXCEPT ![i] = [status |-> "open", occ |-> call[c].occ,
                                        lease |-> NoWorker]]
          /\ Filed(c)
     ELSE /\ IF job[i].occ = call[c].occ THEN Filed(c) ELSE Fail(c)
          /\ UNCHANGED job
  /\ UNCHANGED <<given, now, sched, story>>

-----------------------------------------------------------------------------
(* Leasing an occurrence, and its preflight                                *)

Holds(w) == job[call[w].job].lease = w

\* The schedule row as it is wants the occurrence to run.
Wanted(o) ==
  /\ sched.exists
  /\ sched.state = "active"
  /\ sched.gen = o.gen
  /\ sched.trigger = o.trigger
  /\ o.at <= given.end

\* The worker may ask for work (the number of busy ones is bounded).
Free(w) ==
  /\ call[w].pc = "idle"
  /\ Cardinality({v \in Worker : call[v].pc # "idle"}) < given.busy

Lease(w, i) ==
  /\ job' = [job EXCEPT ![i].lease = w]
  /\ call' = [call EXCEPT ![w] =
                [Idle EXCEPT !.pc = "count", !.job = i,
                             !.fresh = Wanted(job[i].occ)]]
  /\ UNCHANGED <<given, now, sched, story>>

\* Slip: the previous occurrence only has to be leased no more.
AcquireLeaseOverlapping(w, i) ==
  /\ Free(w)
  /\ job[i].status = "open"
  /\ job[i].lease = NoWorker
  /\ job[i].occ.at <= now
  /\ job[i].occ.prev # NoId => job[job[i].occ.prev].lease = NoWorker
  /\ Lease(w, i)

\* acquireOneLease, or the transaction of GetJobLease: an occurrence is not
\* leased before its time, nor before the previous one is archived.
AcquireLease(w, i) ==
  /\ Free(w)
  /\ job[i].status = "open"
  /\ job[i].lease = NoWorker
  /\ job[i].occ.at <= now
  /\ job[i].occ.prev # NoId => Closed(job[i].occ.prev)
  /\ Lease(w, i)

\* An occurrence with a second chapter has started, and is not checked.
CountChapters(w) ==
  /\ call[w].pc = "count"
  /\ Goto(w, IF story[call[w].job].content = "start" THEN "check"
                                                     ELSE "granted")
  /\ UNCHANGED <<given, now, sched, story, job>>

\* Slip: only the state of the schedule is looked at.
LoadScheduleStateOnly(w) ==
  /\ call[w].pc = "check"
  /\ Goto(w, IF sched.state = "active" THEN "history" ELSE "refuse")
  /\ UNCHANGED <<given, now, sched, story, job>>

LoadSchedule(w) ==
  LET o == job[call[w].job].occ IN
  /\ call[w].pc = "check"
  /\ Goto(w, IF Wanted(o) THEN "history" ELSE "refuse")
  /\ UNCHANGED <<given, now, sched, story, job>>

\* previousJobSucceeded reads the row of the previous occurrence.
History(o) ==
  IF o.prev = NoId THEN o.bits
  ELSE AppendBit(o.bits, job[o.prev].status = "success", WindowSize(o.bits))

\* Slip: the history that the occurrence came with is judged.
JudgeHistoryStale(w) ==
  LET o == job[call[w].job].occ
      next == NextFire(o.trigger, now) IN
  /\ call[w].pc = "history"
  /\ IF PolicyViolated(o.bits) THEN Goto(w, "refuse")
     ELSE IF next = {} THEN Goto(w, "granted")
     ELSE \E t \in next :
            call' = [call EXCEPT ![w] =
              [@ EXCEPT !.pc = "story", !.id = RunId(o.gen, t),
                 !.occ = Occurrence(o.gen, o.trigger, t, call[w].job,
                                    History(o))]]
  /\ UNCHANGED <<given, now, sched, story, job>>

\* The rest of preflightScheduleLease: the history is judged, and the moment of
\* the next occurrence computed from the clock.
JudgeHistory(w) ==
  LET o == job[call[w].job].occ
      next == NextFire(o.trigger, now) IN
  /\ call[w].pc = "history"
  /\ IF PolicyViolated(History(o)) THEN Goto(w, "refuse")
     ELSE IF next = {} THEN Goto(w, "granted")
     ELSE \E t \in next :
            call' = [call EXCEPT ![w] =
              [@ EXCEPT !.pc = "story", !.id = RunId(o.gen, t),
                 !.occ = Occurrence(o.gen, o.trigger, t, call[w].job,
                                    History(o))]]
  /\ UNCHANGED <<given, now, sched, story, job>>

\* cancelScheduledLease completes the occurrence: the final chapter, the row.
RefuseChapter(w) ==
  /\ call[w].pc = "refuse"
  /\ IF Holds(w)
     THEN /\ story' = [story EXCEPT ![call[w].job].content = "refused"]
          /\ Goto(w, "archive")
     ELSE Fail(w) /\ UNCHANGED story
  /\ UNCHANGED <<given, now, sched, job>>

Archive(i, s) ==
  job' = [job EXCEPT ![i] = [@ EXCEPT !.status = s, !.lease = NoWorker]]

RefuseRow(w) ==
  /\ call[w].pc = "archive"
  /\ IF Holds(w) THEN Archive(call[w].job, "cancelled") ELSE UNCHANGED job
  /\ Fail(w)
  /\ UNCHANGED <<given, now, sched, story>>

-----------------------------------------------------------------------------
(* The application, and the rest of the system                             *)

\* A worker that finds the final chapter of a preflight takes it for the failed
\* outcome of a first attempt and, if the target has another, makes it.
WriteChapter(w) ==
  LET i == call[w].job IN
  /\ call[w].pc = "granted"
  /\ Holds(w)
  /\ \/ /\ story[i].content = "start"
        /\ story' = [story EXCEPT ![i].content = "work"]
     \/ /\ story[i].content = "refused"
        /\ given.retries
        /\ story' = [story EXCEPT ![i].content = "rework"]
  /\ UNCHANGED <<given, now, sched, job, call>>

\* The outcome of the application.  If the preflight's chapter was the last
\* attempt, DoJob returns its error and completes nothing: the worker keeps the
\* lease until it expires (Crash, ExpireLease), each time anew.
Complete(w, s) ==
  /\ call[w].pc = "granted"
  /\ Holds(w)
  /\ story[call[w].job].content \in {"work", "rework"}
  /\ Archive(call[w].job, s)
  /\ Fail(w)
  /\ UNCHANGED <<given, now, sched, story>>

CancelJob(i) ==
  /\ job[i].status = "open"
  /\ Archive(i, "cancelled")
  /\ UNCHANGED <<given, now, sched, story, call>>

ExpireLease(i) ==
  /\ job[i].lease # NoWorker
  /\ job' = [job EXCEPT ![i].lease = NoWorker]
  /\ UNCHANGED <<given, now, sched, story, call>>

\* A caller dies, or an application gives up a job it lost.
Crash(c) ==
  /\ call[c].pc # "idle"
  /\ Fail(c)
  /\ UNCHANGED <<given, now, sched, story, job>>

Tick ==
  /\ now < given.end
  /\ now' = now + 1
  /\ UNCHANGED <<given, sched, story, job, call>>

Next ==
  \/ \E a \in Admin :
       \/ \E k \in given.triggers, s \in {"active", "paused"} : UpsertSchedule(a, k, s)
       \/ \E s \in {"active", "paused", "archived"} : MutateScheduleState(a, s)
       \/ \E r \in given.requests : TriggerSchedule(a, r)
  \/ \E c \in Caller : CreateStory(c) \/ EnsureRow(c) \/ Crash(c)
  \/ \E w \in Worker :
       \/ \E i \in Id : AcquireLease(w, i)
       \/ CountChapters(w)
       \/ LoadSchedule(w)
       \/ JudgeHistory(w)
       \/ RefuseChapter(w)
       \/ RefuseRow(w)
       \/ WriteChapter(w)
       \/ \E s \in {"success", "failed"} : Complete(w, s)
  \/ \E i \in Id : CancelJob(i) \/ ExpireLease(i)
  \/ Tick

Spec == Init /\ [][Next]_vars

-----------------------------------------------------------------------------
(* Properties                                                              *)

\* Every variable keeps its shape (scheduleRow, ScheduleOccurrenceMetadata).
TypeOK ==
  /\ given \in Cases
  /\ now \in 0 .. given.end
  /\ sched \in ScheduleRow
  /\ story \in [Id -> [content : Content, prev : Id \cup {NoId}]]
  /\ DOMAIN job = Id /\ \A i \in Id : job[i] \in JobRow
  /\ DOMAIN call = Caller /\ \A c \in Caller : call[c] \in CallState

\* Serial overlap: an occurrence is handed to an application, and worked on,
\* only when its time has come and the occurrence before it is over, whoever
\* filed it and however often its lease changed hands (acquireOneLease).
SerialOrder ==
  \A i \in Id :
    job[i].status # "none"
        /\ (story[i].content \in {"work", "rework"}
              \/ \E w \in Worker : call[w].pc = "granted" /\ call[w].job = i)
      => /\ job[i].occ.at <= now
         /\ job[i].occ.prev # NoId => Closed(job[i].occ.prev)

\* The chain does not depend on the application: work on an occurrence that its
\* preflights let start means that a successor is filed, unless the schedule
\* ends before the next one (preflightScheduleLease), after any crash, takeover
\* or change of the row.  Work behind a refusal has none.
WorkHasSuccessor ==
  \A i \in Id : story[i].content = "work" =>
    \/ \E k \in Id : job[k].status # "none" /\ job[k].occ.prev = i
    \/ NextFire(job[i].occ.trigger, now) = {}

\* An occurrence that had not started and was already unwanted when its lease
\* was acquired (paused, archived or changed schedule) is never handed to an
\* application (the checks of preflightScheduleLease).
UnwantedNeverStarts ==
  \A w \in Worker :
    call[w].pc = "granted" /\ story[call[w].job].content = "start"
      => call[w].fresh

\* Occurrences of the current generation exist only while the schedule is
\* active: what was filed before a pause cannot come back by a resume, nor by a
\* filing that was under way (mutateScheduleState takes a new generation).
CurrentMeansActive ==
  \A i \in Id : job[i].status # "none" /\ i.req = NoRequest
                  /\ job[i].occ.gen = sched.gen => sched.state = "active"

\* docs/SPEC-Remote-Schedule-API.md:435: sequential failures are fewer than
\* maxSequentialFailures, that is, no preflight lets an occurrence start if that
\* many before it in its chain ended without success, whoever leases it and
\* whatever became of them meanwhile.  A refused occurrence may still run, as a
\* retry of what its preflight left (WriteChapter), against
\* docs/SPEC-WorkflowRuntime-Guarantees.md:186.
FailurePolicyHolds ==
  given.failures > 0 =>
    \A chain \in [0 .. given.failures -> Id] :
      (\A n \in 1 .. given.failures :
         /\ chain[n] = job[chain[n - 1]].occ.prev
         /\ job[chain[n]].status \in Outcome \ {"success"})
      => story[chain[0]].content # "work"
=============================================================================
