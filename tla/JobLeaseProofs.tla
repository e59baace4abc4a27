--------------------------- MODULE JobLeaseProofs ---------------------------
(***************************************************************************)
(* Proofs about JobLease, for any number of jobs, calls, leases and        *)
(* chapters, any script and any assignment of calls to holders.  The       *)
(* properties rest on what a call has established by the time it stands    *)
(* between two transactions (CallSound, Stored) and on how the columns of  *)
(* a row hang together (RowSound, OneOwner).                               *)
(***************************************************************************)
EXTENDS JobLease, TLAPS

-----------------------------------------------------------------------------
(* The inductive invariant                                                 *)

\* What the position of a call says of its operation.
CallSound(r) ==
  /\ r.pc = "idle" => ~r.wrote /\ r.op = "none"
  /\ r.pc # "idle" => r.job \in Job
  /\ r.pc \in {"existing", "capture", "archive"} => r.op = "complete"
  /\ r.pc = "resched" => r.op = "reschedule"
  /\ r.pc = "resume" => r.op = "commit"
  /\ r.pc \in {"next", "save"} => r.op \in {"put", "complete", "commit"}
  /\ r.op \in {"put", "complete", "reschedule"} => r.lease # NoLease
  /\ r.op \in {"put", "complete", "commit"} => r.chapter.kind # "none"
  /\ r.op = "complete" => r.chapter.kind = "final"

\* Calls that have appended their chapter or found it in the story.
PastWrite(r) ==
  \/ r.wrote
  \/ r.pc \in {"capture", "archive", "resume"}
  \/ r.pc = "ok" /\ r.op # "reschedule"

Stored(r, l, s) ==
  PastWrite(r) => r.ord < s[r.job] /\ l[r.job][r.ord] = r.chapter

\* Nothing is stored at or above the next ordinal.
Filled == \A j \in Job, o \in Ordinal : log[j][o] # NoChapter => o < size[j]

\* An archived row is unleased and says how it ended; a missing row is neither
\* leased nor archived.
RowSound(r) ==
  /\ r.archived => r.lease = NoLease /\ r.status # "none"
  /\ ~r.inserted => r.lease = NoLease /\ ~r.archived

CallInv ==
  /\ \A c \in Call : CallSound(call[c])
  /\ \A c \in Call : Stored(call[c], log, size)
  /\ Filled

RowInv ==
  /\ \A j \in Job : RowSound(row[j])
  /\ LeasedIsReady

IInv == TypeOK /\ CallInv /\ OneWriter /\ OneOwner /\ RowInv
          /\ CompletedHasFinal

-----------------------------------------------------------------------------
(* Initial states                                                          *)

LEMMA InitIInv == Init => IInv
<1> SUFFICES ASSUME Init PROVE IInv
  OBVIOUS
<1> USE LeaseAssumption DEF LeaseAssumption
<1>1. NoCall \in CallState /\ NoCall.pc = "idle" /\ NoCall.op = "none"
        /\ ~NoCall.wrote
  BY DEF NoCall, Begun, CallState, PC, Chapter, NoChapter, Ordinal
<1>2. \A j \in Job : /\ row[j] \in JobRow
                     /\ row[j].lease = NoLease
                     /\ row[j].status = "none"
                     /\ ~row[j].archived
  <2> DEFINE r == Submitted(FALSE, {})
  <2>1. /\ r \in JobRow /\ r.lease = NoLease /\ r.status = "none"
        /\ ~r.archived
    BY DEF Submitted, JobRow
  <2>2. NoRow = [r EXCEPT !.inserted = FALSE]
    BY DEF NoRow
  <2> HIDE DEF r
  <2>3. /\ NoRow \in JobRow /\ NoRow.lease = NoLease
        /\ NoRow.status = "none" /\ ~NoRow.archived
    BY <2>1, <2>2 DEF JobRow
  <2>4. QED
    BY <2>3 DEF Init
<1>3. NoChapter \in Chapter /\ StartChapter \in Chapter
  BY DEF NoChapter, StartChapter, Chapter
<1>4. TypeOK
  <2>1. row \in [Job -> JobRow]
    BY <1>2 DEF Init
  <2>2. log \in [Job -> [Ordinal -> Chapter]]
    BY <1>3 DEF Init
  <2>3. size \in [Job -> 1 .. MaxOrdinal + 1]
    BY DEF Init
  <2>4. grant \in [LeaseId -> [job : Job \cup {NoJob}, from : 0 .. MaxOrdinal + 1]]
    BY DEF Init
  <2>5. call \in [Call -> CallState]
    BY <1>1 DEF Init
  <2>6. late \in [Job -> SUBSET Job]
    BY DEF Init
  <2>7. QED
    BY <2>1, <2>2, <2>3, <2>4, <2>5, <2>6 DEF Init, TypeOK
<1>5. CallInv
  <2>1. \A c \in Call : CallSound(call[c])
    BY <1>1 DEF Init, CallSound
  <2>2. \A c \in Call : Stored(call[c], log, size)
    BY <1>1 DEF Init, Stored, PastWrite
  <2>3. Filled
    BY DEF Init, Filled, Ordinal
  <2>4. QED
    BY <2>1, <2>2, <2>3 DEF CallInv
<1>6. OneWriter
  BY <1>1 DEF Init, OneWriter
<1>7. OneOwner
  BY <1>2 DEF Init, OneOwner
<1>8. RowInv
  BY <1>2 DEF RowInv, RowSound, LeasedIsReady
<1>9. CompletedHasFinal
  BY <1>2 DEF CompletedHasFinal
<1>10. QED
  BY <1>4, <1>5, <1>6, <1>7, <1>8, <1>9 DEF IInv

-----------------------------------------------------------------------------
(* Type correctness                                                        *)

LEMMA NowType ==
  ASSUME TypeOK, NEW c \in Call, NEW r \in CallState, Now(c, r)
  PROVE  /\ call' \in [Call -> CallState]
         /\ call'[c] = r
         /\ \A d \in Call \ {c} : call'[d] = call[d]
BY DEF TypeOK, Now

LEMMA GotoType ==
  ASSUME TypeOK, NEW c \in Call, NEW pc \in PC
  PROVE  [call[c] EXCEPT !.pc = pc] \in CallState
BY DEF TypeOK, CallState

LEMMA BegunType ==
  ASSUME NEW op \in {"none", "put", "complete", "reschedule", "commit"},
         NEW pc \in PC, NEW j \in Job \cup {NoJob},
         NEW l \in LeaseId \cup {NoLease}, NEW o \in Ordinal, NEW ch \in Chapter
  PROVE  Begun(op, pc, j, l, o, ch) \in CallState
BY DEF Begun, CallState

\* What a call holds, and what it holds once its insert has committed.
LEMMA CallFields ==
  ASSUME TypeOK, NEW c \in Call
  PROVE  /\ call[c] \in CallState
         /\ call[c].ord \in Ordinal
         /\ call[c].chapter \in Chapter
<1>1. call[c] \in CallState
  BY DEF TypeOK
<1>2. QED
  BY <1>1 DEF CallState

LEMMA Written ==
  ASSUME NEW r \in CallState, NEW p \in PC
  PROVE  LET w == [r EXCEPT !.wrote = TRUE, !.pc = p]
         IN  /\ w \in CallState
             /\ w.job = r.job /\ w.ord = r.ord /\ w.chapter = r.chapter
             /\ w.wrote
  BY DEF CallState

LEMMA NoCallType == NoCall \in CallState
<1> USE LeaseAssumption DEF LeaseAssumption
<1>1. "idle" \in PC /\ 0 \in Ordinal /\ NoChapter \in Chapter
  BY DEF PC, Ordinal, NoChapter, Chapter
<1>2. QED
  BY <1>1, BegunType DEF NoCall

-----------------------------------------------------------------------------
(* The kinds of steps                                                      *)

\* Call c comes to a sound position; it claims no write it did not make.
CallStep(c) ==
  \E r \in CallState :
    /\ Now(c, r)
    /\ CallSound(r)
    /\ Stored(r, log, size)
    /\ r.wrote => call[c].wrote /\ r.job = call[c].job /\ r.ord = call[c].ord

CallOnly ==
  /\ \E c \in Call : CallStep(c)
  /\ UNCHANGED <<row, log, size, expired, grant, spent, late>>

\* A new row appears.
InsertStep ==
  \E j \in Job, d \in BOOLEAN, S \in SUBSET Job : InsertJobRecord(j, d, S)

\* A row that may be leased is leased.
Grantable(j) ==
  /\ row[j].inserted
  /\ ~row[j].archived
  /\ ~Leased(j)
  /\ \/ row[j].lease # NoLease /\ late' = late
     \/ /\ Ready(j)
        /\ ~row[j].delayed
        /\ late' = late \/ late' = [late EXCEPT ![j] = {}]

GrantStep == \E j \in Job, l \in LeaseId : Grantable(j) /\ Grant(j, l)

\* A row loses its lease, or time changes it, and is sound afterwards.
RowStep ==
  \E j \in Job, r \in JobRow :
    /\ row' = [row EXCEPT ![j] = r]
    /\ RowSound(r)
    /\ r.inserted = row[j].inserted
    /\ \/ r.lease = NoLease /\ LeaseOver(j)
       \/ /\ r.lease = row[j].lease /\ UNCHANGED <<spent, late>>
          /\ r.waitFor = row[j].waitFor
          /\ r.delayed => row[j].delayed
    /\ row[j].archived =>
         r.archived /\ r.status = row[j].status /\ r.need = row[j].need
    /\ r.status = "ended" =>
         row[j].status = "ended" \/ \E o \in Ordinal : log[j][o].kind = "final"
    /\ call' = call \/ \E c \in Call : CallStep(c)
    /\ UNCHANGED <<log, size, expired, grant>>

\* Call c appends its chapter.
SaveStep ==
  \E c \in Call, p \in {"ok", "capture", "resume"} :
    LET j == call[c].job IN
    /\ j \in Job
    /\ call[c].pc = "save"
    /\ call[c].chapter.kind # "none"
    /\ call[c].ord = size[j]
    /\ log' = [log EXCEPT ![j] = [log[j] EXCEPT ![size[j]] = call[c].chapter]]
    /\ size' = [size EXCEPT ![j] = size[j] + 1]
    /\ Now(c, [call[c] EXCEPT !.wrote = TRUE, !.pc = p])
    /\ CallSound([call[c] EXCEPT !.wrote = TRUE, !.pc = p])
    /\ UNCHANGED <<row, expired, grant, spent, late>>

ExpireStep ==
  /\ \E l \in LeaseId : expired' = expired \cup {l}
  /\ UNCHANGED <<row, log, size, grant, call, spent, late>>

\* A call that only moves on keeps what it has established.
LEMMA GotoStep ==
  ASSUME TypeOK, CallInv, NEW c \in Call, NEW pc \in PC \ {"idle"},
         call[c].pc # "idle", Goto(c, pc),
         CallSound([call[c] EXCEPT !.pc = pc]),
         Stored([call[c] EXCEPT !.pc = pc], log, size)
  PROVE  CallStep(c)
<1> DEFINE r == [call[c] EXCEPT !.pc = pc]
<1>1. call[c] \in CallState
  BY DEF TypeOK
<1>2. r \in CallState
  BY GotoType
<1>3. r.wrote = call[c].wrote /\ r.job = call[c].job /\ r.ord = call[c].ord
  BY <1>1 DEF CallState
<1>4. QED
  BY <1>2, <1>3 DEF CallStep, Goto

\* In particular when the new position claims nothing new of the story.
LEMMA GotoQuiet ==
  ASSUME TypeOK, CallInv, NEW c \in Call,
         call[c].pc # "idle", call[c].pc # "capture",
         NEW pc \in {"next", "save", "lost", "conflict"}, Goto(c, pc),
         pc \in {"next", "save"} => call[c].op \in {"put", "complete", "commit"}
  PROVE  CallStep(c)
<1> DEFINE r == [call[c] EXCEPT !.pc = pc]
<1>1. call[c] \in CallState /\ CallSound(call[c]) /\ Stored(call[c], log, size)
  BY DEF TypeOK, CallInv
<1>2. /\ r.pc = pc /\ r.op = call[c].op /\ r.job = call[c].job
      /\ r.lease = call[c].lease /\ r.ord = call[c].ord
      /\ r.chapter = call[c].chapter /\ r.wrote = call[c].wrote
  BY <1>1 DEF CallState
<1>3. CallSound(r)
  BY <1>1, <1>2 DEF CallSound
<1>4. Stored(r, log, size)
  BY <1>1, <1>2 DEF Stored, PastWrite
<1>5. QED
  BY <1>3, <1>4, GotoStep DEF PC

\* A call that begins has written nothing.
LEMMA BeginStep ==
  ASSUME TypeOK, NEW c \in Call, NEW r \in CallState, Now(c, r),
         CallSound(r), ~r.wrote,
         r.pc \in {"idle", "existing", "next", "resched"}
  PROVE  CallStep(c)
BY DEF CallStep, Stored, PastWrite

-----------------------------------------------------------------------------
(* Every step is of one of these kinds                                     *)

LEMMA GrantKind ==
  ASSUME NEW j \in Job, NEW l \in LeaseId, PollWork(j, l) \/ GetJobLease(j, l)
  PROVE  GrantStep
BY DEF PollWork, GetJobLease, GrantStep, Grantable, Leased

LEMMA PutKind ==
  ASSUME TypeOK, NEW c \in Call, NEW l \in LeaseId, NEW o \in Ordinal,
         NEW b \in Body, PutChapter(c, l, o, b)
  PROVE  CallOnly
<1> USE LeaseAssumption DEF LeaseAssumption
<1> DEFINE r == Begun("put", "next", grant[l].job, l, o,
                      [kind |-> "work", body |-> b])
<1>1. grant[l].job \in Job
  BY DEF TypeOK, PutChapter, HolderMayCall
<1>2. [kind |-> "work", body |-> b] \in Chapter /\ "next" \in PC
  BY DEF Chapter, PC
<1>3. r \in CallState
  BY <1>1, <1>2, BegunType
<1>4. CallSound(r) /\ ~r.wrote /\ r.pc = "next"
  BY <1>1 DEF CallSound, Begun
<1>5. QED
  BY <1>3, <1>4, BeginStep DEF PutChapter, CallOnly

LEMMA CompleteKind ==
  ASSUME TypeOK, NEW c \in Call, NEW l \in LeaseId, NEW o \in Ordinal,
         NEW ch \in Chapter, BeginComplete(c, l, o, ch)
  PROVE  CallOnly
<1> USE LeaseAssumption DEF LeaseAssumption
<1> DEFINE r == Begun("complete", "existing", grant[l].job, l, o, ch)
<1>1. grant[l].job \in Job /\ ch.kind = "final"
  BY DEF TypeOK, BeginComplete, HolderMayCall
<1>2. r \in CallState
  BY <1>1, BegunType DEF PC
<1>3. CallSound(r) /\ ~r.wrote /\ r.pc = "existing"
  BY <1>1 DEF CallSound, Begun
<1>4. QED
  BY <1>2, <1>3, BeginStep DEF BeginComplete, CallOnly

LEMMA RescheduleKind ==
  ASSUME TypeOK, NEW c \in Call, NEW l \in LeaseId, NEW o \in Ordinal,
         BeginReschedule(c, l, o)
  PROVE  CallOnly
<1> USE LeaseAssumption DEF LeaseAssumption
<1> DEFINE q == Begun("reschedule", "resched", grant[l].job, l, o, NoChapter)
           r == [q EXCEPT !.ontime = l \notin expired]
<1>1. grant[l].job \in Job
  BY DEF TypeOK, BeginReschedule, HolderMayCall
<1>2. NoChapter \in Chapter /\ "resched" \in PC
  BY DEF NoChapter, Chapter, PC
<1>3. q \in CallState
  BY <1>1, <1>2, BegunType
<1>4. r \in CallState
  BY <1>3 DEF CallState
<1>5. CallSound(r) /\ ~r.wrote /\ r.pc = "resched"
  BY <1>1 DEF CallSound, Begun
<1>6. QED
  BY <1>4, <1>5, BeginStep DEF BeginReschedule, CallOnly

LEMMA CommitKind ==
  ASSUME TypeOK, NEW c \in Call, NEW j \in Job, NEW b \in Body,
         BeginCommit(c, j, b)
  PROVE  CallOnly
<1> DEFINE ch == [kind |-> "task", body |-> b]
           r == Begun("commit", "next", j, NoLease, row[j].slot, ch)
<1>1. row[j].slot \in Ordinal
  BY DEF TypeOK, JobRow, BeginCommit
<1>2. ch \in Chapter /\ "next" \in PC
  BY DEF Chapter, PC
<1>3. r \in CallState
  BY <1>1, <1>2, BegunType
<1>4. CallSound(r) /\ ~r.wrote /\ r.pc = "next"
  BY DEF CallSound, Begun
<1>5. QED
  BY <1>3, <1>4, BeginStep DEF BeginCommit, CallOnly

LEMMA NextOrdinalKind ==
  ASSUME TypeOK, CallInv, NEW c \in Call, CheckNextOrdinal(c)
  PROVE  CallOnly
<1>1. call[c].op \in {"put", "complete", "commit"}
  BY DEF CallInv, CallSound, CheckNextOrdinal
<1>2. PICK pc \in {"save", "conflict"} : Goto(c, pc)
  BY DEF CheckNextOrdinal
<1>3. CallStep(c)
  BY <1>1, <1>2, GotoQuiet DEF CheckNextOrdinal
<1>4. QED
  BY <1>3 DEF CallOnly, CheckNextOrdinal

LEMMA ReadExistingKind ==
  ASSUME TypeOK, CallInv, NEW c \in Call, ReadExisting(c)
  PROVE  CallOnly
<1> DEFINE j == call[c].job
           r == [call[c] EXCEPT !.pc = "capture"]
<1>1. /\ call[c] \in CallState /\ CallSound(call[c])
      /\ call[c].op = "complete" /\ j \in Job /\ call[c].ord \in Ordinal
      /\ call[c].chapter.kind = "final"
  BY DEF TypeOK, CallState, CallInv, CallSound, ReadExisting
<1>2. CASE Goto(c, "next") \/ Goto(c, "conflict")
  <2>1. CallStep(c)
    BY <1>1, <1>2, GotoQuiet DEF ReadExisting
  <2>2. QED
    BY <2>1 DEF CallOnly, ReadExisting
<1>3. CASE Goto(c, "capture") /\ log[j][call[c].ord] = call[c].chapter
  <2>1. /\ r.pc = "capture" /\ r.op = call[c].op /\ r.job = j
        /\ r.lease = call[c].lease /\ r.ord = call[c].ord
        /\ r.chapter = call[c].chapter /\ r.wrote = call[c].wrote
    BY <1>1 DEF CallState
  <2>2. log[j][call[c].ord] # NoChapter
    BY <1>1, <1>3 DEF NoChapter
  <2>3. call[c].ord < size[j]
    BY <1>1, <2>2 DEF CallInv, Filled
  <2>4. Stored(r, log, size)
    BY <1>3, <2>1, <2>3 DEF Stored
  <2>5. CallSound(r)
    BY <1>1, <2>1 DEF CallSound
  <2>6. CallStep(c)
    BY <1>3, <2>4, <2>5, GotoStep DEF ReadExisting, PC
  <2>7. QED
    BY <2>6 DEF CallOnly, ReadExisting
<1>4. QED
  BY <1>2, <1>3 DEF ReadExisting

LEMMA CaptureKind ==
  ASSUME TypeOK, CallInv, NEW c \in Call, CaptureTime(c)
  PROVE  CallOnly
<1> DEFINE r == [call[c] EXCEPT !.pc = "archive",
                                !.ontime = call[c].lease \notin expired]
<1>1. call[c] \in CallState /\ CallSound(call[c]) /\ Stored(call[c], log, size)
  BY DEF TypeOK, CallInv
<1>2. r \in CallState
  BY <1>1 DEF CallState, PC
<1>3. /\ r.pc = "archive" /\ r.op = call[c].op /\ r.job = call[c].job
      /\ r.lease = call[c].lease /\ r.ord = call[c].ord
      /\ r.chapter = call[c].chapter /\ r.wrote = call[c].wrote
  BY <1>1 DEF CallState
<1>4. CallSound(r) /\ Stored(r, log, size)
  BY <1>1, <1>3 DEF CallSound, Stored, PastWrite, CaptureTime
<1>5. QED
  BY <1>2, <1>3, <1>4 DEF CaptureTime, CallStep, CallOnly

LEMMA LeaveKind ==
  ASSUME TypeOK, CallInv, NEW c \in Call, Return(c) \/ Crash(c)
  PROVE  CallOnly
<1>1. CallSound(NoCall) /\ ~NoCall.wrote /\ NoCall.pc = "idle"
  BY DEF NoCall, Begun, CallSound
<1>2. CallStep(c)
  BY <1>1, NoCallType, BeginStep DEF Return, Crash
<1>3. QED
  BY <1>2 DEF Return, Crash, CallOnly

\* A call that gives up because its lease is not in the row any more, or the
\* job does not wait for its task.
LEMMA GiveUpKind ==
  ASSUME TypeOK, CallInv, NEW c \in Call,
         call[c].pc \in {"archive", "resched", "resume"},
         Goto(c, "lost") \/ Goto(c, "conflict"),
         UNCHANGED <<row, log, size, expired, grant, spent, late>>
  PROVE  CallOnly
BY GotoQuiet DEF CallOnly

\* A call whose row update went through.
LEMMA DoneStep ==
  ASSUME TypeOK, CallInv, NEW c \in Call,
         call[c].pc \in {"archive", "resched", "resume"}, Goto(c, "ok")
  PROVE  CallStep(c)
<1> DEFINE r == [call[c] EXCEPT !.pc = "ok"]
<1>1. call[c] \in CallState /\ CallSound(call[c]) /\ Stored(call[c], log, size)
  BY DEF TypeOK, CallInv
<1>2. /\ r.pc = "ok" /\ r.op = call[c].op /\ r.job = call[c].job
      /\ r.lease = call[c].lease /\ r.ord = call[c].ord
      /\ r.chapter = call[c].chapter /\ r.wrote = call[c].wrote
  BY <1>1 DEF CallState
<1>3. CallSound(r)
  BY <1>1, <1>2 DEF CallSound
<1>4. Stored(r, log, size)
  BY <1>1, <1>2 DEF Stored, PastWrite, CallSound
<1>5. QED
  BY <1>3, <1>4, GotoStep DEF PC

LEMMA ArchiveKind ==
  ASSUME TypeOK, CallInv, RowInv, NEW c \in Call, NEW s \in {"ended", "cancelled"},
         ArchiveJob(c, s)
  PROVE  CallOnly \/ RowStep
<1> DEFINE j == call[c].job
           r == Archived(row[j], s)
<1>1. /\ j \in Job /\ call[c].ord \in Ordinal /\ call[c].chapter.kind = "final"
      /\ log[j][call[c].ord] = call[c].chapter
  BY DEF TypeOK, CallState, CallInv, CallSound, Stored, PastWrite, ArchiveJob
<1>2. row[j] \in JobRow
  BY <1>1 DEF TypeOK
<1>3. CASE HeldOnTime(c)
  <2>1. /\ r.lease = NoLease /\ r.archived /\ r.status = s /\ r.need = row[j].need
        /\ r.inserted = row[j].inserted /\ r \in JobRow
    BY <1>2 DEF JobRow, Archived
  <2>2. RowSound(r)
    <3>1. call[c].lease # NoLease
      BY DEF CallInv, CallSound, ArchiveJob
    <3>2. row[j].inserted
      BY <1>1, <1>3, <3>1 DEF HeldOnTime, RowInv, RowSound
    <3>3. QED
      BY <2>1, <3>2 DEF RowSound
  <2>3. ~row[j].archived
    BY <1>3 DEF HeldOnTime
  <2>4. CallStep(c)
    BY <1>3, DoneStep DEF ArchiveJob
  <2>5. row' = [row EXCEPT ![j] = r] /\ LeaseOver(j)
    BY <1>3 DEF ArchiveJob
  <2>6. UNCHANGED <<log, size, expired, grant>>
    BY DEF ArchiveJob
  <2>7. \E o \in Ordinal : log[j][o].kind = "final"
    BY <1>1
  <2>8. RowStep
    BY <1>1, <2>1, <2>2, <2>3, <2>4, <2>5, <2>6, <2>7 DEF RowStep
  <2>9. QED
    BY <2>8
<1>4. CASE ~HeldOnTime(c)
  BY <1>4, GiveUpKind DEF ArchiveJob
<1>5. QED
  BY <1>3, <1>4

LEMMA RescheduleJobKind ==
  ASSUME TypeOK, CallInv, NEW c \in Call, RescheduleJob(c)
  PROVE  CallOnly \/ RowStep
<1> USE LeaseAssumption DEF LeaseAssumption
<1> DEFINE j == call[c].job
<1>1. j \in Job /\ call[c].ord \in Ordinal
  BY DEF TypeOK, CallState, CallInv, CallSound, RescheduleJob
<1>2. row[j] \in JobRow
  BY <1>1 DEF TypeOK
<1>3. CASE HeldOnTime(c)
  <2>1. PICK r \in Rescheduled(row[j], call[c].ord) : row' = [row EXCEPT ![j] = r]
    BY <1>3 DEF RescheduleJob
  <2>2. /\ r.lease = NoLease /\ r.archived = row[j].archived
        /\ r.status = row[j].status /\ r \in JobRow
        /\ r.inserted = row[j].inserted
    <3>1. ASSUME NEW a \in {"none", "pending"}, r = TaskWait(row[j], call[c].ord, a)
          PROVE  /\ r.lease = NoLease /\ r.archived = row[j].archived
                 /\ r.status = row[j].status /\ r \in JobRow
                 /\ r.inserted = row[j].inserted
      BY <1>1, <1>2, <3>1 DEF JobRow, TaskWait
    <3>2. ASSUME NEW d \in BOOLEAN, NEW S \in SUBSET Job, r = JobWait(row[j], d, S)
          PROVE  /\ r.lease = NoLease /\ r.archived = row[j].archived
                 /\ r.status = row[j].status /\ r \in JobRow
                 /\ r.inserted = row[j].inserted
      BY <1>1, <1>2, <3>2 DEF JobRow, JobWait
    <3>3. \/ \E a \in {"none", "pending"} : r = TaskWait(row[j], call[c].ord, a)
          \/ \E d \in BOOLEAN, S \in SUBSET Job : r = JobWait(row[j], d, S)
      BY <2>1 DEF Rescheduled
    <3>4. QED
      BY <3>1, <3>2, <3>3
  <2>3. ~row[j].archived
    BY <1>3 DEF HeldOnTime
  <2>4. RowSound(r)
    BY <2>2, <2>3 DEF RowSound
  <2>5. CallStep(c)
    BY <1>3, DoneStep DEF RescheduleJob
  <2>6. LeaseOver(j) /\ UNCHANGED <<log, size, expired, grant>>
    BY <1>3 DEF RescheduleJob
  <2>7. RowStep
    BY <1>1, <2>1, <2>2, <2>3, <2>4, <2>5, <2>6 DEF RowStep
  <2>8. QED
    BY <2>7
<1>4. CASE ~HeldOnTime(c)
  BY <1>4, GiveUpKind DEF RescheduleJob
<1>5. QED
  BY <1>3, <1>4

LEMMA ResumeKind ==
  ASSUME TypeOK, CallInv, NEW c \in Call, ResumeJob(c)
  PROVE  CallOnly \/ RowStep
<1> DEFINE j == call[c].job
           r == Resumed(row[j])
<1>1. j \in Job
  BY DEF CallInv, CallSound, ResumeJob
<1>2. row[j] \in JobRow
  BY <1>1 DEF TypeOK
<1>3. CASE Resumable(j, call[c].ord)
  <2>1. /\ r.lease = NoLease /\ r.archived = row[j].archived
        /\ r.status = row[j].status /\ r \in JobRow
        /\ r.inserted = row[j].inserted
    BY <1>2 DEF JobRow, Resumed
  <2>2. ~row[j].archived
    BY <1>3 DEF Resumable
  <2>3. RowSound(r)
    BY <2>1, <2>2 DEF RowSound
  <2>4. CallStep(c)
    BY <1>3, DoneStep DEF ResumeJob
  <2>5. /\ row' = [row EXCEPT ![j] = r] /\ LeaseOver(j)
        /\ UNCHANGED <<log, size, expired, grant>>
    BY <1>3 DEF ResumeJob
  <2>6. RowStep
    BY <1>1, <2>1, <2>2, <2>3, <2>4, <2>5 DEF RowStep
  <2>7. QED
    BY <2>6
<1>4. CASE ~Resumable(j, call[c].ord)
  BY <1>4, GiveUpKind DEF ResumeJob
<1>5. QED
  BY <1>3, <1>4

LEMMA CancelKind ==
  ASSUME TypeOK, RowInv, NEW j \in Job, CancelJob(j)
  PROVE  RowStep
<1> DEFINE r == Cancelled(row[j])
<1>1. row[j] \in JobRow /\ RowSound(row[j])
  BY DEF TypeOK, RowInv
<1>2. /\ r.archived /\ r.lease = NoLease /\ r.need = row[j].need
      /\ r.status = IF row[j].status = "none" THEN "cancelled" ELSE row[j].status
      /\ r.inserted = row[j].inserted /\ r \in JobRow
  BY <1>1 DEF JobRow, Cancelled
<1>3. RowSound(r)
  BY <1>2 DEF RowSound, CancelJob
<1>4. row[j].archived => r.status = row[j].status
  BY <1>1, <1>2 DEF RowSound
<1>5. r.status = "ended" => row[j].status = "ended"
  BY <1>2
<1>6. QED
  BY <1>2, <1>3, <1>4, <1>5 DEF RowStep, CancelJob

LEMMA TimeKind ==
  ASSUME TypeOK, RowInv, NEW j \in Job, AlternateFires(j) \/ DelayEnds(j)
  PROVE  RowStep
<1>1. row[j] \in JobRow /\ RowSound(row[j])
  BY DEF TypeOK, RowInv
<1>2. PICK r \in {[row[j] EXCEPT !.alt = "due"], [row[j] EXCEPT !.delayed = FALSE]} :
        row' = [row EXCEPT ![j] = r]
  BY DEF AlternateFires, DelayEnds
<1>3. /\ r \in JobRow /\ r.archived = row[j].archived /\ r.status = row[j].status
      /\ r.lease = row[j].lease /\ r.need = row[j].need
      /\ r.inserted = row[j].inserted /\ r.waitFor = row[j].waitFor
      /\ r.delayed => row[j].delayed
  BY <1>1 DEF JobRow
<1>4. RowSound(r)
  BY <1>1, <1>3 DEF RowSound
<1>5. UNCHANGED <<spent, late>> /\ call' = call /\ UNCHANGED <<log, size, expired, grant>>
  BY DEF AlternateFires, DelayEnds
<1>6. QED
  BY <1>2, <1>3, <1>4, <1>5 DEF RowStep

LEMMA SaveKind ==
  ASSUME TypeOK, CallInv, NEW c \in Call, SaveChapter(c)
  PROVE  CallOnly \/ SaveStep
<1> DEFINE j == call[c].job
<1>1. /\ call[c] \in CallState /\ CallSound(call[c]) /\ j \in Job
      /\ call[c].op \in {"put", "complete", "commit"}
      /\ call[c].chapter.kind # "none"
      /\ call[c].pc = "save"
  BY DEF SaveChapter, TypeOK, CallInv, CallSound
<1>2. CASE call[c].ord = size[j]
  <2>1. PICK p \in {"ok", "capture", "resume"} :
          /\ Now(c, [call[c] EXCEPT !.wrote = TRUE, !.pc = p])
          /\ p = "capture" => call[c].op = "complete"
          /\ p = "resume" => call[c].op = "commit"
    BY <1>1, <1>2 DEF SaveChapter
  <2> DEFINE r == [call[c] EXCEPT !.wrote = TRUE, !.pc = p]
  <2>2. /\ r.pc = p /\ r.op = call[c].op /\ r.job = j
        /\ r.lease = call[c].lease /\ r.chapter = call[c].chapter
    BY <1>1 DEF CallState
  <2>3. CallSound(r)
    BY <1>1, <2>1, <2>2 DEF CallSound
  <2>4. log' = [log EXCEPT ![j] = [log[j] EXCEPT ![size[j]] = call[c].chapter]]
    BY <1>1, <1>2 DEF SaveChapter, TypeOK
  <2>5. /\ size' = [size EXCEPT ![j] = size[j] + 1]
        /\ UNCHANGED <<row, expired, grant, spent, late>>
    BY <1>2 DEF SaveChapter
  <2>6. SaveStep
    BY <1>1, <1>2, <2>1, <2>3, <2>4, <2>5 DEF SaveStep
  <2>7. QED
    BY <2>6
<1>3. CASE call[c].ord # size[j]
  <2>1. CallStep(c)
    BY <1>1, <1>3, GotoQuiet DEF SaveChapter
  <2>2. QED
    BY <1>3, <2>1 DEF SaveChapter, CallOnly
<1>4. QED
  BY <1>2, <1>3

LEMMA StepKinds ==
  ASSUME TypeOK, CallInv, RowInv, [Next]_vars
  PROVE  \/ InsertStep
         \/ GrantStep
         \/ CallOnly
         \/ RowStep
         \/ SaveStep
         \/ ExpireStep
         \/ UNCHANGED vars
<1>1. CASE \E j \in Job, l \in LeaseId : PollWork(j, l) \/ GetJobLease(j, l)
  BY <1>1, GrantKind
<1>2. CASE \E j \in Job : CancelJob(j) \/ AlternateFires(j) \/ DelayEnds(j)
  BY <1>2, CancelKind, TimeKind
<1>3. CASE \E l \in LeaseId : LeaseExpires(l)
  BY <1>3 DEF LeaseExpires, ExpireStep
<1>4. ASSUME NEW c \in Call, NEW l \in LeaseId, NEW o \in Ordinal,
             NEW b \in Body,
             \/ PutChapter(c, l, o, b)
             \/ BeginComplete(c, l, o, [kind |-> "final", body |-> b])
      PROVE  CallOnly
  <2>1. [kind |-> "final", body |-> b] \in Chapter
    BY DEF Chapter
  <2>2. QED
    BY <1>4, <2>1, PutKind, CompleteKind
<1>5. ASSUME NEW c \in Call, NEW l \in LeaseId, NEW o \in Ordinal,
             BeginReschedule(c, l, o)
      PROVE  CallOnly
  BY <1>5, RescheduleKind
<1>6. ASSUME NEW c \in Call, NEW j \in Job, NEW b \in Body, BeginCommit(c, j, b)
      PROVE  CallOnly
  BY <1>6, CommitKind
<1>7. ASSUME NEW c \in Call,
             \/ CheckNextOrdinal(c) \/ ReadExisting(c) \/ CaptureTime(c)
             \/ Return(c) \/ Crash(c)
      PROVE  CallOnly
  BY <1>7, NextOrdinalKind, ReadExistingKind, CaptureKind, LeaveKind
<1>8. ASSUME NEW c \in Call, SaveChapter(c)
      PROVE  CallOnly \/ SaveStep
  BY <1>8, SaveKind
<1>9. ASSUME NEW c \in Call,
             \/ \E s \in {"ended", "cancelled"} : ArchiveJob(c, s)
             \/ RescheduleJob(c) \/ ResumeJob(c)
      PROVE  CallOnly \/ RowStep
  BY <1>9, ArchiveKind, RescheduleJobKind, ResumeKind
<1>10. QED
  BY <1>1, <1>2, <1>3, <1>4, <1>5, <1>6, <1>7, <1>8, <1>9 DEF Next, InsertStep

-----------------------------------------------------------------------------
(* Type correctness                                                        *)

LEMMA InsertType ==
  ASSUME TypeOK, InsertStep
  PROVE  TypeOK'
<1> USE LeaseAssumption DEF LeaseAssumption
<1>1. PICK j \in Job, d \in BOOLEAN, S \in SUBSET Job : InsertJobRecord(j, d, S)
  BY DEF InsertStep
<1>2. Submitted(d, S) \in JobRow
  BY DEF Submitted, JobRow
<1>3. row' \in [Job -> JobRow]
  BY <1>1, <1>2 DEF InsertJobRecord, TypeOK
<1>4. late' \in [Job -> SUBSET Job]
  BY <1>1 DEF InsertJobRecord, TypeOK
<1>5. QED
  BY <1>1, <1>3, <1>4 DEF InsertJobRecord, TypeOK

LEMMA GrantType ==
  ASSUME TypeOK, NEW j \in Job, NEW l \in LeaseId, Grantable(j), Grant(j, l)
  PROVE  TypeOK'
<1> USE LeaseAssumption DEF LeaseAssumption
<1>1. Granted(row[j], l) \in JobRow
  <2>1. row[j] \in JobRow
    BY DEF TypeOK
  <2>2. CASE row[j].alt = "due"
    <3>1. Granted(row[j], l)
            = [row[j] EXCEPT !.lease = l, !.need = "run", !.alt = "none"]
      BY <2>1, <2>2 DEF Granted, JobRow
    <3>2. QED
      BY <2>1, <3>1 DEF JobRow
  <2>3. CASE row[j].alt # "due"
    <3>1. Granted(row[j], l) = [row[j] EXCEPT !.lease = l]
      BY <2>1, <2>3 DEF Granted, JobRow
    <3>2. QED
      BY <2>1, <3>1 DEF JobRow
  <2>4. QED
    BY <2>2, <2>3
<1>2. row' \in [Job -> JobRow]
  BY <1>1 DEF Grant, TypeOK
<1>3. [job |-> j, from |-> size[j]]
        \in [job : Job \cup {NoJob}, from : 0 .. MaxOrdinal + 1]
  BY DEF TypeOK
<1>4. grant' \in [LeaseId -> [job : Job \cup {NoJob}, from : 0 .. MaxOrdinal + 1]]
  BY <1>3 DEF Grant, TypeOK
<1>5. expired' \subseteq LeaseId /\ spent' \subseteq LeaseId
  BY DEF Grant, TypeOK
<1>6. late' \in [Job -> SUBSET Job]
  BY DEF Grantable, TypeOK
<1>7. QED
  BY <1>2, <1>4, <1>5, <1>6 DEF Grant, TypeOK

LEMMA CallType ==
  ASSUME TypeOK, NEW c \in Call, CallStep(c)
  PROVE  call' \in [Call -> CallState]
BY NowType DEF CallStep

LEMMA RowType ==
  ASSUME TypeOK, RowStep
  PROVE  TypeOK'
<1>1. PICK j \in Job, r \in JobRow :
        /\ row' = [row EXCEPT ![j] = r]
        /\ LeaseOver(j) \/ UNCHANGED <<spent, late>>
  BY DEF RowStep
<1>2. row[j].lease \in LeaseId \cup {NoLease}
  BY DEF TypeOK, JobRow
<1>3. spent' \subseteq LeaseId /\ late' \in [Job -> SUBSET Job]
  BY <1>1, <1>2 DEF TypeOK, LeaseOver
<1>4. row' \in [Job -> JobRow]
  BY <1>1 DEF TypeOK
<1>5. call' \in [Call -> CallState]
  BY CallType DEF RowStep, TypeOK
<1>6. QED
  BY <1>3, <1>4, <1>5 DEF TypeOK, RowStep

LEMMA SaveType ==
  ASSUME TypeOK, SaveStep
  PROVE  TypeOK'
<1> USE LeaseAssumption DEF LeaseAssumption
<1>1. PICK c \in Call, p \in {"ok", "capture", "resume"} :
        /\ call[c].job \in Job
        /\ call[c].ord = size[call[c].job]
        /\ log' = [log EXCEPT ![call[c].job] =
                    [log[call[c].job] EXCEPT ![size[call[c].job]] = call[c].chapter]]
        /\ size' = [size EXCEPT ![call[c].job] = size[call[c].job] + 1]
        /\ Now(c, [call[c] EXCEPT !.wrote = TRUE, !.pc = p])
  BY DEF SaveStep
<1> DEFINE j == call[c].job
<1>2. call[c].ord \in Ordinal /\ call[c].chapter \in Chapter
  BY CallFields
<1>3. [call[c] EXCEPT !.wrote = TRUE, !.pc = p] \in CallState
  <2>1. call[c] \in CallState
    BY CallFields
  <2>2. p \in PC
    BY DEF PC
  <2>3. QED
    BY ONLY <2>1, <2>2, Written
<1>4. call' \in [Call -> CallState]
  BY <1>1, <1>3, NowType
<1>5. log[j] \in [Ordinal -> Chapter]
  BY <1>1 DEF TypeOK
<1>6. [log[j] EXCEPT ![size[j]] = call[c].chapter] \in [Ordinal -> Chapter]
  BY <1>1, <1>2, <1>5
<1>7. log' \in [Job -> [Ordinal -> Chapter]]
  BY <1>1, <1>6 DEF TypeOK
<1>8. size[j] + 1 \in 1 .. MaxOrdinal + 1
  BY <1>1, <1>2 DEF TypeOK, Ordinal
<1>9. size' \in [Job -> 1 .. MaxOrdinal + 1]
  BY <1>1, <1>8 DEF TypeOK
<1>10. QED
  BY <1>4, <1>7, <1>9 DEF TypeOK, SaveStep

LEMMA StepType ==
  ASSUME TypeOK, CallInv, RowInv, [Next]_vars
  PROVE  TypeOK'
<1>1. CASE GrantStep
  BY <1>1, GrantType DEF GrantStep
<1>2. CASE CallOnly
  BY <1>2, CallType DEF CallOnly, TypeOK
<1>3. CASE RowStep
  BY <1>3, RowType
<1>4. CASE SaveStep
  BY <1>4, SaveType
<1>5. CASE ExpireStep
  BY <1>5 DEF ExpireStep, TypeOK
<1>6. CASE UNCHANGED vars
  BY <1>6 DEF vars, TypeOK
<1>7. CASE InsertStep
  BY <1>7, InsertType
<1>8. QED
  BY <1>1, <1>2, <1>3, <1>4, <1>5, <1>6, <1>7, StepKinds

-----------------------------------------------------------------------------
(* Calls and chapters                                                      *)

\* A step of one call leaves the claims of all calls true.
LEMMA CallStepInv ==
  ASSUME TypeOK, CallInv, NEW c \in Call, CallStep(c), UNCHANGED <<log, size>>
  PROVE  CallInv'
<1>1. PICK r \in CallState :
        Now(c, r) /\ CallSound(r) /\ Stored(r, log, size)
  BY DEF CallStep
<1>2. call'[c] = r /\ \A d \in Call \ {c} : call'[d] = call[d]
  BY <1>1, NowType
<1>3. ASSUME NEW d \in Call
      PROVE  CallSound(call'[d]) /\ Stored(call'[d], log, size)
  BY <1>1, <1>2 DEF CallInv
<1>4. QED
  BY <1>3 DEF CallInv, Filled

LEMMA SaveInv ==
  ASSUME TypeOK, CallInv, OneWriter, SaveStep
  PROVE  CallInv' /\ OneWriter'
<1> USE LeaseAssumption DEF LeaseAssumption
<1>1. PICK c \in Call, p \in {"ok", "capture", "resume"} :
        /\ call[c].job \in Job
        /\ call[c].chapter.kind # "none"
        /\ call[c].ord = size[call[c].job]
        /\ log' = [log EXCEPT ![call[c].job] =
                    [log[call[c].job] EXCEPT ![size[call[c].job]] = call[c].chapter]]
        /\ size' = [size EXCEPT ![call[c].job] = size[call[c].job] + 1]
        /\ Now(c, [call[c] EXCEPT !.wrote = TRUE, !.pc = p])
        /\ CallSound([call[c] EXCEPT !.wrote = TRUE, !.pc = p])
  BY DEF SaveStep
<1> DEFINE j == call[c].job
           r == [call[c] EXCEPT !.wrote = TRUE, !.pc = p]
<1>2. call[c] \in CallState /\ call[c].ord \in Ordinal
  BY CallFields
<1>3. /\ r \in CallState
      /\ r.job = j /\ r.ord = call[c].ord /\ r.chapter = call[c].chapter
      /\ r.wrote
  <2>1. p \in PC
    BY DEF PC
  <2>2. QED
    BY ONLY <1>2, <2>1, Written
<1>4. call'[c] = r /\ \A d \in Call \ {c} : call'[d] = call[d]
  BY <1>1, <1>3, NowType
<1>5. /\ size \in [Job -> Int] /\ size'[j] = size[j] + 1
      /\ \A i \in Job \ {j} : size'[i] = size[i] /\ log'[i] = log[i]
      /\ log'[j][size[j]] = call[c].chapter
      /\ \A o \in Ordinal \ {size[j]} : log'[j][o] = log[j][o]
  BY <1>1, <1>2 DEF TypeOK
<1>6. \A d \in Call : PastWrite(call[d]) =>
        /\ call[d].job \in Job /\ call[d].ord \in Ordinal
        /\ call[d].ord < size[call[d].job]
  BY DEF CallInv, CallSound, Stored, PastWrite, TypeOK, CallState
<1>7. ASSUME NEW d \in Call
      PROVE  CallSound(call'[d]) /\ Stored(call'[d], log', size')
  <2>1. CASE d = c
    <3>1. size[j] \in Int /\ r.ord = size[j]
      BY <1>1, <1>3, <1>5
    <3>2. CallSound(r)
      BY <1>1
    <3> HIDE DEF r
    <3>3. Stored(r, log', size')
      BY <1>3, <1>5, <3>1 DEF Stored
    <3>4. QED
      BY <1>4, <2>1, <3>2, <3>3
  <2>2. CASE d # c
    <3>1. CallSound(call[d]) /\ Stored(call[d], log, size) /\ call'[d] = call[d]
      BY <1>4, <2>2 DEF CallInv
    <3>2. Stored(call[d], log', size')
      <4>1. SUFFICES ASSUME PastWrite(call[d])
                     PROVE  /\ call[d].ord < size'[call[d].job]
                            /\ log'[call[d].job][call[d].ord] = call[d].chapter
        BY DEF Stored
      <4>2. /\ call[d].job \in Job /\ call[d].ord \in Ordinal
            /\ call[d].ord < size[call[d].job]
            /\ log[call[d].job][call[d].ord] = call[d].chapter
        BY <1>6, <3>1, <4>1 DEF Stored
      <4>3. CASE call[d].job # j
        BY ONLY <1>5, <4>2, <4>3
      <4>4. CASE call[d].job = j
        <5> DEFINE o == call[d].ord
                   n == size[j]
        <5>1. o \in Int /\ n \in Int /\ o < n
          BY <1>1, <1>5, <4>2, <4>4 DEF Ordinal
        <5> HIDE DEF o, n
        <5>2. o # n /\ o < n + 1
          BY ONLY <5>1
        <5> USE DEF o, n
        <5>3. QED
          BY <1>5, <4>2, <4>4, <5>2
      <4>5. QED
        BY <4>3, <4>4
    <3>3. QED
      BY <3>1, <3>2
  <2>3. QED
    BY <2>1, <2>2
<1>8. Filled'
  <2>1. ASSUME NEW i \in Job, NEW o \in Ordinal, log'[i][o] # NoChapter
        PROVE  o < size'[i]
    <3>1. CASE i = j /\ o = size[j]
      BY <1>5, <3>1 DEF Ordinal
    <3>2. CASE ~(i = j /\ o = size[j])
      <4>1. log[i][o] # NoChapter
        BY <1>5, <2>1, <3>2
      <4>2. o < size[i]
        BY <4>1 DEF CallInv, Filled
      <4>3. QED
        BY <1>5, <4>2 DEF Ordinal
    <3>3. QED
      BY <3>1, <3>2
  <2>2. QED
    BY <2>1 DEF Filled
<1>9. OneWriter'
  <2>1. ASSUME NEW d \in Call, NEW e \in Call, d # e,
               call'[d].wrote, call'[e].wrote, call'[d].job = call'[e].job
        PROVE  call'[d].ord # call'[e].ord
    <3>1. CASE d # c /\ e # c
      BY <1>4, <2>1, <3>1 DEF OneWriter
    <3>2. CASE d = c
      <4>1. PastWrite(call[e]) /\ call[e].job = j
        BY <1>3, <1>4, <2>1, <3>2 DEF PastWrite
      <4>2. call[e].ord < size[j]
        BY <1>6, <4>1
      <4>3. call'[d].ord = size[j] /\ size[j] \in Int
        BY <1>1, <1>3, <1>4, <1>5, <3>2
      <4>4. call'[e].ord = call[e].ord
        BY <1>4, <2>1, <3>2
      <4>5. QED
        BY <4>2, <4>3, <4>4
    <3>3. CASE e = c
      <4>1. PastWrite(call[d]) /\ call[d].job = j
        BY <1>3, <1>4, <2>1, <3>3 DEF PastWrite
      <4>2. call[d].ord < size[j]
        BY <1>6, <4>1
      <4>3. call'[e].ord = size[j] /\ size[j] \in Int
        BY <1>1, <1>3, <1>4, <1>5, <3>3
      <4>4. call'[d].ord = call[d].ord
        BY <1>4, <2>1, <3>3
      <4>5. QED
        BY <4>2, <4>3, <4>4
    <3>4. QED
      BY <3>1, <3>2, <3>3
  <2>2. QED
    BY <2>1 DEF OneWriter
<1>10. QED
  BY <1>7, <1>8, <1>9 DEF CallInv

LEMMA CallStepWriter ==
  ASSUME TypeOK, OneWriter, NEW c \in Call, CallStep(c)
  PROVE  OneWriter'
<1>1. PICK r \in CallState :
        /\ Now(c, r)
        /\ r.wrote => call[c].wrote /\ r.job = call[c].job /\ r.ord = call[c].ord
  BY DEF CallStep
<1>2. call'[c] = r /\ \A d \in Call \ {c} : call'[d] = call[d]
  BY <1>1, NowType
<1>3. \A d \in Call : call'[d].wrote =>
        /\ call[d].wrote
        /\ call'[d].job = call[d].job
        /\ call'[d].ord = call[d].ord
  BY <1>1, <1>2
<1>4. QED
  BY <1>3 DEF OneWriter

LEMMA StepCalls ==
  ASSUME TypeOK, CallInv, RowInv, OneWriter, [Next]_vars
  PROVE  CallInv' /\ OneWriter'
<1>1. CASE CallOnly
  BY <1>1, CallStepInv, CallStepWriter DEF CallOnly
<1>2. CASE RowStep
  <2>1. UNCHANGED <<log, size>>
    BY <1>2 DEF RowStep
  <2>2. CASE call' = call
    BY <2>1, <2>2 DEF CallInv, Filled, OneWriter
  <2>3. CASE \E c \in Call : CallStep(c)
    BY <2>1, <2>3, CallStepInv, CallStepWriter
  <2>4. QED
    BY <1>2, <2>2, <2>3 DEF RowStep
<1>3. CASE SaveStep
  BY <1>3, SaveInv
<1>4. CASE InsertStep \/ GrantStep \/ ExpireStep \/ UNCHANGED vars
  <2>1. UNCHANGED <<call, log, size>>
    BY <1>4 DEF InsertStep, InsertJobRecord, GrantStep, Grant, ExpireStep, vars
  <2>2. QED
    BY <2>1 DEF CallInv, Filled, OneWriter
<1>5. QED
  BY <1>1, <1>2, <1>3, <1>4, StepKinds

-----------------------------------------------------------------------------
(* Rows and leases                                                         *)

LEMMA GrantOwner ==
  ASSUME TypeOK, RowInv, OneOwner, GrantStep
  PROVE  OneOwner' /\ RowInv'
<1> USE LeaseAssumption DEF LeaseAssumption
<1>1. PICK j \in Job, l \in LeaseId : Grantable(j) /\ Grant(j, l)
  BY DEF GrantStep
<1>2. /\ l \in expired /\ \A i \in Job : row[i].lease # l
      /\ row' = [row EXCEPT ![j] = Granted(row[j], l)]
      /\ expired' = expired \ {l}
      /\ spent' = (spent \cup (expired \cap {row[j].lease})) \ {l}
  BY <1>1 DEF Grant, Fresh
<1>3. row[j] \in JobRow
  BY DEF TypeOK
<1>4. /\ row'[j].lease = l /\ row'[j].delayed = row[j].delayed
      /\ row'[j].archived = row[j].archived /\ row'[j].waitFor = row[j].waitFor
      /\ row'[j].inserted = row[j].inserted
      /\ \A i \in Job \ {j} : row'[i] = row[i]
  BY <1>2, <1>3 DEF TypeOK, Granted, JobRow
<1>5. grant'[l].job = j /\ \A m \in LeaseId \ {l} : grant'[m] = grant[m]
  BY <1>1 DEF Grant, TypeOK
<1>6. row[j].lease \in LeaseId \cup {NoLease}
  BY <1>3 DEF JobRow
<1>7. \A m \in LeaseId : grant'[m].job # NoJob /\ m \notin expired' \cup spent'
                           => row'[grant'[m].job].lease = m
  <2> SUFFICES ASSUME NEW m \in LeaseId, grant'[m].job # NoJob,
                      m \notin expired', m \notin spent'
               PROVE  row'[grant'[m].job].lease = m
    OBVIOUS
  <2>1. CASE m = l
    BY <1>4, <1>5, <2>1
  <2>2. CASE m # l
    <3>1. /\ m \notin expired /\ m \notin spent /\ grant'[m] = grant[m]
          /\ grant[m].job \in Job
      BY <1>2, <1>5, <2>2 DEF TypeOK
    <3>2. row[grant[m].job].lease = m
      BY <3>1 DEF OneOwner
    <3>3. grant[m].job # j
      BY <1>1, <3>1, <3>2 DEF Grantable, Leased
    <3>4. QED
      BY <1>4, <3>1, <3>2, <3>3
  <2>3. QED
    BY <2>1, <2>2
<1>8. \A i \in Job : row'[i].lease # NoLease =>
        row'[i].lease \notin spent' /\ grant'[row'[i].lease].job = i
  <2> SUFFICES ASSUME NEW i \in Job, row'[i].lease # NoLease
               PROVE  row'[i].lease \notin spent' /\ grant'[row'[i].lease].job = i
    OBVIOUS
  <2>1. CASE i = j
    BY <1>2, <1>4, <1>5, <2>1
  <2>2. CASE i # j
    <3>1. row'[i] = row[i] /\ row[i].lease # l /\ row[i].lease \in LeaseId
      BY <1>2, <1>4, <2>2 DEF TypeOK, JobRow
    <3>2. row[i].lease \notin spent /\ grant[row[i].lease].job = i
      BY <3>1 DEF OneOwner
    <3>3. row[i].lease # row[j].lease
      BY <2>2, <3>1, <3>2 DEF OneOwner
    <3>4. QED
      BY <1>2, <1>5, <3>1, <3>2, <3>3
  <2>3. QED
    BY <2>1, <2>2
<1>9. RowInv'
  <2>1. \A i \in Job : /\ row'[i].archived = row[i].archived
                       /\ row'[i].inserted = row[i].inserted
    BY <1>4
  <2>2. \A i \in Job : RowSound(row'[i])
    BY <1>1, <1>4 DEF Grantable, RowInv, RowSound
  <2>3. ASSUME NEW i \in Job, row'[i].lease # NoLease
        PROVE  /\ ~row'[i].delayed
               /\ \A d \in row'[i].waitFor \ late'[i] :
                    row'[d].inserted => row'[d].archived
    <3>1. /\ row'[i].waitFor = row[i].waitFor /\ row'[i].delayed = row[i].delayed
          /\ row[i].waitFor \subseteq Job
      BY <1>4 DEF TypeOK, JobRow
    <3>2. CASE i # j \/ (row[j].lease # NoLease /\ late' = late)
      <4>1. row[i].lease # NoLease /\ late'[i] = late[i]
        BY <1>1, <1>4, <2>3, <3>2 DEF Grantable, TypeOK
      <4>2. /\ ~row[i].delayed
            /\ \A d \in row[i].waitFor \ late[i] :
                 row[d].inserted => row[d].archived
        BY <4>1 DEF RowInv, LeasedIsReady
      <4>3. QED
        BY <2>1, <3>1, <4>1, <4>2
    <3>3. CASE i = j /\ Ready(j) /\ ~row[j].delayed
      BY <2>1, <3>1, <3>3 DEF Ready
    <3>4. QED
      BY <1>1, <3>2, <3>3 DEF Grantable
  <2>4. QED
    BY <2>2, <2>3 DEF RowInv, LeasedIsReady
<1>10. QED
  BY <1>7, <1>8, <1>9 DEF OneOwner

LEMMA RowOwner ==
  ASSUME TypeOK, RowInv, OneOwner, RowStep
  PROVE  OneOwner' /\ RowInv'
<1> USE LeaseAssumption DEF LeaseAssumption
<1>1. PICK j \in Job, r \in JobRow :
        /\ row' = [row EXCEPT ![j] = r]
        /\ RowSound(r)
        /\ r.inserted = row[j].inserted
        /\ \/ r.lease = NoLease /\ LeaseOver(j)
           \/ /\ r.lease = row[j].lease /\ UNCHANGED <<spent, late>>
              /\ r.waitFor = row[j].waitFor
              /\ r.delayed => row[j].delayed
        /\ row[j].archived => r.archived
        /\ UNCHANGED <<expired, grant>>
  BY DEF RowStep
<1>2. row'[j] = r /\ \A i \in Job \ {j} : row'[i] = row[i]
  BY <1>1 DEF TypeOK
<1>3. \A m \in LeaseId : grant[m].job # NoJob /\ m \notin expired \cup spent'
                           => row'[grant[m].job].lease = m
  <2> SUFFICES ASSUME NEW m \in LeaseId, grant[m].job # NoJob,
                      m \notin expired, m \notin spent'
               PROVE  row'[grant[m].job].lease = m
    OBVIOUS
  <2>1. m \notin spent /\ grant[m].job \in Job
    BY <1>1 DEF LeaseOver, TypeOK
  <2>2. row[grant[m].job].lease = m
    BY <2>1 DEF OneOwner
  <2>3. CASE grant[m].job = j /\ r.lease = NoLease /\ LeaseOver(j)
    BY <2>2, <2>3 DEF LeaseOver
  <2>4. CASE grant[m].job = j /\ r.lease = row[j].lease
    BY <1>2, <2>2, <2>4
  <2>5. CASE grant[m].job # j
    BY <1>2, <2>1, <2>2, <2>5
  <2>6. QED
    BY <1>1, <2>3, <2>4, <2>5
<1>4. \A i \in Job : row'[i].lease # NoLease =>
        row'[i].lease \notin spent' /\ grant[row'[i].lease].job = i
  <2> SUFFICES ASSUME NEW i \in Job, row'[i].lease # NoLease
               PROVE  row'[i].lease \notin spent' /\ grant[row'[i].lease].job = i
    OBVIOUS
  <2>1. CASE i = j
    BY <1>1, <1>2, <2>1 DEF OneOwner
  <2>2. CASE i # j
    <3>1. row'[i] = row[i]
      BY <1>2, <2>2
    <3>2. row[i].lease \notin spent /\ grant[row[i].lease].job = i
      BY <3>1 DEF OneOwner
    <3>3. row[j].lease # NoLease => row[i].lease # row[j].lease
      BY <2>2, <3>2 DEF OneOwner
    <3>4. QED
      BY <1>1, <3>1, <3>2, <3>3 DEF LeaseOver
  <2>3. QED
    BY <2>1, <2>2
<1>5. RowInv'
  <2>1. \A i \in Job : /\ row[i].archived => row'[i].archived
                       /\ row'[i].inserted = row[i].inserted
    BY <1>1, <1>2
  <2>2. \A i \in Job : RowSound(row'[i])
    BY <1>1, <1>2 DEF RowInv
  <2>3. ASSUME NEW i \in Job, row'[i].lease # NoLease
        PROVE  /\ ~row'[i].delayed
               /\ \A d \in row'[i].waitFor \ late'[i] :
                    row'[d].inserted => row'[d].archived
    <3>1. /\ row[i].lease = row'[i].lease
          /\ row'[i].waitFor = row[i].waitFor
          /\ row'[i].delayed => row[i].delayed
      BY <1>1, <1>2, <2>3
    <3>2. late'[i] = late[i]
      BY <1>1, <1>2, <2>3 DEF LeaseOver, TypeOK
    <3>3. /\ ~row[i].delayed
          /\ \A d \in row[i].waitFor \ late[i] :
               row[d].inserted => row[d].archived
      BY <2>3, <3>1 DEF RowInv, LeasedIsReady
    <3>4. row[i].waitFor \subseteq Job
      BY DEF TypeOK, JobRow
    <3>5. QED
      BY <2>1, <3>1, <3>2, <3>3, <3>4
  <2>4. QED
    BY <2>2, <2>3 DEF RowInv, LeasedIsReady
<1>6. QED
  BY <1>1, <1>3, <1>4, <1>5 DEF OneOwner

LEMMA InsertOwner ==
  ASSUME TypeOK, RowInv, OneOwner, InsertStep
  PROVE  OneOwner' /\ RowInv'
<1> USE LeaseAssumption DEF LeaseAssumption
<1>1. PICK j \in Job, d \in BOOLEAN, S \in SUBSET Job : InsertJobRecord(j, d, S)
  BY DEF InsertStep
<1>2. /\ row'[j] = Submitted(d, S)
      /\ \A i \in Job \ {j} : row'[i] = row[i]
      /\ ~row[j].inserted
      /\ UNCHANGED <<expired, grant, spent>>
  BY <1>1 DEF InsertJobRecord, TypeOK
<1>3. row'[j].lease = NoLease /\ ~row'[j].archived /\ row'[j].inserted
  BY <1>2 DEF Submitted
<1>4. row[j].lease = NoLease
  BY <1>2 DEF RowInv, RowSound
<1>5. \A i \in Job : row'[i].lease = row[i].lease
  BY <1>2, <1>3, <1>4
<1>6. OneOwner'
  <2>1. \A m \in LeaseId : grant[m].job # NoJob => grant[m].job \in Job
    BY DEF TypeOK
  <2>2. \A m \in LeaseId : grant[m].job # NoJob /\ m \notin expired \cup spent
                             => row'[grant[m].job].lease = m
    BY <1>5, <2>1 DEF OneOwner
  <2>3. \A i \in Job : row'[i].lease # NoLease =>
          row'[i].lease \notin spent /\ grant[row'[i].lease].job = i
    BY <1>5 DEF OneOwner
  <2>4. QED
    BY <1>2, <2>2, <2>3 DEF OneOwner
<1>7. \A i \in Job : RowSound(row'[i])
  BY <1>2, <1>3 DEF RowInv, RowSound
<1>8. ASSUME NEW i \in Job, row'[i].lease # NoLease
      PROVE  /\ ~row'[i].delayed
             /\ \A e \in row'[i].waitFor \ late'[i] :
                  row'[e].inserted => row'[e].archived
  <2>1. row'[i] = row[i] /\ row[i].waitFor \subseteq Job
    BY <1>2, <1>3, <1>8 DEF TypeOK, JobRow
  <2>2. late'[i] = late[i] \cup ({j} \cap row[i].waitFor)
    BY <1>1, <1>8, <2>1 DEF InsertJobRecord
  <2>3. /\ ~row[i].delayed
        /\ \A e \in row[i].waitFor \ late[i] : row[e].inserted => row[e].archived
    BY <1>8, <2>1 DEF RowInv, LeasedIsReady
  <2>4. QED
    BY <1>2, <2>1, <2>2, <2>3
<1>9. QED
  BY <1>6, <1>7, <1>8 DEF RowInv, LeasedIsReady

LEMMA StepRows ==
  ASSUME TypeOK, CallInv, RowInv, OneOwner, [Next]_vars
  PROVE  OneOwner' /\ RowInv'
<1>1. CASE GrantStep
  BY <1>1, GrantOwner
<1>2. CASE RowStep
  BY <1>2, RowOwner
<1>3. CASE CallOnly \/ SaveStep \/ ExpireStep \/ UNCHANGED vars
  <2>1. UNCHANGED <<row, grant, spent, late>> /\ expired \subseteq expired'
    BY <1>3 DEF CallOnly, SaveStep, ExpireStep, vars
  <2>2. OneOwner'
    BY <2>1 DEF OneOwner
  <2>3. RowInv'
    BY <2>1 DEF RowInv, LeasedIsReady
  <2>4. QED
    BY <2>2, <2>3
<1>4. CASE InsertStep
  BY <1>4, InsertOwner
<1>5. QED
  BY <1>1, <1>2, <1>3, <1>4, StepKinds

LEMMA StepFinal ==
  ASSUME TypeOK, CallInv, RowInv, CompletedHasFinal, [Next]_vars
  PROVE  CompletedHasFinal'
<1>1. ASSUME NEW i \in Job, row'[i].status = "ended"
      PROVE  row[i].status = "ended" \/ \E o \in Ordinal : log[i][o].kind = "final"
  <2>1. CASE GrantStep
    <3>1. PICK j \in Job, l \in LeaseId : Grant(j, l)
      BY <2>1 DEF GrantStep
    <3>2. row' = [row EXCEPT ![j] = Granted(row[j], l)] /\ row[j] \in JobRow
      BY <3>1 DEF Grant, TypeOK
    <3>3. Granted(row[j], l).status = row[j].status
      BY <3>2 DEF Granted, JobRow
    <3>4. QED
      BY <1>1, <3>2, <3>3 DEF TypeOK
  <2>2. CASE RowStep
    BY <1>1, <2>2 DEF RowStep, TypeOK
  <2>3. CASE CallOnly \/ SaveStep \/ ExpireStep \/ UNCHANGED vars
    BY <1>1, <2>3 DEF CallOnly, SaveStep, ExpireStep, vars
  <2>4. CASE InsertStep
    <3>1. PICK j \in Job, d \in BOOLEAN, S \in SUBSET Job :
            row' = [row EXCEPT ![j] = Submitted(d, S)]
      BY <2>4 DEF InsertStep, InsertJobRecord
    <3>2. i # j /\ row'[i] = row[i]
      BY <1>1, <3>1 DEF Submitted, TypeOK
    <3>3. QED
      BY <1>1, <3>2
  <2>5. QED
    BY <2>1, <2>2, <2>3, <2>4, StepKinds
<1>2. ASSUME NEW i \in Job, NEW o \in Ordinal, log[i][o].kind = "final"
      PROVE  log'[i][o] = log[i][o]
  <2>1. CASE SaveStep
    <3>1. PICK c \in Call :
            /\ call[c].job \in Job
            /\ log' = [log EXCEPT ![call[c].job] =
                 [log[call[c].job] EXCEPT ![size[call[c].job]] = call[c].chapter]]
      BY <2>1 DEF SaveStep
    <3>2. log[i][o] # NoChapter
      BY <1>2 DEF NoChapter
    <3>3. o < size[i] /\ size[i] \in Int
      BY <3>2 DEF CallInv, Filled, TypeOK
    <3>4. o # size[i]
      BY <3>3
    <3>5. QED
      BY <3>1, <3>4 DEF TypeOK
  <2>2. CASE InsertStep \/ GrantStep \/ CallOnly \/ RowStep \/ ExpireStep
               \/ UNCHANGED vars
    BY <2>2 DEF InsertStep, InsertJobRecord, GrantStep, Grant, CallOnly, RowStep, ExpireStep, vars
  <2>3. QED
    BY <2>1, <2>2, StepKinds
<1>3. QED
  BY <1>1, <1>2 DEF CompletedHasFinal

-----------------------------------------------------------------------------
(* Theorems                                                                *)

LEMMA StepIInv == IInv /\ [Next]_vars => IInv'
BY StepType, StepCalls, StepRows, StepFinal DEF IInv

\* The strengthened invariant: what the positions of calls say of the story,
\* and the rows of the leases.
THEOREM Inductive == Spec => []IInv
BY InitIInv, StepIInv, PTL DEF Spec

\* Every variable keeps its shape, for any number of jobs, calls and leases.
THEOREM TypeCorrect == Spec => []TypeOK
<1>1. IInv => TypeOK
  BY DEF IInv
<1>2. QED
  BY <1>1, Inductive, PTL

\* A call that answered success has its chapter at its ordinal, whatever other
\* calls did between its transactions (SaveChapter, ReadExisting).
THEOREM SuccessStored == Spec => []SuccessIsStored
<1>1. IInv => SuccessIsStored
  BY DEF IInv, CallInv, Stored, PastWrite, SuccessIsStored
<1>2. QED
  BY <1>1, Inductive, PTL

\* No two calls in flight append at the same ordinal of a job (SaveChapter).
THEOREM SingleWriter == Spec => []OneWriter
<1>1. IInv => OneWriter
  BY DEF IInv
<1>2. QED
  BY <1>1, Inductive, PTL

\* A job has at most one live lease, the one in its row, and a row never shows
\* a lease that is over (acquireOneLease, GetJobLease, CancelJob, row updates).
THEOREM SingleOwner == Spec => []OneOwner
<1>1. IInv => OneOwner
  BY DEF IInv
<1>2. QED
  BY <1>1, Inductive, PTL

\* A job is only completed behind a stored final chapter (ArchiveJob).
THEOREM FinalStored == Spec => []CompletedHasFinal
<1>1. IInv => CompletedHasFinal
  BY DEF IInv
<1>2. QED
  BY <1>1, Inductive, PTL

\* A leased job has its delay over and its dependencies archived, but for those
\* that had no row when they were looked at (PollWork, GetJobLease,
\* InsertJobRecord), whatever other jobs do meanwhile.
THEOREM LeasedReady == Spec => []LeasedIsReady
<1>1. IInv => LeasedIsReady
  BY DEF IInv, RowInv
<1>2. QED
  BY <1>1, Inductive, PTL

\* A terminal job stays terminal: not leased, not woken up, not given another
\* status (Resumable, HeldOnTime, CancelJob).
THEOREM TerminalForGood == Spec => TerminalStays
<1> DEFINE A == \A j \in Job : row[j].archived =>
                  /\ row'[j].archived
                  /\ row'[j].lease = NoLease
                  /\ row'[j].status = row[j].status
                  /\ row'[j].need = row[j].need
<1>1. IInv /\ [Next]_vars => [A]_vars
  <2> SUFFICES ASSUME IInv, [Next]_vars, NEW j \in Job, row[j].archived
               PROVE  /\ row'[j].archived
                      /\ row'[j].lease = NoLease
                      /\ row'[j].status = row[j].status
                      /\ row'[j].need = row[j].need
    OBVIOUS
  <2>1. row[j].lease = NoLease /\ TypeOK /\ CallInv /\ RowInv
    BY DEF IInv, RowInv, RowSound
  <2>2. CASE GrantStep
    BY <2>1, <2>2 DEF GrantStep, Grantable, Grant, TypeOK
  <2>3. CASE RowStep
    <3>1. PICK i \in Job, r \in JobRow :
            /\ row' = [row EXCEPT ![i] = r]
            /\ RowSound(r)
            /\ row[i].archived =>
                 r.archived /\ r.status = row[i].status /\ r.need = row[i].need
      BY <2>3 DEF RowStep
    <3>2. r.archived => r.lease = NoLease
      BY <3>1 DEF RowSound
    <3>3. QED
      BY <2>1, <3>1, <3>2 DEF TypeOK
  <2>4. CASE CallOnly \/ SaveStep \/ ExpireStep \/ UNCHANGED vars
    BY <2>1, <2>4 DEF CallOnly, SaveStep, ExpireStep, vars
  <2>5. CASE InsertStep
    BY <2>1, <2>5 DEF InsertStep, InsertJobRecord, RowInv, RowSound, TypeOK
  <2>6. QED
    BY <2>1, <2>2, <2>3, <2>4, <2>5, StepKinds
<1>2. QED
  BY <1>1, Inductive, PTL DEF Spec, TerminalStays

\* Only its own row update makes a completion or a reschedule succeed.
LEMMA OkByUpdate ==
  ASSUME TypeOK, Next, NEW c \in Call,
         call[c].pc \in {"archive", "resched"}, call'[c].pc = "ok"
  PROVE  (\E s \in {"ended", "cancelled"} : ArchiveJob(c, s)) \/ RescheduleJob(c)
<1>1. ASSUME NEW d \in Call, NEW r, Now(d, r), d # c \/ r.pc # "ok"
      PROVE  FALSE
  BY <1>1 DEF Now, TypeOK
<1>2. call' # call
  OBVIOUS
<1>3. /\ ~(\E j \in Job, d \in BOOLEAN, S \in SUBSET Job : InsertJobRecord(j, d, S))
      /\ ~(\E j \in Job, l \in LeaseId : PollWork(j, l) \/ GetJobLease(j, l))
  BY <1>2 DEF InsertJobRecord, PollWork, GetJobLease, Grant
<1>4. /\ ~(\E j \in Job : CancelJob(j) \/ AlternateFires(j) \/ DelayEnds(j))
       /\ ~(\E l \in LeaseId : LeaseExpires(l))
  BY <1>2 DEF CancelJob, AlternateFires, DelayEnds, LeaseExpires
<1>5. ASSUME NEW d \in Call, NEW l \in LeaseId, NEW o \in Ordinal, NEW b \in Body,
             \/ PutChapter(d, l, o, b)
             \/ BeginComplete(d, l, o, [kind |-> "final", body |-> b])
      PROVE  FALSE
  <2>1. call[d].pc = "idle" /\ \E r : Now(d, r)
    BY <1>5 DEF PutChapter, BeginComplete, HolderMayCall
  <2>2. QED
    BY <1>1, <2>1
<1>6. ASSUME NEW d \in Call, NEW l \in LeaseId, NEW o \in Ordinal,
             BeginReschedule(d, l, o)
      PROVE  FALSE
  <2>1. call[d].pc = "idle" /\ \E r : Now(d, r)
    BY <1>6 DEF BeginReschedule, HolderMayCall
  <2>2. QED
    BY <1>1, <2>1
<1>7. ASSUME NEW d \in Call, NEW j \in Job, NEW b \in Body, BeginCommit(d, j, b)
      PROVE  FALSE
  <2>1. call[d].pc = "idle" /\ \E r : Now(d, r)
    BY <1>7 DEF BeginCommit
  <2>2. QED
    BY <1>1, <2>1
<1>8. ASSUME NEW d \in Call,
             \/ CheckNextOrdinal(d) \/ SaveChapter(d) \/ ReadExisting(d)
             \/ CaptureTime(d) \/ ResumeJob(d) \/ Return(d)
      PROVE  FALSE
  <2>1. call[d].pc \notin {"archive", "resched"} /\ \E r : Now(d, r)
    BY <1>8 DEF CheckNextOrdinal, SaveChapter, ReadExisting, CaptureTime,
                ResumeJob, Return, Goto
  <2>2. QED
    BY <1>1, <2>1
<1>9. ASSUME NEW d \in Call, Crash(d)
      PROVE  FALSE
  BY <1>1, <1>9 DEF Crash, NoCall, Begun
<1>10. ASSUME NEW d \in Call, d # c,
             \/ \E s \in {"ended", "cancelled"} : ArchiveJob(d, s)
             \/ RescheduleJob(d)
      PROVE  FALSE
  <2>1. \E r : Now(d, r)
    BY <1>10 DEF ArchiveJob, RescheduleJob, Goto
  <2>2. QED
    BY <1>1, <1>10, <2>1
<1>11. QED
  BY <1>3, <1>4, <1>5, <1>6, <1>7, <1>8, <1>9, <1>10 DEF Next

\* A lease completes or reschedules its job at most once, and never after a
\* later grant, a commit or a cancel took it away (HeldOnTime).
THEOREM Fencing == Spec => FencedOut
<1> DEFINE A == \A c \in Call :
                  call[c].pc \in {"archive", "resched"} /\ call'[c].pc = "ok"
                    => call[c].lease \notin spent /\ call[c].lease \in spent'
<1>1. IInv /\ [Next]_vars => [A]_vars
  <2> SUFFICES ASSUME IInv, Next, NEW c \in Call,
                      call[c].pc \in {"archive", "resched"}, call'[c].pc = "ok"
               PROVE  call[c].lease \notin spent /\ call[c].lease \in spent'
    BY DEF vars
  <2>1. TypeOK /\ OneOwner /\ CallSound(call[c])
    BY DEF IInv, CallInv
  <2>2. call[c].lease # NoLease /\ call[c].job \in Job
    BY <2>1 DEF CallSound
  <2>3. (\E s \in {"ended", "cancelled"} : ArchiveJob(c, s)) \/ RescheduleJob(c)
    BY <2>1, OkByUpdate
  <2>4. ~Goto(c, "lost")
    BY <2>1 DEF Goto, Now, TypeOK, CallState
  <2>5. HeldOnTime(c) /\ LeaseOver(call[c].job)
    BY <2>3, <2>4 DEF ArchiveJob, RescheduleJob
  <2>6. row[call[c].job].lease = call[c].lease
    BY <2>5 DEF HeldOnTime
  <2>7. QED
    BY <2>1, <2>2, <2>5, <2>6 DEF OneOwner, LeaseOver
<1>2. QED
  BY <1>1, Inductive, PTL DEF Spec, FencedOut
=============================================================================
