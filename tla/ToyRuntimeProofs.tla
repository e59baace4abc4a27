-------------------------- MODULE ToyRuntimeProofs --------------------------
(***************************************************************************)
(* Proofs about ToyRuntime, for any number of jobs, leases and calls.      *)
(* They rest on what a call between two sections still knows (CallSound),  *)
(* and on what a submission or a commit cannot do unseen (SubmitMet,       *)
(* CommitClean): whatever uses the job before it is over contests the job. *)
(***************************************************************************)
EXTENDS ToyRuntime, TLAPS, FiniteSetTheorems, SequenceTheorems

-----------------------------------------------------------------------------
(* The inductive invariant                                                 *)

\* The bound on records is kept.
Counted == IsFiniteSet(Records) /\ Made <= MaxRecords

\* A call of a lease is about the job of the lease and a record that was made for
\* it; once its chapter is there, it stays there.
CallSound(k) ==
  /\ k.op = "none" => k = Idle
  /\ k.op # "none" => k.job \in Job /\ k.ord < MaxChapters
  /\ k.op = "submit" => k.pc = "finish"
  /\ k.op = "put" => k.pc = "store"
  /\ k.op = "commit" => k.pc \in {"store", "finish"}
  /\ k.op = "complete" => k.pc \in {"chapter", "store", "result", "finish"}
  /\ k.op \in {"put", "complete", "commit"} => Known(k.job) /\ k.ord >= 1
  /\ k.op = "complete" =>
       /\ k.lease \in LeaseId /\ grant[k.lease] = k.job
       /\ k.at \in DOMAIN rec[k.job]
       /\ k.pc = "result" => k.to \in DOMAIN rec[k.job]
       /\ k.pc \in {"result", "finish"} =>
            /\ k.ord < Len(story[k.job])
            /\ story[k.job][k.ord + 1] = Final(k.lease)

\* A record names the job's own lease and a task that can be written.
RecordSound ==
  \A j \in Job : \A n \in DOMAIN rec[j] :
    /\ rec[j][n].lease # NoLease => grant[rec[j][n].lease] = j
    /\ rec[j][n].task < MaxChapters

\* A lease in use, in the story or in a record is a lease of a known job.
GrantSound ==
  /\ \A l \in LeaseId : grant[l] # NoJob => Known(grant[l])
  /\ \A j \in Job : \A n \in DOMAIN story[j] : \A l \in LeaseId :
       story[j][n] = Final(l) => grant[l] # NoJob

\* A job has a second record only after a submission that met the first one.
OneRecord == \A j \in Job \ contested : Len(rec[j]) <= 1

\* A submission that did not find the job, and meets it now, contests it.
SubmitMet ==
  \A c \in Call : call[c].op = "submit" /\ Known(call[c].job)
    => call[c].job \in contested

\* A commit of a job that nothing has contested finds it waiting.
CommitClean ==
  \A c \in Call : call[c].op = "commit" /\ call[c].job \notin contested
    => Now(call[c].job).status \notin Terminal \cup {"active"}

\* The outcome of a job is in the record or on its way there.
HasOutcome(j) ==
  \/ Now(j).result
  \/ \E c \in Call : /\ At(c, "complete", "result")
                     /\ call[c].job = j /\ call[c].to = Len(rec[j])
  \/ j \in contested

\* It is on its way as soon as the final chapter is there.  (A restart may copy
\* the final chapters of other jobs.)
FinalHasOutcome ==
  \A j \in Job : \A n \in DOMAIN story[j] : \A l \in LeaseId :
    story[j][n] = Final(l) /\ grant[l] = j => HasOutcome(j)

DoneKnown == \A j \in done : Known(j)

IInv ==
  /\ TypeOK
  /\ Counted
  /\ \A c \in Call : CallSound(call[c])
  /\ RecordSound
  /\ GrantSound
  /\ OneRecord
  /\ SubmitMet
  /\ CommitClean
  /\ FinalHasOutcome
  /\ DoneKnown
  /\ DoneStays
  /\ CompletedHasOutcome

-----------------------------------------------------------------------------
(* Shapes                                                                  *)

LEMMA SeqFacts ==
  ASSUME NEW S, NEW s \in Seq(S)
  PROVE  /\ Len(s) \in Nat /\ DOMAIN s = 1 .. Len(s)
         /\ s # <<>> <=> Len(s) >= 1
         /\ \A n \in 1 .. Len(s) : s[n] \in S
  BY LenProperties, ElementOfSeq, EmptySeq

\* What the type invariant says of the records and the story of a job
LEMMA Shapes ==
  ASSUME TypeOK, NEW j \in Job
  PROVE  /\ rec[j] \in Seq(Record) /\ Len(rec[j]) \in Nat
         /\ DOMAIN rec[j] = 1 .. Len(rec[j])
         /\ \A n \in 1 .. Len(rec[j]) : rec[j][n] \in Record
         /\ Known(j) <=> Len(rec[j]) >= 1
         /\ Known(j) => Now(j) = rec[j][Len(rec[j])] /\ Now(j) \in Record
         /\ story[j] \in Seq(Chapter) /\ Len(story[j]) \in Nat
         /\ DOMAIN story[j] = 1 .. Len(story[j])
         /\ \A n \in 1 .. Len(story[j]) : story[j][n] \in Chapter
         /\ Known(j) <=> Len(story[j]) >= 1
         /\ Len(rec[j]) <= MaxRecords /\ Len(story[j]) <= MaxChapters
<1>1. rec[j] \in Seq(Record) /\ story[j] \in Seq(Chapter)
  BY DEF TypeOK
<1> QED
  BY <1>1, SeqFacts DEF TypeOK, Known, Now, Last

\* The three kinds of chapter are different.
LEMMA Chapters ==
  /\ Start \in Chapter /\ Start.kind = "start"
  /\ Work \in Chapter /\ Work.kind = "work"
  /\ \A l : Final(l).kind = "final" /\ Final(l).of = l
  /\ \A l \in LeaseId : Final(l) \in Chapter
  /\ \A l : Start # Final(l) /\ Work # Final(l)
<1>1. \A l : Final(l).kind = "final" /\ Final(l).of = l
  BY DEF Final
<1>2. Start.kind = "start" /\ Work.kind = "work"
  BY DEF Start, Work
<1> QED
  BY <1>1, <1>2 DEF Chapter

LEMMA IdleFacts ==
  /\ Idle \in CallState /\ Idle.op = "none" /\ Idle.pc = "idle" /\ Idle.ord = 0
  /\ CallSound(Idle)
<1>1. Idle.op = "none" /\ Idle.pc = "idle" /\ Idle.ord = 0 /\ Idle \in CallState
  BY ToyAssumption DEF Idle, CallState, Op, PC
<1> QED
  BY <1>1 DEF CallSound

-----------------------------------------------------------------------------
(* What the steps of others leave to a call                                *)

Grows ==
  /\ \A j \in Job :
       /\ Len(rec[j]) <= Len(rec'[j])
       /\ Len(story[j]) <= Len(story'[j])
       /\ \A n \in 2 .. Len(story[j]) : story'[j][n] = story[j][n]
  /\ \A l \in LeaseId : grant[l] # NoJob => grant'[l] = grant[l]

LEMMA CallStays ==
  ASSUME TypeOK, TypeOK', Grows, NEW k \in CallState, CallSound(k)
  PROVE  CallSound(k)'
<1>1. k.job \in Job => /\ Known(k.job) => Known(k.job)'
                       /\ k.at \in DOMAIN rec[k.job] => k.at \in DOMAIN rec'[k.job]
                       /\ k.to \in DOMAIN rec[k.job] => k.to \in DOMAIN rec'[k.job]
  <2> SUFFICES ASSUME k.job \in Job
               PROVE  /\ Known(k.job) => Known(k.job)'
                      /\ k.at \in DOMAIN rec[k.job] => k.at \in DOMAIN rec'[k.job]
                      /\ k.to \in DOMAIN rec[k.job] => k.to \in DOMAIN rec'[k.job]
    OBVIOUS
  <2>1. rec[k.job] \in Seq(Record) /\ rec'[k.job] \in Seq(Record)
    BY DEF TypeOK
  <2>2. Len(rec[k.job]) <= Len(rec'[k.job])
    BY DEF Grows
  <2> QED
    BY <2>1, <2>2, SeqFacts DEF Known
<1>2. k.op = "complete" /\ k.pc \in {"result", "finish"} =>
        k.ord < Len(story'[k.job]) /\ story'[k.job][k.ord + 1] = Final(k.lease)
  <2> SUFFICES ASSUME k.op = "complete", k.pc \in {"result", "finish"}
               PROVE  k.ord < Len(story'[k.job])
                        /\ story'[k.job][k.ord + 1] = Final(k.lease)
    OBVIOUS
  <2>1. /\ k.job \in Job /\ k.ord \in Nat /\ k.ord >= 1
        /\ k.ord < Len(story[k.job])
        /\ story[k.job][k.ord + 1] = Final(k.lease)
    BY ToyAssumption DEF CallSound, CallState
  <2>2. Len(story[k.job]) \in Nat /\ Len(story'[k.job]) \in Nat
    BY <2>1, SeqFacts DEF TypeOK
  <2> QED
    BY <2>1, <2>2 DEF Grows
<1>3. k.op = "complete" => grant'[k.lease] = k.job
  BY ToyAssumption DEF CallSound, Grows
<1> QED
  BY <1>1, <1>2, <1>3 DEF CallSound

-----------------------------------------------------------------------------
(* Steps that write records in place                                       *)

\* No record is made, and the stories stay as they are.
InPlace ==
  /\ rec' \in [Job -> Seq(Record)]
  /\ \A i \in Job : Len(rec'[i]) = Len(rec[i])
  /\ story' = story

LEMMA WriteShape ==
  ASSUME TypeOK, NEW j \in Job, NEW n \in 1 .. Len(rec[j]), NEW r \in Record,
         rec' = [rec EXCEPT ![j][n] = r], story' = story
  PROVE  /\ InPlace
         /\ \A i \in Job : \A m \in 1 .. Len(rec[i]) :
              rec'[i][m] = IF i = j /\ m = n THEN r ELSE rec[i][m]
<1>1. rec[j] \in Seq(Record)
  BY DEF TypeOK
<1> DEFINE s == [rec[j] EXCEPT ![n] = r]
<1>2. /\ s \in Seq(Record) /\ Len(s) = Len(rec[j])
      /\ \A m \in 1 .. Len(rec[j]) : s[m] = IF m = n THEN r ELSE rec[j][m]
  BY <1>1, ExceptSeq
<1>3. /\ rec'[j] = s
      /\ \A i \in Job \ {j} : rec'[i] = rec[i]
      /\ DOMAIN rec' = Job
  BY DEF TypeOK
<1>4. rec' \in [Job -> Seq(Record)]
  BY <1>2 DEF TypeOK
<1> HIDE DEF s
<1> QED
  BY <1>2, <1>3, <1>4 DEF InPlace

LEMMA InPlaceFacts ==
  ASSUME TypeOK, InPlace, NEW i \in Job
  PROVE  /\ DOMAIN rec'[i] = 1 .. Len(rec[i])
         /\ Known(i)' <=> Known(i)
         /\ Known(i) => Now(i)' = rec'[i][Len(rec[i])] /\ Len(rec[i]) \in 1 .. Len(rec[i])
<1>1. rec[i] \in Seq(Record) /\ rec'[i] \in Seq(Record) /\ Len(rec'[i]) = Len(rec[i])
  BY DEF TypeOK, InPlace
<1> QED
  BY <1>1, SeqFacts DEF Known, Now, Last

LEMMA InPlaceKeeps ==
  ASSUME IInv, InPlace,
         \A i \in Job : \A n \in 1 .. Len(rec[i]) :
           /\ rec'[i][n].status = "active" <=> rec'[i][n].lease # NoLease
           /\ rec'[i][n].lease # NoLease => grant'[rec'[i][n].lease] = i
           /\ rec'[i][n].task < MaxChapters
           /\ rec[i][n].result => rec'[i][n].result,
         grant' \in [LeaseId -> Job \cup {NoJob}],
         \A l \in LeaseId : \/ grant'[l] = grant[l]
                            \/ grant[l] = NoJob /\ Known(grant'[l]),
         DOMAIN call' = Call,
         \A d \in Call :
           \/ call'[d] = call[d]
           \/ /\ call'[d] \in CallState /\ CallSound(call[d])'
              /\ At(d, "complete", "result") =>
                   rec'[call[d].job][call[d].to].result,
         contested \subseteq contested', contested' \subseteq Job,
         done' \subseteq Job, \A i \in done' : Known(i),
         \A i \in Job : Known(i) /\ Now(i)'.status = "completed" =>
           \/ Now(i).status = "completed"
           \/ /\ \E n \in DOMAIN story[i] : story[i][n].kind = "final"
              /\ HasOutcome(i),
         SubmitMet', CommitClean', DoneStays'
  PROVE  IInv'
<1>1. TypeOK /\ story' = story
  BY DEF IInv, InPlace
<1>2. \A i \in Job : /\ rec[i] \in Seq(Record) /\ Len(rec'[i]) = Len(rec[i])
                     /\ DOMAIN rec[i] = 1 .. Len(rec[i])
                     /\ DOMAIN rec'[i] = 1 .. Len(rec[i])
                     /\ Known(i)' <=> Known(i)
  BY <1>1, InPlaceFacts, Shapes DEF InPlace
<1>3. \A d \in Call : call'[d] \in CallState
  BY <1>1 DEF TypeOK
<1>4. TypeOK'
  BY <1>1, <1>2, <1>3 DEF TypeOK, InPlace
<1>5. Counted'
  <2>1. Records' = Records
    BY <1>2 DEF Records
  <2> QED
    BY <2>1 DEF IInv, Counted, Made
<1>6. Grows
  BY <1>1, <1>2, Shapes, ToyAssumption DEF Grows
<1>7. \A d \in Call : CallSound(call[d])'
  <2> SUFFICES ASSUME NEW d \in Call, call'[d] = call[d]
               PROVE  CallSound(call[d])'
    OBVIOUS
  <2>1. PICK k \in CallState : k = call[d]
    BY <1>1 DEF TypeOK
  <2>2. CallSound(k)'
    BY <2>1, <1>1, <1>4, <1>6, CallStays DEF IInv
  <2> QED
    BY <2>1, <2>2 DEF CallSound, Known
<1>8. RecordSound'
  BY <1>2 DEF RecordSound
<1>9. GrantSound'
  BY <1>1, <1>2, ToyAssumption DEF IInv, GrantSound, TypeOK
<1>10. OneRecord' /\ DoneKnown'
  BY <1>1, <1>2 DEF IInv, OneRecord, DoneKnown, TypeOK
<1>11. ASSUME NEW i \in Job, Known(i), HasOutcome(i)
       PROVE  HasOutcome(i)'
  <2>1. /\ Len(rec[i]) \in 1 .. Len(rec[i])
        /\ Now(i)' = rec'[i][Len(rec[i])] /\ Now(i) = rec[i][Len(rec[i])]
    BY <1>1, <1>11, InPlaceFacts, Shapes
  <2>2. CASE Now(i).result
    BY <2>1, <2>2 DEF HasOutcome
  <2>3. CASE i \in contested
    BY <2>3 DEF HasOutcome
  <2>4. ASSUME NEW c \in Call, At(c, "complete", "result"),
               call[c].job = i, call[c].to = Len(rec[i])
        PROVE  HasOutcome(i)'
    <3>1. CASE call'[c] = call[c]
      BY <3>1, <2>4, <1>2 DEF HasOutcome, At
    <3>2. CASE call'[c] # call[c]
      BY <3>2, <2>1, <2>4 DEF HasOutcome
    <3> QED
      BY <3>1, <3>2
  <2> QED
    BY <1>11, <2>2, <2>3, <2>4 DEF HasOutcome
<1>12. FinalHasOutcome'
  <2> SUFFICES ASSUME NEW i \in Job, NEW n \in DOMAIN story[i], NEW l \in LeaseId,
                      story[i][n] = Final(l), grant'[l] = i
               PROVE  HasOutcome(i)'
    BY <1>1 DEF FinalHasOutcome
  <2>1. grant[l] = i
    BY DEF IInv, GrantSound
  <2> QED
    BY <2>1, <1>11 DEF IInv, FinalHasOutcome, GrantSound
<1>13. CompletedHasOutcome'
  <2> SUFFICES ASSUME NEW i \in Job, Known(i)', Now(i)'.status = "completed"
               PROVE  /\ \E n \in DOMAIN story[i] : story[i][n].kind = "final"
                      /\ HasOutcome(i)'
    BY <1>1 DEF CompletedHasOutcome, HasOutcome
  <2>1. Known(i)
    BY <1>2
  <2>2. /\ \E n \in DOMAIN story[i] : story[i][n].kind = "final"
        /\ HasOutcome(i)
    BY <2>1 DEF IInv, CompletedHasOutcome, HasOutcome
  <2> QED
    BY <2>1, <2>2, <1>11
<1> QED
  BY <1>4, <1>5, <1>7, <1>8, <1>9, <1>10, <1>12, <1>13 DEF IInv

LEMMA Contested ==
  ASSUME TypeOK, NEW c, NEW j \in Job, Contest(c, j)
  PROVE  /\ contested \subseteq contested' /\ contested' \subseteq Job
         /\ \A d \in Call \ {c} : Delicate(d, j) => j \in contested'
  BY DEF TypeOK, Contest

-----------------------------------------------------------------------------
(* Steps that only move a call                                             *)

LEMMA MoveKeeps ==
  ASSUME IInv, NEW c \in Call, NEW k \in CallState,
         call' = [call EXCEPT ![c] = k],
         UNCHANGED <<rec, story, grant, done>>,
         contested \subseteq contested', contested' \subseteq Job,
         CallSound(k), ~At(c, "complete", "result"),
         k.op = "submit" => ~Known(k.job),
         k.op = "commit" /\ k.job \notin contested' =>
           Now(k.job).status \notin Terminal \cup {"active"}
  PROVE  IInv'
<1>1. TypeOK
  BY DEF IInv
<1>2. /\ DOMAIN call' = Call /\ call'[c] = k
      /\ \A d \in Call \ {c} : call'[d] = call[d]
  BY <1>1 DEF TypeOK
<1>3. CallSound(call[c])'
  BY <1>2 DEF CallSound, Known
<1>4. SubmitMet'
  BY <1>2 DEF IInv, SubmitMet, Known
<1>5. CommitClean'
  BY <1>2 DEF IInv, CommitClean, Now
<1>6. DoneStays'
  BY DEF IInv, DoneStays, Now
<1>7. InPlace
  BY <1>1 DEF InPlace, TypeOK
<1>8. \A i \in Job : \A n \in 1 .. Len(rec[i]) :
        /\ rec[i][n].status = "active" <=> rec[i][n].lease # NoLease
        /\ rec[i][n].lease # NoLease => grant[rec[i][n].lease] = i
        /\ rec[i][n].task < MaxChapters
  BY <1>1, Shapes DEF IInv, TypeOK, RecordSound
<1>9. \A i \in Job : Now(i)' = Now(i)
  BY DEF Now
<1>10. \A d \in Call : call'[d] = call[d] \/ d = c
  BY <1>2
<1> QED
  BY <1>1, <1>2, <1>3, <1>4, <1>5, <1>6, <1>7, <1>8, <1>9, <1>10, InPlaceKeeps
  DEF TypeOK, IInv, DoneKnown

LEMMA ReturnKeeps ==
  ASSUME IInv, NEW c \in Call, Return(c), ~At(c, "complete", "result"),
         UNCHANGED <<rec, story, grant, done, contested>>
  PROVE  IInv'
<1>1. contested \subseteq Job
  BY DEF IInv, TypeOK
<1> QED
  BY <1>1, IdleFacts, MoveKeeps DEF Return

LEMMA CheckSubmitKeeps ==
  ASSUME IInv, NEW c \in Call, NEW j \in Job, CheckSubmit(c, j)
  PROVE  IInv'
<1> DEFINE k == [Idle EXCEPT !.op = "submit", !.pc = "finish", !.job = j]
<1>1. TypeOK /\ call[c] = Idle /\ ~Known(j)
  BY DEF IInv, CheckSubmit, Free
<1>2. k \in CallState /\ k.op = "submit" /\ k.pc = "finish" /\ k.job = j /\ k.ord = 0
  BY IdleFacts DEF CallState, Op, PC
<1>3. /\ call' = [call EXCEPT ![c] = k]
      /\ UNCHANGED <<rec, story, grant, done, contested>>
  BY DEF CheckSubmit
<1> HIDE DEF k
<1>4. CallSound(k)
  BY <1>2, ToyAssumption DEF CallSound
<1>5. ~At(c, "complete", "result")
  BY <1>1, IdleFacts DEF At
<1> QED
  BY <1>1, <1>2, <1>3, <1>4, <1>5, MoveKeeps DEF TypeOK

LEMMA BeginCommitKeeps ==
  ASSUME IInv, NEW c \in Call, NEW j \in Job, BeginCommit(c, j)
  PROVE  IInv'
<1>1. TypeOK /\ call[c] = Idle /\ Known(j) /\ Now(j).task # 0
  BY DEF IInv, BeginCommit, Free
<1>2. PICK o \in 0 .. MaxChapters : o = Now(j).task /\ 1 <= o /\ o < MaxChapters
  BY <1>1, Shapes, ToyAssumption DEF Record, IInv, RecordSound
<1> DEFINE k == [Idle EXCEPT !.op = "commit", !.pc = "store", !.job = j, !.ord = o]
<1>3. k \in CallState /\ k.op = "commit" /\ k.pc = "store" /\ k.job = j /\ k.ord = o
  BY IdleFacts DEF CallState, Op, PC
<1>4. /\ call' = [call EXCEPT ![c] = k]
      /\ UNCHANGED <<rec, story, grant, done>>
  BY <1>2 DEF BeginCommit
<1>5. /\ contested \subseteq contested' /\ contested' \subseteq Job
      /\ j \notin contested' => Now(j).status \notin Terminal \cup {"active"}
  BY <1>1 DEF BeginCommit, TypeOK
<1> HIDE DEF k
<1>6. CallSound(k)
  BY <1>1, <1>2, <1>3 DEF CallSound
<1>7. ~At(c, "complete", "result")
  BY <1>1, IdleFacts DEF At
<1> QED
  BY <1>3, <1>4, <1>5, <1>6, <1>7, MoveKeeps

LEMMA CheckLeaseKeeps ==
  ASSUME IInv, NEW c \in Call, NEW l \in LeaseId, NEW op \in {"put", "complete"},
         NEW o \in 0 .. MaxChapters, CheckLease(c, l, op, o)
  PROVE  IInv'
<1> DEFINE j == grant[l]
           k == [op |-> op, pc |-> IF op = "put" THEN "store" ELSE "chapter",
                 job |-> j, at |-> Len(rec[j]), to |-> 0, lease |-> l, ord |-> o]
<1>1. /\ TypeOK /\ call[c] = Idle /\ j # NoJob
      /\ o \in 1 .. Len(story[j]) /\ o < MaxChapters
      /\ call' = [call EXCEPT ![c] = k]
      /\ UNCHANGED <<rec, story, grant, done, contested>>
  BY DEF IInv, CheckLease, Free
<1>2. j \in Job /\ Known(j)
  BY <1>1 DEF TypeOK, IInv, GrantSound
<1>3. /\ Len(rec[j]) \in 0 .. MaxRecords /\ Len(rec[j]) \in DOMAIN rec[j]
  BY <1>1, <1>2, Shapes, ToyAssumption
<1>4. k \in CallState
  BY <1>2, <1>3, ToyAssumption DEF CallState, Op, PC
<1>5. /\ k.op = op /\ k.pc = IF op = "put" THEN "store" ELSE "chapter"
      /\ k.job = j /\ k.at = Len(rec[j]) /\ k.lease = l /\ k.ord = o
  OBVIOUS
<1> HIDE DEF k
<1>6. CallSound(k)
  BY <1>1, <1>2, <1>3, <1>5 DEF CallSound
<1>7. ~At(c, "complete", "result")
  BY <1>1, IdleFacts DEF At
<1> QED
  BY <1>1, <1>4, <1>5, <1>6, <1>7, MoveKeeps DEF TypeOK

\* A call that has its final chapter: it found it, of its own lease.
LEMMA EnsureKeeps ==
  ASSUME IInv, NEW c \in Call, EnsureCompletionChapter(c)
  PROVE  IInv'
<1> DEFINE j == call[c].job
<1>1. /\ TypeOK /\ call[c].op = "complete" /\ call[c].pc = "chapter"
      /\ call[c] \in CallState /\ CallSound(call[c])
      /\ UNCHANGED <<rec, story, grant, done, contested>>
  BY DEF IInv, EnsureCompletionChapter, At, TypeOK
<1>2. ~At(c, "complete", "result")
  BY <1>1 DEF At
<1>3. ASSUME NEW pc \in {"store", "finish"},
             call' = [call EXCEPT ![c].pc = pc],
             pc = "finish" =>
               call[c].ord < Len(story[j])
                 /\ story[j][call[c].ord + 1] = Final(call[c].lease)
      PROVE  IInv'
  <2> DEFINE k == [call[c] EXCEPT !.pc = pc]
  <2>1. /\ k \in CallState /\ k.op = "complete" /\ k.pc = pc /\ k.job = j
        /\ k.ord = call[c].ord /\ k.lease = call[c].lease /\ k.at = call[c].at
    BY <1>1 DEF CallState, PC
  <2>2. call' = [call EXCEPT ![c] = k]
    BY <1>3
  <2> HIDE DEF k
  <2>3. CallSound(k)
    BY <1>1, <1>3, <2>1 DEF CallSound
  <2> QED
    BY <1>1, <1>2, <2>1, <2>2, <2>3, MoveKeeps DEF TypeOK
<1>4. CASE ~Exists(c)
  BY <1>3, <1>4 DEF EnsureCompletionChapter
<1>5. CASE Exists(c) /\ Existing(c) = Final(call[c].lease)
  BY <1>3, <1>5 DEF EnsureCompletionChapter, Exists, Existing
<1>6. CASE Exists(c) /\ Existing(c) # Final(call[c].lease)
  BY <1>1, <1>2, <1>6, ReturnKeeps DEF EnsureCompletionChapter
<1> QED
  BY <1>4, <1>5, <1>6

LEMMA LeaseLostKeeps ==
  ASSUME IInv, NEW c \in Call, LeaseLost(c)
  PROVE  IInv'
<1>1. ~At(c, "complete", "result")
  BY DEF LeaseLost, At
<1> QED
  BY <1>1, ReturnKeeps DEF LeaseLost

-----------------------------------------------------------------------------
(* Steps that write one record                                             *)

\* They return from their call, if they have one, and contest the job if another
\* submission or commit of it is on its way.
LEMMA WriteKeeps ==
  ASSUME IInv, NEW j \in Job, NEW n \in 1 .. Len(rec[j]), NEW r \in Record, NEW c,
         rec' = [rec EXCEPT ![j][n] = r], UNCHANGED <<story, grant>>,
         r.status = "active" <=> r.lease # NoLease,
         r.lease # NoLease => r.lease = rec[j][n].lease,
         r.task < MaxChapters,
         rec[j][n].result => r.result,
         \/ c = NoCall /\ call' = call
         \/ c \in Call /\ Return(c) /\ ~At(c, "complete", "result"),
         Contest(c, j),
         done' = done \/ done' = done \cup {j},
         j \in done' /\ j \notin contested /\ n = Len(rec[j]) => r.status \in Terminal,
         r.status = "completed" /\ n = Len(rec[j]) =>
           \/ rec[j][n].status = "completed"
           \/ /\ \E m \in DOMAIN story[j] : story[j][m].kind = "final"
              /\ HasOutcome(j)
  PROVE  IInv'
<1>1. /\ TypeOK /\ InPlace
      /\ \A i \in Job : \A m \in 1 .. Len(rec[i]) :
           rec'[i][m] = IF i = j /\ m = n THEN r ELSE rec[i][m]
  BY WriteShape DEF IInv
<1>2. /\ contested \subseteq contested' /\ contested' \subseteq Job
      /\ \A d \in Call \ {c} : Delicate(d, j) => j \in contested'
  BY <1>1, Contested
<1>3. /\ DOMAIN call' = Call
      /\ \A d \in Call :
           \/ call'[d] = call[d] /\ d # c
           \/ call'[d] = Idle /\ ~At(d, "complete", "result")
  BY <1>1, ToyAssumption DEF TypeOK, Return
<1>4. \A d \in Call : call'[d] = Idle => call'[d] \in CallState /\ CallSound(call[d])'
  <2> SUFFICES ASSUME NEW d \in Call, call'[d] = Idle
               PROVE  call'[d] \in CallState /\ CallSound(call[d])'
    OBVIOUS
  <2> QED
    BY IdleFacts DEF CallSound
<1>5. \A i \in Job : /\ Known(i)' <=> Known(i)
                     /\ Known(i) => /\ Now(i)' = rec'[i][Len(rec[i])]
                                    /\ Now(i) = rec[i][Len(rec[i])]
                                    /\ Len(rec[i]) \in 1 .. Len(rec[i])
  BY <1>1, InPlaceFacts, Shapes
<1>6. Known(j)
  BY <1>1, Shapes
<1>7. n # Len(rec[j]) => j \in contested
  BY <1>1, Shapes DEF IInv, OneRecord
<1>8. \A i \in Job : \A m \in 1 .. Len(rec[i]) :
        /\ rec'[i][m].status = "active" <=> rec'[i][m].lease # NoLease
        /\ rec'[i][m].lease # NoLease => grant'[rec'[i][m].lease] = i
        /\ rec'[i][m].task < MaxChapters
        /\ rec[i][m].result => rec'[i][m].result
  BY <1>1, Shapes DEF IInv, TypeOK, RecordSound
<1>9. \A i \in Job \ {j} : Known(i) => Now(i)' = Now(i)
  BY <1>1, <1>5
<1>10. Now(j)' = r \/ (j \in contested /\ Now(j)' = Now(j))
  BY <1>1, <1>5, <1>6, <1>7
<1>11. SubmitMet'
  <2> SUFFICES ASSUME NEW d \in Call, NEW i, i = call'[d].job,
                      call'[d].op = "submit", Known(i)'
               PROVE  i \in contested'
    BY DEF SubmitMet, Known
  <2>1. call'[d] = call[d]
    BY <1>3, IdleFacts
  <2>2. i \in Job
    BY <2>1 DEF IInv, CallSound
  <2> QED
    BY <1>2, <1>5, <2>1, <2>2 DEF IInv, SubmitMet
<1>12. CommitClean'
  <2> SUFFICES ASSUME NEW d \in Call, NEW i, i = call'[d].job,
                      call'[d].op = "commit", i \notin contested'
               PROVE  Now(i)'.status \notin Terminal \cup {"active"}
    BY DEF CommitClean, Now
  <2>1. call'[d] = call[d] /\ d # c
    BY <1>3, IdleFacts
  <2>2. i \in Job /\ Known(i)
    BY <2>1 DEF IInv, CallSound
  <2>3. i # j
    BY <1>2, <2>1 DEF Delicate
  <2>4. Now(i)' = Now(i)
    BY <1>9, <2>2, <2>3
  <2>5. Now(i).status \notin Terminal \cup {"active"}
    BY <1>2, <2>1 DEF IInv, CommitClean
  <2> QED
    BY <2>4, <2>5
<1>13. DoneStays'
  <2> SUFFICES ASSUME NEW i \in Job, i \in done', i \notin contested'
               PROVE  Now(i)'.status \in Terminal
    BY <1>1 DEF DoneStays, IInv, TypeOK
  <2>1. CASE i = j
    BY <1>2, <1>5, <1>6, <1>7, <1>1, <2>1
  <2>2. CASE i # j
    BY <1>2, <1>9, <2>2 DEF IInv, DoneStays, DoneKnown
  <2> QED
    BY <2>1, <2>2
<1>14. \A i \in Job : Known(i) /\ Now(i)'.status = "completed" =>
         \/ Now(i).status = "completed"
         \/ /\ \E m \in DOMAIN story[i] : story[i][m].kind = "final"
            /\ HasOutcome(i)
  BY <1>1, <1>5, <1>9
<1>15. done' \subseteq Job /\ \A i \in done' : Known(i)
  BY <1>1, <1>6 DEF IInv, TypeOK, DoneKnown
<1>16. /\ grant' \in [LeaseId -> Job \cup {NoJob}]
       /\ \A l \in LeaseId : grant'[l] = grant[l]
  BY <1>1 DEF TypeOK
<1>17. \A d \in Call :
         \/ call'[d] = call[d]
         \/ /\ call'[d] \in CallState /\ CallSound(call[d])'
            /\ At(d, "complete", "result") => rec'[call[d].job][call[d].to].result
  BY <1>3, <1>4
<1> QED
  BY <1>1, <1>2, <1>3, <1>8, <1>11, <1>12, <1>13, <1>14, <1>15, <1>16, <1>17,
     InPlaceKeeps

\* Whatever the state of the job, it is at an end then.
LEMMA CancelKeeps ==
  ASSUME IInv, NEW j \in Job, CancelJob(j)
  PROVE  IInv'
<1> DEFINE n == Len(rec[j])
           r == [Now(j) EXCEPT !.status = "cancelled", !.lease = NoLease]
<1>1. TypeOK /\ Known(j) /\ UNCHANGED <<story, call, grant>> /\ done' = done \cup {j}
  BY DEF IInv, CancelJob
<1>2. Now(j) = rec[j][n] /\ n \in 1 .. n /\ Now(j) \in Record
  BY <1>1, Shapes
<1>3. /\ r \in Record /\ r.status = "cancelled" /\ r.lease = NoLease
      /\ r.task = rec[j][n].task /\ r.result = rec[j][n].result
  BY <1>2 DEF Record, Status, Terminal
<1>4. rec' = [rec EXCEPT ![j][n] = r] /\ Contest(NoCall, j)
  BY DEF CancelJob, Write
<1>5. rec[j][n].task < MaxChapters
  BY <1>1, <1>2, Shapes DEF IInv, RecordSound
<1> HIDE DEF r
<1>6. rec[j][n].result => r.result
  BY <1>3
<1>7. r.status = "active" <=> r.lease # NoLease
  BY <1>3
<1> QED
  BY <1>1, <1>2, <1>3, <1>4, <1>5, <1>6, <1>7, WriteKeeps DEF Terminal

\* A job that is done is not active, if nothing has contested it.
LEMMA RescheduleKeeps ==
  ASSUME IInv, NEW l \in LeaseId, NEW o \in 0 .. MaxChapters, NEW for \in SUBSET Job,
         NEW later \in BOOLEAN, RescheduleLease(l, o, for, later)
  PROVE  IInv'
<1>1. /\ TypeOK /\ grant[l] # NoJob /\ UNCHANGED <<story, call, grant, done>>
      /\ o < MaxChapters
  BY DEF IInv, RescheduleLease
<1>2. PICK j \in Job : j = grant[l] /\ Known(j)
  BY <1>1 DEF TypeOK, IInv, GrantSound
<1> DEFINE n == Len(rec[j])
           s == IF for # {} THEN "pending_jobs"
                ELSE IF later THEN "awaiting_future" ELSE "ready"
           r == [Now(j) EXCEPT !.lease = NoLease, !.task = o, !.waitFor = for,
                               !.status = s]
<1>3. Now(j) = rec[j][n] /\ n \in 1 .. n /\ Now(j) \in Record
  BY <1>1, <1>2, Shapes
<1>4. /\ r \in Record /\ r.status \notin Terminal \cup {"active"}
      /\ r.lease = NoLease /\ r.task = o /\ r.result = rec[j][n].result
  BY <1>3 DEF Record, Status, Terminal
<1>5. rec' = [rec EXCEPT ![j][n] = r] /\ Contest(NoCall, j)
  BY <1>2 DEF RescheduleLease, Write, Rescheduled
<1>6. j \in done => j \in contested
  <2>1. Now(j).lease = l
    BY <1>2 DEF RescheduleLease
  <2>2. Now(j).status = "active"
    BY <1>1, <1>3, <2>1, Shapes, ToyAssumption DEF TypeOK
  <2> QED
    BY <2>2 DEF IInv, DoneStays, Terminal
<1> HIDE DEF r
<1>7. r.status = "active" <=> r.lease # NoLease
  BY <1>4
<1>8. r.status # "completed"
  BY <1>4 DEF Terminal
<1>9. rec[j][n].result => r.result
  BY <1>4
<1> QED
  BY <1>1, <1>3, <1>4, <1>5, <1>6, <1>7, <1>8, <1>9, WriteKeeps

\* A call at its last section has its final chapter, and so the outcome is in the
\* record or about to be put there.
LEMMA CompleteKeeps ==
  ASSUME IInv, NEW c \in Call, NEW status \in Terminal, CompleteLease(c, status)
  PROVE  IInv'
<1>1. /\ TypeOK /\ CallSound(call[c]) /\ call[c] \in CallState
      /\ call[c].op = "complete" /\ call[c].pc = "finish"
      /\ UNCHANGED <<story, grant>> /\ Return(c)
  BY DEF IInv, TypeOK, CompleteLease, At
<1>2. PICK j \in Job : j = call[c].job
  BY <1>1 DEF CallSound
<1>3. PICK n \in 1 .. Len(rec[j]) : n = call[c].at
  BY <1>1, <1>2, Shapes DEF CallSound
<1> DEFINE r == [rec[j][n] EXCEPT !.status = status, !.lease = NoLease]
<1>4. rec[j][n] \in Record /\ rec[j][n].task < MaxChapters
  BY <1>1, Shapes DEF IInv, RecordSound
<1>5. /\ r \in Record /\ r.status = status
      /\ r.lease = NoLease /\ r.task = rec[j][n].task /\ r.result = rec[j][n].result
  BY <1>4 DEF Record, Status
<1>6. rec' = [rec EXCEPT ![j][n] = r]
  BY <1>1, <1>2, <1>3 DEF CompleteLease, TypeOK
<1>7. Contest(c, j) /\ done' = done \cup {j}
  BY <1>2 DEF CompleteLease
<1>8. HasOutcome(j) /\ \E m \in DOMAIN story[j] : story[j][m].kind = "final"
  <2>1. PICK m \in DOMAIN story[j], l \in LeaseId : story[j][m] = Final(l) /\ grant[l] = j
    <3>1. /\ call[c].lease \in LeaseId /\ grant[call[c].lease] = j
          /\ call[c].ord \in Nat /\ call[c].ord + 1 \in 1 .. Len(story[j])
          /\ story[j][call[c].ord + 1] = Final(call[c].lease)
      BY <1>1, <1>2, Shapes, ToyAssumption DEF CallSound, CallState
    <3> QED
      BY <1>1, <3>1, Shapes
  <2> QED
    BY <2>1, Chapters DEF IInv, FinalHasOutcome
<1>9. ~At(c, "complete", "result")
  BY <1>1 DEF At
<1> HIDE DEF r
<1>10. r.status = "active" <=> r.lease # NoLease
  BY <1>5 DEF Terminal
<1>11. rec[j][n].result => r.result
  BY <1>5
<1> QED
  BY <1>1, <1>4, <1>5, <1>6, <1>7, <1>8, <1>9, <1>10, <1>11, WriteKeeps

\* A commit that nothing has contested finds its job waiting.
LEMMA ResumeKeeps ==
  ASSUME IInv, NEW c \in Call, ResumeJob(c)
  PROVE  IInv'
<1>1. /\ TypeOK /\ CallSound(call[c]) /\ call[c].op = "commit" /\ call[c].pc = "finish"
      /\ UNCHANGED <<story, grant, done>> /\ Return(c)
  BY DEF IInv, ResumeJob, At
<1>2. PICK j \in Job : j = call[c].job /\ Known(j)
  BY <1>1 DEF CallSound
<1> DEFINE n == Len(rec[j])
<1>3. PICK q \in Record : q = Now(j) /\ q = rec[j][n] /\ n \in 1 .. n
  BY <1>1, <1>2, Shapes
<1> DEFINE r == [q EXCEPT !.status = "ready", !.lease = NoLease, !.task = 0]
<1>4. /\ r \in Record /\ r.status = "ready" /\ r.lease = NoLease
      /\ r.task = 0 /\ r.result = rec[j][n].result
  <2>1. 0 \in 0 .. MaxChapters
    BY ToyAssumption
  <2> QED
    BY <1>3, <2>1 DEF Record, Status
<1>5. rec' = [rec EXCEPT ![j][n] = r] /\ Contest(c, j)
  BY <1>2, <1>3 DEF ResumeJob, Write
<1>6. j \in done => j \in contested
  BY <1>1, <1>2 DEF IInv, CommitClean, DoneStays
<1>7. ~At(c, "complete", "result")
  BY <1>1 DEF At
<1> HIDE DEF r
<1>8. r.status = "active" <=> r.lease # NoLease
  BY <1>4
<1>9. r.task < MaxChapters
  BY <1>4, ToyAssumption
<1>10. rec[j][n].result => r.result
  BY <1>4
<1> QED
  BY <1>1, <1>3, <1>4, <1>5, <1>6, <1>7, <1>8, <1>9, <1>10, WriteKeeps

LEMMA StoreResultKeeps ==
  ASSUME IInv, NEW c \in Call, StoreResult(c)
  PROVE  IInv'
<1>1. /\ TypeOK /\ CallSound(call[c]) /\ call[c] \in CallState
      /\ call[c].op = "complete" /\ call[c].pc = "result"
      /\ UNCHANGED <<story, grant, done, contested>>
      /\ call' = [call EXCEPT ![c].pc = "finish"]
  BY DEF IInv, TypeOK, StoreResult, At
<1>2. PICK j \in Job : j = call[c].job
  BY <1>1 DEF CallSound
<1>3. PICK n \in 1 .. Len(rec[j]) : n = call[c].to
  BY <1>1, <1>2, Shapes DEF CallSound
<1> DEFINE r == [rec[j][n] EXCEPT !.result = TRUE]
           k == [call[c] EXCEPT !.pc = "finish"]
<1>4. /\ r \in Record /\ r.result /\ r.status = rec[j][n].status
      /\ r.lease = rec[j][n].lease /\ r.task = rec[j][n].task
  <2>1. PICK q \in Record : q = rec[j][n]
    BY <1>1, Shapes
  <2>2. r = [q EXCEPT !.result = TRUE]
    BY <2>1
  <2>3. r \in Record /\ r.status = q.status /\ r.lease = q.lease /\ r.task = q.task
    BY <2>2 DEF Record
  <2>4. r.result
    BY <2>2 DEF Record
  <2> QED
    BY <2>1, <2>3, <2>4
<1>5. rec' = [rec EXCEPT ![j][n] = r]
  BY <1>1, <1>2, <1>3 DEF StoreResult, TypeOK
<1>6. /\ k \in CallState /\ k.op = "complete" /\ k.pc = "finish" /\ k.job = j
      /\ k.ord = call[c].ord /\ k.lease = call[c].lease /\ k.at = call[c].at
  BY <1>1, <1>2 DEF CallState, PC
<1>7. /\ DOMAIN call' = Call /\ call'[c] = k
      /\ \A d \in Call \ {c} : call'[d] = call[d]
  BY <1>1 DEF TypeOK
<1> HIDE DEF r, k
<1>8. /\ InPlace
      /\ \A i \in Job : \A m \in 1 .. Len(rec[i]) :
           rec'[i][m] = IF i = j /\ m = n THEN r ELSE rec[i][m]
  BY <1>1, <1>4, <1>5, WriteShape
<1>9. CallSound(call[c])'
  <2>1. /\ Known(j)' <=> Known(j)
        /\ DOMAIN rec'[j] = DOMAIN rec[j]
    BY <1>1, <1>8, InPlaceFacts, Shapes
  <2> QED
    BY <1>1, <1>2, <1>6, <1>7, <2>1 DEF CallSound, Known
<1>10. \A i \in Job : Known(i) => Now(i)'.status = Now(i).status
  <2> SUFFICES ASSUME NEW i \in Job, Known(i)
               PROVE  Now(i)'.status = Now(i).status
    OBVIOUS
  <2>1. /\ Now(i)' = rec'[i][Len(rec[i])] /\ Now(i) = rec[i][Len(rec[i])]
        /\ Len(rec[i]) \in 1 .. Len(rec[i])
    BY <1>1, <1>8, InPlaceFacts, Shapes
  <2> QED
    BY <1>4, <1>8, <2>1
<1>11. \A i \in Job : \A m \in 1 .. Len(rec[i]) :
         /\ rec'[i][m].status = "active" <=> rec'[i][m].lease # NoLease
         /\ rec'[i][m].lease # NoLease => grant'[rec'[i][m].lease] = i
         /\ rec'[i][m].task < MaxChapters
         /\ rec[i][m].result => rec'[i][m].result
  <2> SUFFICES ASSUME NEW i \in Job, NEW m \in 1 .. Len(rec[i])
               PROVE  /\ rec'[i][m].status = "active" <=> rec'[i][m].lease # NoLease
                      /\ rec'[i][m].lease # NoLease => grant[rec'[i][m].lease] = i
                      /\ rec'[i][m].task < MaxChapters
                      /\ rec[i][m].result => rec'[i][m].result
    BY <1>1
  <2>1. /\ rec[i][m].status = "active" <=> rec[i][m].lease # NoLease
        /\ rec[i][m].lease # NoLease => grant[rec[i][m].lease] = i
        /\ rec[i][m].task < MaxChapters
    BY <1>1, Shapes DEF IInv, TypeOK, RecordSound
  <2>2. CASE i = j /\ m = n
    <3>1. rec'[i][m] = r
      BY <1>8, <2>2
    <3> QED
      BY <1>4, <2>1, <2>2, <3>1
  <2>3. CASE ~(i = j /\ m = n)
    <3>1. rec'[i][m] = rec[i][m]
      BY <1>8, <2>3
    <3> QED
      BY <2>1, <3>1
  <2> QED
    BY <2>2, <2>3
<1>12. SubmitMet'
  <2> SUFFICES ASSUME NEW d \in Call, NEW i, i = call'[d].job,
                      call'[d].op = "submit", Known(i)'
               PROVE  i \in contested'
    BY DEF SubmitMet, Known
  <2>1. call'[d] = call[d]
    BY <1>6, <1>7
  <2>2. i \in Job
    BY <2>1 DEF IInv, CallSound
  <2> QED
    BY <1>1, <1>8, <2>1, <2>2, InPlaceFacts DEF IInv, SubmitMet
<1>13. CommitClean'
  <2> SUFFICES ASSUME NEW d \in Call, NEW i, i = call'[d].job,
                      call'[d].op = "commit", i \notin contested'
               PROVE  Now(i)'.status \notin Terminal \cup {"active"}
    BY DEF CommitClean, Now
  <2>1. call'[d] = call[d]
    BY <1>6, <1>7
  <2>2. i \in Job /\ Known(i)
    BY <2>1 DEF IInv, CallSound
  <2>3. Now(i).status \notin Terminal \cup {"active"}
    BY <1>1, <2>1 DEF IInv, CommitClean
  <2> QED
    BY <1>10, <2>2, <2>3
<1>14. DoneStays'
  <2> SUFFICES ASSUME NEW i \in Job, i \in done, i \notin contested
               PROVE  Now(i)'.status \in Terminal
    BY <1>1 DEF DoneStays, IInv, TypeOK
  <2> QED
    BY <1>10 DEF IInv, DoneStays, DoneKnown
<1>15. At(c, "complete", "result") => rec'[call[c].job][call[c].to].result
  BY <1>2, <1>3, <1>4, <1>8
<1>16. \A d \in Call :
         \/ call'[d] = call[d]
         \/ /\ call'[d] \in CallState /\ CallSound(call[d])'
            /\ At(d, "complete", "result") => rec'[call[d].job][call[d].to].result
  <2> SUFFICES ASSUME NEW d \in Call, call'[d] # call[d]
               PROVE  /\ call'[d] \in CallState /\ CallSound(call[d])'
                      /\ At(d, "complete", "result") =>
                           rec'[call[d].job][call[d].to].result
    OBVIOUS
  <2>1. d = c
    BY <1>7
  <2> QED
    BY <2>1, <1>6, <1>7, <1>9, <1>15
<1>17. /\ grant' \in [LeaseId -> Job \cup {NoJob}]
       /\ \A l \in LeaseId : grant'[l] = grant[l]
       /\ done' \subseteq Job /\ contested' \subseteq Job
       /\ \A i \in done' : Known(i)
  BY <1>1 DEF TypeOK, IInv, DoneKnown
<1> QED
  BY <1>1, <1>7, <1>8, <1>10, <1>11, <1>12, <1>13, <1>14, <1>16, <1>17, InPlaceKeeps

-----------------------------------------------------------------------------
(* A poll writes many records                                              *)

LEMMA AdvanceFacts ==
  ASSUME NEW r \in Record, NEW due \in BOOLEAN, r.status \notin Terminal \cup {"active"}
  PROVE  /\ Advance(r, due) \in Record
         /\ Advance(r, due).status \notin Terminal \cup {"active"}
         /\ Advance(r, due).lease = r.lease /\ Advance(r, due).task = r.task
         /\ Advance(r, due).result = r.result
<1> DEFINE a == [r EXCEPT !.status = "ready"]
           b == [r EXCEPT !.status = "ready", !.waitFor = {}]
<1>1. /\ a \in Record /\ a.status \notin Terminal \cup {"active"}
      /\ a.lease = r.lease /\ a.task = r.task /\ a.result = r.result
  BY DEF Record, Status, Terminal
<1>2. /\ b \in Record /\ b.status \notin Terminal \cup {"active"}
      /\ b.lease = r.lease /\ b.task = r.task /\ b.result = r.result
  BY DEF Record, Status, Terminal
<1>3. Advance(r, due) \in {a, b, r}
  BY DEF Advance
<1> HIDE DEF a, b
<1> QED
  BY <1>1, <1>2, <1>3

\* What a poll makes of a record that it looks at
Polled(r, due, l, i, taken) ==
  IF i \in taken THEN [Advance(r, due) EXCEPT !.status = "active", !.lease = l]
  ELSE Advance(r, due)

LEMMA PolledFacts ==
  ASSUME NEW r \in Record, NEW due \in BOOLEAN, NEW l \in LeaseId, NEW i, NEW taken,
         r.status \notin Terminal \cup {"active"}, r.lease = NoLease
  PROVE  /\ Polled(r, due, l, i, taken) \in Record
         /\ Polled(r, due, l, i, taken).lease = IF i \in taken THEN l ELSE NoLease
         /\ i \in taken => Polled(r, due, l, i, taken).status = "active"
         /\ i \notin taken => Polled(r, due, l, i, taken).status \notin Terminal \cup {"active"}
         /\ Polled(r, due, l, i, taken).task = r.task
         /\ Polled(r, due, l, i, taken).result = r.result
<1>1. PICK a \in Record :
        /\ a = Advance(r, due) /\ a.status \notin Terminal \cup {"active"}
        /\ a.lease = NoLease /\ a.task = r.task /\ a.result = r.result
  BY AdvanceFacts
<1> DEFINE b == [a EXCEPT !.status = "active", !.lease = l]
<1>2. /\ b \in Record /\ b.status = "active" /\ b.lease = l
      /\ b.task = a.task /\ b.result = a.result
  BY DEF Record, Status
<1>3. Polled(r, due, l, i, taken) = IF i \in taken THEN b ELSE a
  BY <1>1 DEF Polled
<1> HIDE DEF b
<1>4. CASE i \in taken
  BY <1>1, <1>2, <1>3, <1>4
<1>5. CASE i \notin taken
  BY <1>1, <1>3, <1>5
<1> QED
  BY <1>4, <1>5

PollMakes(looked, taken, l, due) ==
  /\ InPlace
  /\ \A i \in Job : \A n \in 1 .. Len(rec[i]) :
       rec'[i][n] = IF i \in looked /\ n = Len(rec[i])
                    THEN Polled(Now(i), due, l, i, taken) ELSE rec[i][n]
  /\ \A i \in looked : /\ Known(i) /\ Now(i).status \notin Terminal \cup {"active"}
                       /\ Now(i) \in Record /\ Now(i).lease = NoLease

LEMMA PollShape ==
  ASSUME TypeOK, NEW looked \in SUBSET Job, NEW taken, NEW l \in LeaseId, NEW due \in BOOLEAN,
         PollWork(looked, taken, l, due)
  PROVE  PollMakes(looked, taken, l, due)
<1>1. \A i \in looked : /\ Known(i) /\ Now(i).status \notin Terminal \cup {"active"}
                        /\ Now(i) \in Record /\ Now(i).lease = NoLease
  <2> SUFFICES ASSUME NEW i \in looked
               PROVE  /\ Known(i) /\ Now(i).status \notin Terminal \cup {"active"}
                      /\ Now(i) \in Record /\ Now(i).lease = NoLease
    OBVIOUS
  <2>1. Known(i) /\ Now(i).status \notin Terminal \cup {"active"}
    BY DEF PollWork
  <2> QED
    BY <2>1, Shapes DEF TypeOK
<1>2. ASSUME NEW i \in looked
      PROVE  /\ rec'[i] \in Seq(Record) /\ Len(rec'[i]) = Len(rec[i])
             /\ \A n \in 1 .. Len(rec[i]) :
                  rec'[i][n] = IF n = Len(rec[i])
                               THEN Polled(Now(i), due, l, i, taken) ELSE rec[i][n]
  <2>1. PICK m \in 1 .. Len(rec[i]) : m = Len(rec[i]) /\ Now(i) = rec[i][m]
    BY <1>1, Shapes
  <2>2. PICK r \in Record : r = Polled(Now(i), due, l, i, taken)
    BY <1>1, PolledFacts
  <2>3. rec'[i] = [rec[i] EXCEPT ![m] = r]
    BY <2>1, <2>2 DEF PollWork, Polled
  <2>4. rec[i] \in Seq(Record)
    BY DEF TypeOK
  <2> QED
    BY <2>1, <2>2, <2>3, <2>4, ExceptSeq
<1>3. \A i \in Job \ looked : rec'[i] = rec[i]
  BY DEF PollWork
<1>4. rec' \in [Job -> Seq(Record)]
  <2>1. \A i \in Job : rec'[i] \in Seq(Record)
    BY <1>2, <1>3 DEF TypeOK
  <2>2. rec' = [i \in Job |-> rec'[i]]
    BY DEF PollWork
  <2> QED
    BY <2>1, <2>2
<1>5. story' = story
  BY DEF PollWork
<1> QED
  BY <1>1, <1>2, <1>3, <1>4, <1>5 DEF InPlace, PollMakes

LEMMA PollKeeps ==
  ASSUME IInv, NEW looked \in SUBSET Job, NEW taken \in {{}} \cup {{j} : j \in looked},
         NEW l \in LeaseId, NEW due \in BOOLEAN, PollWork(looked, taken, l, due)
  PROVE  IInv'
<1>1. /\ TypeOK /\ taken \subseteq looked /\ UNCHANGED <<story, call, done>>
      /\ grant[l] = NoJob
  BY DEF IInv, PollWork
<1>2. /\ InPlace
      /\ \A i \in Job : \A n \in 1 .. Len(rec[i]) :
           rec'[i][n] = IF i \in looked /\ n = Len(rec[i])
                        THEN Polled(Now(i), due, l, i, taken) ELSE rec[i][n]
      /\ \A i \in looked : /\ Known(i) /\ Now(i).status \notin Terminal \cup {"active"}
                           /\ Now(i) \in Record /\ Now(i).lease = NoLease
  <2>1. PollMakes(looked, taken, l, due)
    BY <1>1, PollShape
  <2> QED
    BY <2>1 DEF PollMakes
<1>3. /\ contested \subseteq contested' /\ contested' \subseteq Job
      /\ \A i \in taken : \A d \in Call : Delicate(d, i) => i \in contested'
  BY <1>1 DEF PollWork, TypeOK
<1>4. /\ grant' \in [LeaseId -> Job \cup {NoJob}]
      /\ \A m \in LeaseId : m # l => grant'[m] = grant[m]
      /\ taken = {} => grant'[l] = grant[l]
      /\ \A i \in taken : grant'[l] = i
  <2>1. CASE taken = {}
    BY <1>1, <2>1 DEF TypeOK, PollWork
  <2>2. ASSUME NEW i \in looked, taken = {i}
        PROVE  /\ grant' \in [LeaseId -> Job \cup {NoJob}]
               /\ \A m \in LeaseId : m # l => grant'[m] = grant[m]
               /\ grant'[l] = i
    <3>1. (CHOOSE q \in taken : TRUE) = i
      BY <2>2
    <3>2. grant' = [grant EXCEPT ![l] = i]
      BY <2>2, <3>1 DEF PollWork
    <3> QED
      BY <1>1, <3>2 DEF TypeOK
  <2> QED
    BY <2>1, <2>2
<1>5. \A i \in Job : /\ Known(i)' <=> Known(i)
                     /\ Known(i) => /\ Now(i)' = rec'[i][Len(rec[i])]
                                    /\ Now(i) = rec[i][Len(rec[i])]
                                    /\ Len(rec[i]) \in 1 .. Len(rec[i])
  BY <1>1, <1>2, InPlaceFacts, Shapes
<1>6. \A i \in looked : \A n \in 1 .. Len(rec[i]) : n = Len(rec[i]) =>
        /\ rec'[i][n].lease = IF i \in taken THEN l ELSE NoLease
        /\ i \in taken => rec'[i][n].status = "active"
        /\ i \notin taken => rec'[i][n].status \notin Terminal \cup {"active"}
        /\ rec'[i][n].task = rec[i][n].task
        /\ rec'[i][n].result = rec[i][n].result
  <2> SUFFICES ASSUME NEW i \in looked, NEW n \in 1 .. Len(rec[i]), n = Len(rec[i])
               PROVE  /\ rec'[i][n].lease = IF i \in taken THEN l ELSE NoLease
                      /\ i \in taken => rec'[i][n].status = "active"
                      /\ i \notin taken => rec'[i][n].status \notin Terminal \cup {"active"}
                      /\ rec'[i][n].task = rec[i][n].task
                      /\ rec'[i][n].result = rec[i][n].result
    OBVIOUS
  <2>1. PICK r \in Record :
          /\ r = Now(i) /\ r = rec[i][n] /\ r.lease = NoLease
          /\ r.status \notin Terminal \cup {"active"}
    BY <1>2, <1>5
  <2>2. rec'[i][n] = Polled(r, due, l, i, taken)
    BY <1>2, <2>1
  <2> QED
    BY <2>1, <2>2, PolledFacts
<1>7. \A i \in Job : \A n \in 1 .. Len(rec[i]) :
        /\ rec'[i][n].status = "active" <=> rec'[i][n].lease # NoLease
        /\ rec'[i][n].lease # NoLease => grant'[rec'[i][n].lease] = i
        /\ rec'[i][n].task < MaxChapters
        /\ rec[i][n].result => rec'[i][n].result
  <2> SUFFICES ASSUME NEW i \in Job, NEW n \in 1 .. Len(rec[i])
               PROVE  /\ rec'[i][n].status = "active" <=> rec'[i][n].lease # NoLease
                      /\ rec'[i][n].lease # NoLease => grant'[rec'[i][n].lease] = i
                      /\ rec'[i][n].task < MaxChapters
                      /\ rec[i][n].result => rec'[i][n].result
    OBVIOUS
  <2>1. /\ rec[i][n].status = "active" <=> rec[i][n].lease # NoLease
        /\ rec[i][n].lease # NoLease => grant[rec[i][n].lease] = i
        /\ rec[i][n].task < MaxChapters /\ rec[i][n] \in Record
    BY <1>1, Shapes DEF IInv, TypeOK, RecordSound
  <2>2. CASE i \in looked /\ n = Len(rec[i])
    <3>1. /\ rec'[i][n].status = "active" <=> rec'[i][n].lease # NoLease
          /\ rec'[i][n].lease # NoLease => grant'[rec'[i][n].lease] = i
      BY <1>4, <1>6, <2>2, ToyAssumption
    <3> QED
      BY <1>6, <2>1, <2>2, <3>1
  <2>3. CASE ~(i \in looked /\ n = Len(rec[i]))
    <3>1. rec'[i][n] = rec[i][n]
      BY <1>2, <2>3
    <3>2. rec[i][n].lease # NoLease => grant'[rec[i][n].lease] = i
      BY <1>1, <1>4, <2>1, ToyAssumption DEF Record
    <3> QED
      BY <2>1, <3>1, <3>2
  <2> QED
    BY <2>2, <2>3
<1>8. \A i \in Job : Known(i) =>
        /\ i \notin looked => Now(i)' = Now(i)
        /\ i \in looked => Now(i)'.status \notin Terminal
        /\ i \notin taken /\ Now(i).status \notin Terminal \cup {"active"} =>
             Now(i)'.status \notin Terminal \cup {"active"}
  BY <1>2, <1>5, <1>6 DEF Terminal
<1>9. SubmitMet'
  <2> SUFFICES ASSUME NEW d \in Call, NEW i, i = call[d].job,
                      call[d].op = "submit", Known(i)'
               PROVE  i \in contested'
    BY <1>1 DEF SubmitMet, Known
  <2>1. i \in Job
    BY DEF IInv, CallSound
  <2> QED
    BY <1>3, <1>5, <2>1 DEF IInv, SubmitMet
<1>10. CommitClean'
  <2> SUFFICES ASSUME NEW d \in Call, NEW i, i = call[d].job,
                      call[d].op = "commit", i \notin contested'
               PROVE  Now(i)'.status \notin Terminal \cup {"active"}
    BY <1>1 DEF CommitClean, Now
  <2>1. i \in Job /\ Known(i)
    BY DEF IInv, CallSound
  <2>2. i \notin taken
    BY <1>3 DEF Delicate
  <2>3. Now(i).status \notin Terminal \cup {"active"}
    BY <1>3 DEF IInv, CommitClean
  <2> QED
    BY <1>8, <2>1, <2>2, <2>3
<1>11. DoneStays'
  <2> SUFFICES ASSUME NEW i \in Job, i \in done, i \notin contested'
               PROVE  Now(i)'.status \in Terminal
    BY <1>1 DEF DoneStays, IInv, TypeOK
  <2>1. Known(i) /\ Now(i).status \in Terminal
    BY <1>3 DEF IInv, DoneStays, DoneKnown
  <2> QED
    BY <1>2, <1>8, <2>1
<1>12. \A i \in Job : Known(i) /\ Now(i)'.status = "completed" =>
         Now(i).status = "completed"
  BY <1>8 DEF Terminal
<1>13. \A m \in LeaseId : \/ grant'[m] = grant[m]
                          \/ grant[m] = NoJob /\ Known(grant'[m])
  <2>1. taken # {} => \E i \in taken : TRUE
    OBVIOUS
  <2> QED
    BY <1>1, <1>2, <1>4, <2>1
<1>14. /\ DOMAIN call' = Call /\ \A d \in Call : call'[d] = call[d]
       /\ done' \subseteq Job /\ \A i \in done' : Known(i)
  BY <1>1 DEF TypeOK, IInv, DoneKnown
<1> QED
  BY <1>2, <1>3, <1>4, <1>7, <1>9, <1>10, <1>11, <1>12, <1>13, <1>14, InPlaceKeeps

-----------------------------------------------------------------------------
(* A chapter is stored                                                     *)

LEMMA AppendShape ==
  ASSUME TypeOK, NEW j \in Job, NEW ch \in Chapter,
         story' = [story EXCEPT ![j] = Append(@, ch)]
  PROVE  /\ story' \in [Job -> Seq(Chapter)]
         /\ \A i \in Job \ {j} : story'[i] = story[i]
         /\ Len(story'[j]) = Len(story[j]) + 1
         /\ \A n \in 1 .. Len(story[j]) : story'[j][n] = story[j][n]
         /\ story'[j][Len(story[j]) + 1] = ch
<1>1. story[j] \in Seq(Chapter)
  BY DEF TypeOK
<1> DEFINE s == Append(story[j], ch)
<1>2. /\ s \in Seq(Chapter) /\ Len(s) = Len(story[j]) + 1
      /\ \A n \in 1 .. Len(story[j]) : s[n] = story[j][n]
      /\ s[Len(story[j]) + 1] = ch
  BY <1>1, AppendProperties
<1>3. story'[j] = s /\ \A i \in Job \ {j} : story'[i] = story[i]
  BY DEF TypeOK
<1>4. story' \in [Job -> Seq(Chapter)]
  BY <1>2 DEF TypeOK
<1> HIDE DEF s
<1> QED
  BY <1>2, <1>3, <1>4

LEMMA AppendKeeps ==
  ASSUME IInv, NEW c \in Call, NEW j \in Job, NEW k \in CallState, NEW ch \in Chapter,
         Known(j), Len(story[j]) < MaxChapters, ch.kind # "start",
         story' = [story EXCEPT ![j] = Append(@, ch)],
         call' = [call EXCEPT ![c] = k],
         UNCHANGED <<rec, grant, done, contested>>,
         CallSound(k)', ~At(c, "complete", "result"), k.op # "submit",
         k.op = "commit" => call[c].op = "commit" /\ k.job = call[c].job,
         \A l \in LeaseId : ch = Final(l) =>
           /\ grant[l] = j
           /\ k.op = "complete" /\ k.pc = "result" /\ k.job = j /\ k.to = Len(rec[j])
  PROVE  IInv'
<1>1. /\ TypeOK /\ DOMAIN call' = Call /\ call'[c] = k
      /\ \A d \in Call \ {c} : call'[d] = call[d]
  BY DEF IInv, TypeOK
<1>2. /\ story' \in [Job -> Seq(Chapter)]
      /\ \A i \in Job \ {j} : story'[i] = story[i]
      /\ Len(story'[j]) = Len(story[j]) + 1
      /\ \A n \in 1 .. Len(story[j]) : story'[j][n] = story[j][n]
      /\ story'[j][Len(story[j]) + 1] = ch
  BY <1>1, AppendShape
<1>3. /\ Len(story[j]) \in Nat /\ Len(story[j]) >= 1
      /\ DOMAIN story'[j] = 1 .. Len(story[j]) + 1
  <2>1. story'[j] \in Seq(Chapter)
    BY <1>2
  <2> QED
    BY <1>1, <1>2, <2>1, SeqFacts, Shapes
<1>4. \A i \in Job : /\ DOMAIN story[i] \subseteq DOMAIN story'[i]
                     /\ \A n \in DOMAIN story[i] : story'[i][n] = story[i][n]
                     /\ \A n \in DOMAIN story'[i] :
                          n \in DOMAIN story[i] \/ (i = j /\ n = Len(story[j]) + 1)
  <2> SUFFICES ASSUME NEW i \in Job
               PROVE  /\ DOMAIN story[i] \subseteq DOMAIN story'[i]
                      /\ \A n \in DOMAIN story[i] : story'[i][n] = story[i][n]
                      /\ \A n \in DOMAIN story'[i] :
                           n \in DOMAIN story[i] \/ (i = j /\ n = Len(story[j]) + 1)
    OBVIOUS
  <2>1. DOMAIN story[i] = 1 .. Len(story[i])
    BY <1>1, Shapes
  <2>2. CASE i = j
    BY <1>2, <1>3, <2>1, <2>2
  <2>3. CASE i # j
    BY <1>2, <2>3
  <2> QED
    BY <2>2, <2>3
<1>5. TypeOK'
  <2>1. \A i \in Job : /\ Len(story'[i]) <= MaxChapters
                       /\ Known(i) <=> story'[i] # <<>>
    <3> SUFFICES ASSUME NEW i \in Job
                 PROVE  Len(story'[i]) <= MaxChapters /\ (Known(i) <=> story'[i] # <<>>)
      OBVIOUS
    <3>1. CASE i = j
      <4>1. story'[j] \in Seq(Chapter)
        BY <1>2
      <4> QED
        BY <1>2, <1>3, <3>1, <4>1, SeqFacts, ToyAssumption
    <3>2. CASE i # j
      BY <1>1, <1>2, <3>2 DEF TypeOK
    <3> QED
      BY <3>1, <3>2
  <2>2. \A i \in Job : \A n \in DOMAIN story'[i] :
          n = 1 <=> story'[i][n].kind = "start"
    BY <1>1, <1>2, <1>3, <1>4 DEF TypeOK
  <2>3. \A d \in Call : call'[d] \in CallState
    BY <1>1 DEF TypeOK
  <2> QED
    BY <1>1, <1>2, <2>1, <2>2, <2>3 DEF TypeOK, Known
<1>6. Grows
  <2>1. \A i \in Job : /\ Len(story[i]) <= Len(story'[i])
                       /\ \A n \in 2 .. Len(story[i]) : story'[i][n] = story[i][n]
    BY <1>1, <1>2, <1>3, <1>4, Shapes
  <2> QED
    BY <1>1, <2>1, Shapes DEF Grows
<1>7. \A d \in Call : CallSound(call[d])'
  <2> SUFFICES ASSUME NEW d \in Call, NEW q, q = call'[d]
               PROVE  CallSound(q)'
    BY DEF CallSound, Known
  <2>1. CASE d = c
    BY <1>1, <2>1
  <2>2. CASE d # c
    BY <1>1, <1>5, <1>6, <2>2, CallStays DEF IInv, TypeOK
  <2> QED
    BY <2>1, <2>2
<1>8. Counted' /\ RecordSound' /\ OneRecord' /\ DoneKnown' /\ DoneStays'
  BY DEF IInv, Counted, Records, Made, RecordSound, OneRecord, DoneKnown, DoneStays,
         Known, Now
<1>9. GrantSound'
  BY <1>2, <1>4, ToyAssumption DEF IInv, GrantSound, Known
<1>10. SubmitMet'
  BY <1>1 DEF IInv, SubmitMet, Known
<1>11. CommitClean'
  BY <1>1 DEF IInv, CommitClean, Now
<1>12. ASSUME NEW i \in Job, HasOutcome(i)
       PROVE  HasOutcome(i)'
  <2>1. Now(i)' = Now(i)
    BY DEF Now
  <2>2. CASE Now(i).result \/ i \in contested
    BY <2>1, <2>2 DEF HasOutcome
  <2>3. ASSUME NEW d \in Call, At(d, "complete", "result"),
               call[d].job = i, call[d].to = Len(rec[i])
        PROVE  HasOutcome(i)'
    <3>1. call'[d] = call[d]
      BY <1>1, <2>3
    <3> QED
      BY <3>1, <2>3 DEF HasOutcome, At
  <2> QED
    BY <1>12, <2>2, <2>3 DEF HasOutcome
<1>13. FinalHasOutcome'
  <2> SUFFICES ASSUME NEW i \in Job, NEW n \in DOMAIN story'[i], NEW l \in LeaseId,
                      story'[i][n] = Final(l), grant[l] = i
               PROVE  HasOutcome(i)'
    BY DEF FinalHasOutcome
  <2>1. CASE n \in DOMAIN story[i]
    BY <1>4, <1>12, <2>1 DEF IInv, FinalHasOutcome
  <2>2. CASE i = j /\ n = Len(story[j]) + 1
    <3>1. k.op = "complete" /\ k.pc = "result" /\ k.job = i /\ k.to = Len(rec[i])
      BY <1>2, <2>2
    <3> QED
      BY <1>1, <3>1 DEF HasOutcome, At
  <2> QED
    BY <1>4, <2>1, <2>2
<1>14. CompletedHasOutcome'
  <2> SUFFICES ASSUME NEW i \in Job, Known(i), Now(i).status = "completed"
               PROVE  /\ \E n \in DOMAIN story'[i] : story'[i][n].kind = "final"
                      /\ HasOutcome(i)'
    BY DEF CompletedHasOutcome, HasOutcome, Known, Now
  <2>1. /\ \E n \in DOMAIN story[i] : story[i][n].kind = "final"
        /\ HasOutcome(i)
    BY DEF IInv, CompletedHasOutcome, HasOutcome
  <2> QED
    BY <1>4, <1>12, <2>1
<1> QED
  BY <1>5, <1>7, <1>8, <1>9, <1>10, <1>11, <1>13, <1>14 DEF IInv

\* A final chapter is that of its call's lease, which has the outcome in its
\* hands from there on.
LEMMA StoreChapterKeeps ==
  ASSUME IInv, NEW c \in Call, StoreChapter(c)
  PROVE  IInv'
<1>1. /\ TypeOK /\ CallSound(call[c]) /\ call[c] \in CallState /\ call[c].pc = "store"
      /\ UNCHANGED <<rec, grant, done, contested>>
  BY DEF IInv, TypeOK, StoreChapter
<1>2. ~At(c, "complete", "result")
  BY <1>1 DEF At
<1>3. call[c].op \in {"put", "complete", "commit"}
  BY <1>1, IdleFacts DEF CallSound, CallState, Op
<1>4. PICK j \in Job : j = call[c].job /\ Known(j)
  BY <1>1, <1>3 DEF CallSound
<1>5. CASE call[c].ord # Len(story[j])
  BY <1>1, <1>2, <1>4, <1>5, ReturnKeeps DEF StoreChapter
<1>6. CASE call[c].ord = Len(story[j])
  <2>1. PICK o \in 1 .. MaxChapters :
          o = call[c].ord /\ o = Len(story[j]) /\ o < MaxChapters
    BY <1>1, <1>3, <1>4, <1>6, ToyAssumption DEF CallSound, CallState
  <2>2. ASSUME NEW k \in CallState, NEW ch \in Chapter, ch.kind # "start",
               call' = [call EXCEPT ![c] = k],
               story' = [story EXCEPT ![j] = Append(@, ch)],
               CallSound(k)', k.op # "submit",
               k.op = "commit" => call[c].op = "commit" /\ k.job = call[c].job,
               \A l \in LeaseId : ch = Final(l) =>
                 /\ grant[l] = j
                 /\ k.op = "complete" /\ k.pc = "result" /\ k.job = j
                 /\ k.to = Len(rec[j])
        PROVE  IInv'
    BY <1>1, <1>2, <1>4, <2>1, <2>2, AppendKeeps
  <2>3. CASE call[c].op = "put"
    <3>1. /\ call' = [call EXCEPT ![c] = Idle]
          /\ story' = [story EXCEPT ![j] = Append(@, Work)]
      BY <1>4, <1>6, <2>3 DEF StoreChapter
    <3>2. CallSound(Idle)'
      BY IdleFacts DEF CallSound
    <3> QED
      BY <2>2, <3>1, <3>2, IdleFacts, Chapters
  <2>4. CASE call[c].op = "commit"
    <3>1. PICK k \in CallState :
            /\ k = [call[c] EXCEPT !.pc = "finish"]
            /\ k.op = "commit" /\ k.pc = "finish" /\ k.job = j /\ k.ord = o
      <4> DEFINE w == [call[c] EXCEPT !.pc = "finish"]
      <4>1. /\ w \in CallState /\ w.op = "commit" /\ w.pc = "finish" /\ w.job = j
            /\ w.ord = o
        BY <1>1, <1>4, <2>1, <2>4 DEF CallState, PC
      <4> QED
        BY <4>1
    <3>2. /\ call' = [call EXCEPT ![c] = k]
          /\ story' = [story EXCEPT ![j] = Append(@, Work)]
      BY <1>4, <1>6, <2>4, <3>1 DEF StoreChapter
    <3>3. Known(j)'
      BY <1>1, <1>4 DEF Known
    <3>4. CallSound(k)'
      BY <2>1, <3>1, <3>3 DEF CallSound, Known
    <3> QED
      BY <1>4, <2>2, <2>4, <3>1, <3>2, <3>4, Chapters
  <2>5. CASE call[c].op = "complete"
    <3>1. PICK n \in 0 .. MaxRecords : n = Len(rec[j]) /\ n \in DOMAIN rec[j]
      BY <1>1, <1>4, Shapes, ToyAssumption
    <3>2. PICK l \in LeaseId :
            l = call[c].lease /\ grant[l] = j /\ Final(l) \in Chapter
      BY <1>1, <1>4, <2>5, Chapters DEF CallSound
    <3>3. PICK k \in CallState :
            /\ k = [call[c] EXCEPT !.pc = "result", !.to = n]
            /\ k.op = "complete" /\ k.pc = "result" /\ k.job = j
            /\ k.ord = o /\ k.lease = l /\ k.at = call[c].at /\ k.to = n
      <4> DEFINE w == [call[c] EXCEPT !.pc = "result", !.to = n]
      <4>1. /\ w \in CallState /\ w.op = "complete" /\ w.pc = "result" /\ w.job = j
            /\ w.ord = o /\ w.lease = l /\ w.at = call[c].at /\ w.to = n
        BY <1>1, <1>4, <2>1, <2>5, <3>2 DEF CallState, PC
      <4> QED
        BY <4>1
    <3>4. /\ call' = [call EXCEPT ![c] = k]
          /\ story' = [story EXCEPT ![j] = Append(@, Final(l))]
      BY <1>4, <1>6, <2>5, <3>1, <3>2, <3>3 DEF StoreChapter
    <3>5. o < Len(story'[j]) /\ story'[j][o + 1] = Final(l)
      <4>1. Len(story'[j]) = Len(story[j]) + 1 /\ story'[j][Len(story[j]) + 1] = Final(l)
        BY <1>1, <3>2, <3>4, AppendShape
      <4> QED
        BY <2>1, <4>1
    <3>6. k.at \in DOMAIN rec[j] /\ Known(j)'
      BY <1>1, <1>4, <2>5, <3>3 DEF CallSound, Known
    <3>7. CallSound(k)'
      BY <1>1, <2>1, <3>1, <3>2, <3>3, <3>5, <3>6 DEF CallSound, Known
    <3>8. /\ \A m \in LeaseId : Final(l) = Final(m) => m = l
          /\ Final(l).kind # "start"
      BY Chapters
    <3>9. \A m \in LeaseId : Final(l) = Final(m) => grant[m] = j
      BY <3>2, <3>8
    <3>10. k.op # "submit" /\ k.op # "commit"
      BY <3>3
    <3> QED
      BY <2>2, <3>1, <3>2, <3>3, <3>4, <3>7, <3>8, <3>9, <3>10
  <2> QED
    BY <1>3, <2>3, <2>4, <2>5
<1> QED
  BY <1>5, <1>6

-----------------------------------------------------------------------------
(* A record is made                                                        *)

\* The records of one job are some of all the records.
LEMMA MadeBounds ==
  ASSUME TypeOK, IsFiniteSet(Records), NEW j \in Job
  PROVE  Len(rec[j]) <= Made /\ Made \in Nat
<1> DEFINE n == Len(rec[j])
           f == [m \in 1 .. n |-> <<j, m>>]
<1>1. n \in Nat /\ n <= MaxRecords
  BY Shapes
<1>2. \A m \in 1 .. n : f[m] \in Records
  BY <1>1, ToyAssumption DEF Records
<1>3. f \in Injection(1 .. n, Records)
  BY <1>2 DEF Injection, IsInjective
<1>4. Cardinality(1 .. n) <= Made
  BY <1>3, FS_Injection DEF Made
<1>5. Cardinality(1 .. n) = n
  BY <1>1, FS_Interval
<1> HIDE DEF n
<1>6. Made \in Nat
  BY FS_CardinalityType DEF Made
<1> QED
  BY <1>4, <1>5, <1>6 DEF n

LEMMA MakeShape ==
  ASSUME TypeOK, NEW j \in Job, NEW r \in Record, NEW st \in Seq(Chapter),
         rec' = [rec EXCEPT ![j] = Append(@, r)], story' = [story EXCEPT ![j] = st]
  PROVE  /\ rec' \in [Job -> Seq(Record)] /\ story' \in [Job -> Seq(Chapter)]
         /\ \A i \in Job \ {j} : rec'[i] = rec[i] /\ story'[i] = story[i]
         /\ Len(rec'[j]) = Len(rec[j]) + 1 /\ story'[j] = st
         /\ DOMAIN rec'[j] = 1 .. Len(rec[j]) + 1
         /\ \A n \in 1 .. Len(rec[j]) : rec'[j][n] = rec[j][n]
         /\ rec'[j][Len(rec[j]) + 1] = r
<1>1. rec[j] \in Seq(Record)
  BY DEF TypeOK
<1> DEFINE s == Append(rec[j], r)
<1>2. /\ s \in Seq(Record) /\ Len(s) = Len(rec[j]) + 1
      /\ \A n \in 1 .. Len(rec[j]) : s[n] = rec[j][n]
      /\ s[Len(rec[j]) + 1] = r
  BY <1>1, AppendProperties
<1>3. DOMAIN s = 1 .. Len(rec[j]) + 1
  BY <1>2, SeqFacts
<1>4. /\ rec'[j] = s /\ story'[j] = st
      /\ \A i \in Job \ {j} : rec'[i] = rec[i] /\ story'[i] = story[i]
  BY DEF TypeOK
<1>5. rec' \in [Job -> Seq(Record)] /\ story' \in [Job -> Seq(Chapter)]
  BY <1>2 DEF TypeOK
<1> HIDE DEF s
<1> QED
  BY <1>2, <1>3, <1>4, <1>5

\* A job that is known already is contested; the story of one that is not may hold
\* the final chapters of other jobs.
LEMMA MakeKeeps ==
  ASSUME IInv, NEW j \in Job, NEW r \in Record, NEW st \in Seq(Chapter), NEW c,
         Made < MaxRecords,
         rec' = [rec EXCEPT ![j] = Append(@, r)], story' = [story EXCEPT ![j] = st],
         UNCHANGED <<grant, done>>,
         Contest(c, j),
         \/ c = NoCall /\ call' = call
         \/ c \in Call /\ Return(c) /\ ~At(c, "complete", "result"),
         r.status \in {"ready", "awaiting_future"}, r.lease = NoLease, r.task = 0,
         Len(st) \in 1 .. MaxChapters, Len(st) >= Len(story[j]),
         \A n \in 1 .. Len(st) : n = 1 <=> st[n].kind = "start",
         \A n \in 2 .. Len(story[j]) : st[n] = story[j][n],
         Known(j) => j \in contested,
         \A n \in 1 .. Len(st) : \A l \in LeaseId : st[n] = Final(l) =>
           grant[l] # NoJob /\ (Known(j) \/ grant[l] # j)
  PROVE  IInv'
<1>1. TypeOK /\ Len(rec[j]) \in Nat
  BY Shapes DEF IInv
<1>2. /\ rec' \in [Job -> Seq(Record)] /\ story' \in [Job -> Seq(Chapter)]
      /\ \A i \in Job \ {j} : rec'[i] = rec[i] /\ story'[i] = story[i]
      /\ Len(rec'[j]) = Len(rec[j]) + 1 /\ story'[j] = st
      /\ DOMAIN rec'[j] = 1 .. Len(rec[j]) + 1
      /\ \A n \in 1 .. Len(rec[j]) : rec'[j][n] = rec[j][n]
      /\ rec'[j][Len(rec[j]) + 1] = r
  BY <1>1, MakeShape
<1>3. /\ contested \subseteq contested' /\ contested' \subseteq Job
      /\ \A d \in Call \ {c} : Delicate(d, j) => j \in contested'
  BY <1>1, Contested
<1>4. /\ DOMAIN call' = Call
      /\ \A d \in Call : \/ call'[d] = call[d] /\ d # c
                         \/ call'[d] = Idle /\ ~At(d, "complete", "result")
  BY <1>1, ToyAssumption DEF TypeOK, Return
<1>5. /\ DOMAIN st = 1 .. Len(st) /\ Len(st) \in Nat /\ st # <<>>
      /\ Known(j)' /\ Now(j)' = r
  <2>1. rec'[j] \in Seq(Record)
    BY <1>2
  <2> QED
    BY <1>1, <1>2, <2>1, SeqFacts DEF Known, Now, Last
<1>6. \A i \in Job \ {j} : (Known(i)' <=> Known(i)) /\ Now(i)' = Now(i)
  BY <1>2 DEF Known, Now
<1>7. Len(rec[j]) + 1 <= MaxRecords /\ Made \in Nat
  BY <1>1, MadeBounds, ToyAssumption DEF IInv, Counted
<1>8. TypeOK'
  <2>1. \A i \in Job : /\ Len(rec'[i]) <= MaxRecords /\ Len(story'[i]) <= MaxChapters
                       /\ \A n \in DOMAIN story'[i] :
                            n = 1 <=> story'[i][n].kind = "start"
                       /\ Known(i)' <=> story'[i] # <<>>
    <3> SUFFICES ASSUME NEW i \in Job
                 PROVE  /\ Len(rec'[i]) <= MaxRecords /\ Len(story'[i]) <= MaxChapters
                        /\ \A n \in DOMAIN story'[i] :
                             n = 1 <=> story'[i][n].kind = "start"
                        /\ Known(i)' <=> story'[i] # <<>>
      OBVIOUS
    <3>1. CASE i = j
      BY <1>2, <1>5, <1>7, <3>1
    <3>2. CASE i # j
      BY <1>1, <1>2, <1>6, <3>2 DEF TypeOK
    <3> QED
      BY <3>1, <3>2
  <2>2. \A i \in Job : \A n \in DOMAIN rec'[i] :
          rec'[i][n].status = "active" <=> rec'[i][n].lease # NoLease
    <3> SUFFICES ASSUME NEW i \in Job, NEW n \in DOMAIN rec'[i]
                 PROVE  rec'[i][n].status = "active" <=> rec'[i][n].lease # NoLease
      OBVIOUS
    <3>1. CASE i = j /\ n = Len(rec[j]) + 1
      BY <1>2, <3>1
    <3>2. CASE ~(i = j /\ n = Len(rec[j]) + 1)
      <4>1. n \in DOMAIN rec[i] /\ rec'[i][n] = rec[i][n]
        BY <1>1, <1>2, <3>2, Shapes
      <4> QED
        BY <1>1, <4>1 DEF TypeOK
    <3> QED
      BY <3>1, <3>2
  <2>3. \A d \in Call : call'[d] \in CallState
    BY <1>1, <1>4, IdleFacts DEF TypeOK
  <2> QED
    BY <1>1, <1>2, <1>3, <1>4, <2>1, <2>2, <2>3 DEF TypeOK
<1>9. Counted'
  <2> DEFINE p == <<j, Len(rec[j]) + 1>>
  <2>1. Records' = Records \cup {p}
    <3>1. \A q : q \in Records' <=> q \in Records \cup {p}
      <4> SUFFICES ASSUME NEW i \in Job, NEW m \in 1 .. MaxRecords
                   PROVE  m <= Len(rec'[i]) <=> m <= Len(rec[i]) \/ <<i, m>> = p
        BY <1>1, <1>7 DEF Records
      <4>1. CASE i = j
        BY <1>1, <1>2, <4>1
      <4>2. CASE i # j
        BY <1>2, <4>2
      <4> QED
        BY <4>1, <4>2
    <3> QED
      BY <3>1
  <2>2. p \notin Records
    BY <1>1 DEF Records
  <2>3. /\ IsFiniteSet(Records \cup {p})
        /\ Cardinality(Records \cup {p}) = Made + 1
    BY <2>2, FS_AddElement DEF IInv, Counted, Made
  <2> HIDE DEF p
  <2>4. IsFiniteSet(Records') /\ Cardinality(Records') = Made + 1
    BY <2>1, <2>3
  <2>5. Made + 1 <= MaxRecords
    BY <1>7, ToyAssumption
  <2> QED
    BY <2>4, <2>5 DEF Counted, Made
<1>10. Grows
  <2>1. \A i \in Job : /\ Len(rec[i]) <= Len(rec'[i])
                       /\ Len(story[i]) <= Len(story'[i])
                       /\ \A n \in 2 .. Len(story[i]) : story'[i][n] = story[i][n]
    <3> SUFFICES ASSUME NEW i \in Job
                 PROVE  /\ Len(rec[i]) <= Len(rec'[i])
                        /\ Len(story[i]) <= Len(story'[i])
                        /\ \A n \in 2 .. Len(story[i]) : story'[i][n] = story[i][n]
      OBVIOUS
    <3>1. CASE i = j
      BY <1>1, <1>2, <3>1
    <3>2. CASE i # j
      BY <1>1, <1>2, <3>2, Shapes
    <3> QED
      BY <3>1, <3>2
  <2> QED
    BY <2>1 DEF Grows
<1>11. \A d \in Call : CallSound(call[d])'
  <2> SUFFICES ASSUME NEW d \in Call, NEW q, q = call'[d]
               PROVE  CallSound(q)'
    BY DEF CallSound, Known
  <2>1. CASE q = Idle
    BY <2>1, IdleFacts DEF CallSound
  <2>2. CASE q = call[d]
    BY <1>1, <1>8, <1>10, <2>2, CallStays DEF IInv, TypeOK
  <2> QED
    BY <1>4, <2>1, <2>2
<1>12. RecordSound'
  <2> SUFFICES ASSUME NEW i \in Job, NEW n \in DOMAIN rec'[i]
               PROVE  /\ rec'[i][n].lease # NoLease => grant[rec'[i][n].lease] = i
                      /\ rec'[i][n].task < MaxChapters
    BY DEF RecordSound
  <2>1. CASE i = j /\ n = Len(rec[j]) + 1
    BY <1>2, <2>1, ToyAssumption
  <2>2. CASE ~(i = j /\ n = Len(rec[j]) + 1)
    <3>1. n \in DOMAIN rec[i] /\ rec'[i][n] = rec[i][n]
      BY <1>1, <1>2, <2>2, Shapes
    <3> QED
      BY <3>1 DEF IInv, RecordSound
  <2> QED
    BY <2>1, <2>2
<1>13. GrantSound'
  <2>1. \A l \in LeaseId : grant[l] # NoJob => Known(grant[l])'
    <3> SUFFICES ASSUME NEW l \in LeaseId, grant[l] # NoJob
                 PROVE  Known(grant[l])'
      OBVIOUS
    <3>1. PICK i \in Job : i = grant[l] /\ Known(i)
      BY <1>1 DEF TypeOK, IInv, GrantSound
    <3>2. Known(i)'
      BY <1>5, <1>6, <3>1
    <3> QED
      BY <3>1, <3>2 DEF Known
  <2>2. \A i \in Job : \A n \in DOMAIN story'[i] : \A l \in LeaseId :
          story'[i][n] = Final(l) => grant[l] # NoJob
    BY <1>2, <1>5 DEF IInv, GrantSound
  <2> QED
    BY <2>1, <2>2 DEF GrantSound, Known
<1>14. OneRecord'
  <2> SUFFICES ASSUME NEW i \in Job, i \notin contested'
               PROVE  Len(rec'[i]) <= 1
    BY DEF OneRecord
  <2>1. CASE i = j
    <3>1. ~Known(j)
      BY <1>3, <2>1
    <3>2. Len(rec[j]) = 0
      BY <1>1, <3>1, Shapes
    <3> QED
      BY <1>2, <2>1, <3>2
  <2>2. CASE i # j
    BY <1>2, <1>3, <2>2 DEF IInv, OneRecord
  <2> QED
    BY <2>1, <2>2
<1>15. SubmitMet'
  <2> SUFFICES ASSUME NEW d \in Call, NEW i, i = call'[d].job,
                      call'[d].op = "submit", Known(i)'
               PROVE  i \in contested'
    BY DEF SubmitMet, Known
  <2>1. call'[d] = call[d] /\ d # c
    BY <1>4, IdleFacts
  <2>2. i \in Job
    BY <2>1 DEF IInv, CallSound
  <2>3. CASE i = j
    BY <1>3, <2>1, <2>3 DEF Delicate
  <2>4. CASE i # j
    BY <1>3, <1>6, <2>1, <2>2, <2>4 DEF IInv, SubmitMet
  <2> QED
    BY <2>3, <2>4
<1>16. CommitClean'
  <2> SUFFICES ASSUME NEW d \in Call, NEW i, i = call'[d].job,
                      call'[d].op = "commit", i \notin contested'
               PROVE  Now(i)'.status \notin Terminal \cup {"active"}
    BY DEF CommitClean, Now
  <2>1. call'[d] = call[d] /\ d # c
    BY <1>4, IdleFacts
  <2>2. i \in Job /\ i # j
    BY <1>3, <2>1 DEF IInv, CallSound, Delicate
  <2>3. Now(i).status \notin Terminal \cup {"active"}
    BY <1>3, <2>1 DEF IInv, CommitClean
  <2> QED
    BY <1>6, <2>2, <2>3
<1>17. ASSUME NEW i \in Job, i # j, HasOutcome(i)
       PROVE  HasOutcome(i)'
  <2>1. CASE Now(i).result \/ i \in contested
    BY <1>3, <1>6, <1>17, <2>1 DEF HasOutcome
  <2>2. ASSUME NEW d \in Call, At(d, "complete", "result"),
               call[d].job = i, call[d].to = Len(rec[i])
        PROVE  HasOutcome(i)'
    <3>1. call'[d] = call[d]
      BY <1>4, <2>2
    <3> QED
      BY <1>2, <1>17, <3>1, <2>2 DEF HasOutcome, At
  <2> QED
    BY <1>17, <2>1, <2>2 DEF HasOutcome
<1>18. FinalHasOutcome'
  <2> SUFFICES ASSUME NEW i \in Job, NEW n \in DOMAIN story'[i], NEW l \in LeaseId,
                      story'[i][n] = Final(l), grant[l] = i
               PROVE  HasOutcome(i)'
    BY DEF FinalHasOutcome
  <2>1. CASE i = j
    BY <1>2, <1>3, <1>5, <2>1 DEF HasOutcome
  <2>2. CASE i # j
    BY <1>2, <1>17, <2>2 DEF IInv, FinalHasOutcome
  <2> QED
    BY <2>1, <2>2
<1>19. CompletedHasOutcome'
  <2> SUFFICES ASSUME NEW i \in Job, Known(i)', Now(i)'.status = "completed"
               PROVE  /\ \E n \in DOMAIN story'[i] : story'[i][n].kind = "final"
                      /\ HasOutcome(i)'
    BY DEF CompletedHasOutcome, HasOutcome
  <2>1. i # j
    BY <1>5
  <2>2. /\ \E n \in DOMAIN story[i] : story[i][n].kind = "final"
        /\ HasOutcome(i)
    BY <1>6, <2>1 DEF IInv, CompletedHasOutcome, HasOutcome
  <2> QED
    BY <1>2, <1>17, <2>1, <2>2
<1>20. DoneKnown'
  <2> SUFFICES ASSUME NEW i \in done
               PROVE  Known(i)'
    BY DEF DoneKnown
  <2>1. i \in Job /\ Known(i)
    BY <1>1 DEF TypeOK, IInv, DoneKnown
  <2> QED
    BY <1>5, <1>6, <2>1
<1>21. DoneStays'
  <2> SUFFICES ASSUME NEW i \in Job, i \in done, i \notin contested'
               PROVE  Now(i)'.status \in Terminal
    BY <1>1 DEF DoneStays, TypeOK
  <2>1. i # j
    BY <1>3 DEF IInv, DoneKnown
  <2> QED
    BY <1>3, <1>6, <2>1 DEF IInv, DoneStays
<1> QED
  BY <1>8, <1>9, <1>11, <1>12, <1>13, <1>14, <1>15, <1>16, <1>18, <1>19, <1>20, <1>21
  DEF IInv

LEMMA FreshFacts ==
  ASSUME NEW s \in {"ready", "awaiting_future"}
  PROVE  /\ Fresh(s) \in Record /\ Fresh(s).status = s
         /\ Fresh(s).lease = NoLease /\ Fresh(s).task = 0
<1>1. 0 \in 0 .. MaxChapters
  BY ToyAssumption
<1> QED
  BY <1>1 DEF Fresh, Record, Status

\* The story of a job that is submitted over another one keeps its chapters.
LEMMA RestartedStory ==
  ASSUME NEW s \in Seq(Chapter)
  PROVE  LET st == <<Start>> \o (IF s = <<>> THEN s ELSE Tail(s)) IN
         /\ st \in Seq(Chapter)
         /\ Len(st) = IF s = <<>> THEN 1 ELSE Len(s)
         /\ \A n \in 1 .. Len(st) : st[n] = IF n = 1 THEN Start ELSE s[n]
<1> DEFINE t == IF s = <<>> THEN s ELSE Tail(s)
           h == <<Start>>
<1>1. /\ t \in Seq(Chapter)
      /\ Len(t) = IF s = <<>> THEN 0 ELSE Len(s) - 1
      /\ \A n \in 1 .. Len(t) : t[n] = s[n + 1]
  BY HeadTailProperties, EmptySeq
<1>2. h \in Seq(Chapter) /\ Len(h) = 1 /\ h[1] = Start
  BY Chapters
<1>3. Len(s) \in Nat /\ (s # <<>> <=> Len(s) >= 1)
  BY SeqFacts
<1> HIDE DEF t, h
<1>4. /\ h \o t \in Seq(Chapter) /\ Len(h \o t) = 1 + Len(t)
      /\ \A n \in 1 .. 1 + Len(t) :
           (h \o t)[n] = IF n <= 1 THEN h[n] ELSE t[n - 1]
  <2>1. h \in Seq(Chapter) /\ t \in Seq(Chapter)
    BY <1>1, <1>2
  <2>2. /\ h \o t \in Seq(Chapter) /\ Len(h \o t) = Len(h) + Len(t)
        /\ \A n \in 1 .. Len(h) + Len(t) :
             (h \o t)[n] = IF n <= Len(h) THEN h[n] ELSE t[n - Len(h)]
    BY <2>1, ConcatProperties
  <2> QED
    BY <1>2, <2>2
<1>5. \A n \in 1 .. Len(h \o t) : (h \o t)[n] = IF n = 1 THEN Start ELSE s[n]
  <2> SUFFICES ASSUME NEW n \in 1 .. Len(h \o t)
               PROVE  (h \o t)[n] = IF n = 1 THEN Start ELSE s[n]
    OBVIOUS
  <2>1. CASE n = 1
    BY <1>1, <1>2, <1>3, <1>4, <2>1
  <2>2. CASE n # 1
    <3>1. n - 1 \in 1 .. Len(t) /\ (h \o t)[n] = t[n - 1]
      BY <1>1, <1>3, <1>4, <2>2
    <3>2. t[n - 1] = s[(n - 1) + 1]
      BY <1>1, <3>1
    <3> QED
      BY <2>2, <3>1, <3>2
  <2> QED
    BY <2>1, <2>2
<1> QED
  BY <1>1, <1>3, <1>4, <1>5 DEF t, h

LEMMA InsertStory ==
  ASSUME TypeOK, NEW c \in Call, InsertJob(c), NEW j \in Job, j = call[c].job
  PROVE  \E st \in Seq(Chapter) :
           /\ story' = [story EXCEPT ![j] = st]
           /\ Len(st) = IF story[j] = <<>> THEN 1 ELSE Len(story[j])
           /\ \A n \in 1 .. Len(st) : st[n] = IF n = 1 THEN Start ELSE story[j][n]
<1> DEFINE st == <<Start>> \o (IF story[j] = <<>> THEN story[j] ELSE Tail(story[j]))
<1>1. story[j] \in Seq(Chapter)
  BY DEF TypeOK
<1>2. /\ st \in Seq(Chapter)
      /\ Len(st) = IF story[j] = <<>> THEN 1 ELSE Len(story[j])
      /\ \A n \in 1 .. Len(st) : st[n] = IF n = 1 THEN Start ELSE story[j][n]
  BY <1>1, RestartedStory
<1>3. story' = [story EXCEPT ![j] = st]
  BY DEF InsertJob
<1> HIDE DEF st
<1> QED
  BY <1>2, <1>3

\* A submission that meets a job contests it (SubmitMet).
LEMMA InsertKeeps ==
  ASSUME IInv, NEW c \in Call, InsertJob(c)
  PROVE  IInv'
<1>1. /\ TypeOK /\ CallSound(call[c]) /\ call[c].op = "submit" /\ call[c].pc = "finish"
      /\ UNCHANGED <<grant, done>> /\ Return(c) /\ Made < MaxRecords
  BY DEF IInv, TypeOK, InsertJob, At
<1>2. PICK j \in Job : j = call[c].job
  BY <1>1 DEF CallSound
<1>3. PICK s \in {"ready", "awaiting_future"} :
        rec' = [rec EXCEPT ![j] = Append(@, Fresh(s))]
  BY <1>2 DEF InsertJob
<1>4. PICK st \in Seq(Chapter) :
        /\ story' = [story EXCEPT ![j] = st]
        /\ Len(st) = IF story[j] = <<>> THEN 1 ELSE Len(story[j])
        /\ \A n \in 1 .. Len(st) : st[n] = IF n = 1 THEN Start ELSE story[j][n]
  BY <1>1, <1>2, InsertStory
<1>5. /\ Len(story[j]) \in Nat /\ Len(story[j]) <= MaxChapters
      /\ DOMAIN story[j] = 1 .. Len(story[j])
      /\ story[j] = <<>> <=> Len(story[j]) = 0
      /\ Known(j) <=> story[j] # <<>>
  BY <1>1, Shapes, SeqFacts DEF TypeOK
<1>6. Len(st) \in 1 .. MaxChapters /\ Len(st) >= Len(story[j])
  BY <1>4, <1>5, ToyAssumption
<1>7. \A n \in 1 .. Len(st) : n = 1 <=> st[n].kind = "start"
  <2> SUFFICES ASSUME NEW n \in 1 .. Len(st)
               PROVE  n = 1 <=> st[n].kind = "start"
    OBVIOUS
  <2>1. CASE n = 1
    BY <1>4, <2>1, Chapters
  <2>2. CASE n # 1
    <3>1. n \in DOMAIN story[j] /\ st[n] = story[j][n]
      BY <1>4, <1>5, <2>2
    <3> QED
      BY <1>1, <2>2, <3>1 DEF TypeOK
  <2> QED
    BY <2>1, <2>2
<1>8. \A n \in 2 .. Len(story[j]) : st[n] = story[j][n]
  BY <1>4, <1>5
<1>9. Known(j) => j \in contested
  BY <1>1, <1>2 DEF IInv, SubmitMet
<1>10. \A n \in 1 .. Len(st) : \A l \in LeaseId : st[n] = Final(l) =>
         grant[l] # NoJob /\ (Known(j) \/ grant[l] # j)
  <2> SUFFICES ASSUME NEW n \in 1 .. Len(st), NEW l \in LeaseId, st[n] = Final(l)
               PROVE  grant[l] # NoJob /\ Known(j)
    OBVIOUS
  <2>1. n # 1
    BY <1>4, Chapters
  <2>2. n \in DOMAIN story[j] /\ st[n] = story[j][n]
    BY <1>4, <1>5, <2>1
  <2>3. Known(j)
    BY <1>5, <2>2
  <2>4. story[j][n] = Final(l)
    BY <2>2
  <2> QED
    BY <2>2, <2>3, <2>4 DEF IInv, GrantSound
<1>11. Contest(c, j) /\ ~At(c, "complete", "result")
  BY <1>1, <1>2 DEF InsertJob, At
<1> QED
  BY <1>1, <1>3, <1>4, <1>6, <1>7, <1>8, <1>9, <1>10, <1>11, FreshFacts, MakeKeeps

\* A final chapter that is copied is of a lease of a known job, and so not of the
\* job that is made.
LEMMA RestartKeeps ==
  ASSUME IInv, NEW j \in Job, NEW prior \in Job, NEW keep \in 0 .. MaxChapters,
         SubmitRestart(j, prior, keep)
  PROVE  IInv'
<1>1. /\ TypeOK /\ keep + 1 < Len(story[prior]) /\ ~Known(j)
      /\ UNCHANGED <<call, grant, done>> /\ Made < MaxRecords /\ Contest(NoCall, j)
  BY DEF IInv, SubmitRestart
<1>2. /\ Len(story[prior]) \in Nat /\ Len(story[prior]) <= MaxChapters
      /\ DOMAIN story[prior] = 1 .. Len(story[prior])
      /\ \A n \in 1 .. Len(story[prior]) : story[prior][n] \in Chapter
  BY <1>1, Shapes
<1> DEFINE w == SubSeq(story[prior], 1, keep + 1)
<1>3. w \in Seq(Chapter) /\ Len(w) = keep + 1
      /\ \A n \in 1 .. keep + 1 : w[n] = story[prior][n]
  <2>1. \A n \in 1 .. keep + 1 : story[prior][n] \in Chapter
    BY <1>1, <1>2
  <2>2. /\ w \in Seq(Chapter)
        /\ Len(w) = IF 1 <= keep + 1 THEN keep + 1 - 1 + 1 ELSE 0
        /\ \A n \in 1 .. keep + 1 - 1 + 1 : w[n] = story[prior][1 + n - 1]
    BY <2>1, ToyAssumption, SubSeqProperties
  <2> HIDE DEF w
  <2> QED
    BY <2>2, ToyAssumption
<1>4. PICK st \in Seq(Chapter) :
        /\ story' = [story EXCEPT ![j] = st] /\ Len(st) = keep + 1
        /\ \A n \in 1 .. keep + 1 : st[n] = story[prior][n]
  <2>1. story' = [story EXCEPT ![j] = w]
    BY DEF SubmitRestart
  <2> HIDE DEF w
  <2> QED
    BY <1>3, <2>1
<1>5. rec' = [rec EXCEPT ![j] = Append(@, Fresh("ready"))]
  <2>1. rec[j] = <<>>
    BY <1>1 DEF Known
  <2>2. Append(rec[j], Fresh("ready")) = <<Fresh("ready")>>
    BY <2>1
  <2> QED
    BY <2>2 DEF SubmitRestart
<1>6. Len(story[j]) = 0
  BY <1>1, Shapes
<1>7. Len(st) \in 1 .. MaxChapters /\ Len(st) >= Len(story[j])
  BY <1>1, <1>2, <1>4, <1>6, ToyAssumption
<1>8. \A n \in 1 .. Len(st) : n = 1 <=> st[n].kind = "start"
  BY <1>1, <1>2, <1>4 DEF TypeOK
<1>9. \A n \in 1 .. Len(st) : \A l \in LeaseId : st[n] = Final(l) =>
        grant[l] # NoJob /\ (Known(j) \/ grant[l] # j)
  <2> SUFFICES ASSUME NEW n \in 1 .. Len(st), NEW l \in LeaseId, st[n] = Final(l)
               PROVE  grant[l] # NoJob /\ grant[l] # j
    OBVIOUS
  <2>1. n \in DOMAIN story[prior] /\ story[prior][n] = Final(l)
    BY <1>1, <1>2, <1>4
  <2>2. grant[l] # NoJob /\ Known(grant[l])
    BY <2>1 DEF IInv, GrantSound
  <2> QED
    BY <1>1, <2>2
<1>10. \A n \in 2 .. Len(story[j]) : st[n] = story[j][n]
  BY <1>6
<1> QED
  BY <1>1, <1>4, <1>5, <1>7, <1>8, <1>9, <1>10, FreshFacts, MakeKeeps

-----------------------------------------------------------------------------
(* The theorems                                                            *)

LEMMA InitHolds ==
  ASSUME Init
  PROVE  IInv
<1>1. /\ rec = [j \in Job |-> <<>>] /\ story = [j \in Job |-> <<>>]
      /\ call = [c \in Call |-> Idle] /\ grant = [l \in LeaseId |-> NoJob]
      /\ done = {} /\ contested = {}
  BY DEF Init
<1>2. \A j \in Job : /\ rec[j] = <<>> /\ story[j] = <<>> /\ ~Known(j)
                     /\ Len(rec[j]) = 0 /\ Len(story[j]) = 0
                     /\ DOMAIN rec[j] = {} /\ DOMAIN story[j] = {}
  BY <1>1 DEF Known
<1>3. \A c \in Call : call[c] = Idle
  BY <1>1
<1>4. TypeOK
  BY <1>1, <1>2, <1>3, IdleFacts, ToyAssumption DEF TypeOK
<1>5. Counted
  <2>1. Records = {}
    BY <1>2 DEF Records
  <2> QED
    BY <2>1, FS_EmptySet, ToyAssumption DEF Counted, Made
<1>6. \A c \in Call : CallSound(call[c])
  BY <1>3, IdleFacts
<1>7. RecordSound /\ GrantSound /\ OneRecord /\ FinalHasOutcome
  BY <1>1, <1>2 DEF RecordSound, GrantSound, OneRecord, FinalHasOutcome
<1>8. SubmitMet /\ CommitClean
  BY <1>3, IdleFacts DEF SubmitMet, CommitClean
<1>9. DoneKnown /\ DoneStays /\ CompletedHasOutcome
  BY <1>1, <1>2 DEF DoneKnown, DoneStays, CompletedHasOutcome
<1> QED
  BY <1>4, <1>5, <1>6, <1>7, <1>8, <1>9 DEF IInv

LEMMA StepKeeps ==
  ASSUME IInv, [Next]_vars
  PROVE  IInv'
<1>1. ASSUME NEW c \in Call, NEW j \in Job, CheckSubmit(c, j) \/ BeginCommit(c, j)
      PROVE  IInv'
  BY <1>1, CheckSubmitKeeps, BeginCommitKeeps
<1>2. ASSUME NEW j \in Job, CancelJob(j)
      PROVE  IInv'
  BY <1>2, CancelKeeps
<1>3. ASSUME NEW j \in Job, NEW prior \in Job, NEW keep \in 0 .. MaxChapters,
             SubmitRestart(j, prior, keep)
      PROVE  IInv'
  BY <1>3, RestartKeeps
<1>4. ASSUME NEW l \in LeaseId, NEW looked \in SUBSET Job, NEW due \in BOOLEAN,
             NEW taken \in {{}} \cup {{j} : j \in looked},
             PollWork(looked, taken, l, due)
      PROVE  IInv'
  BY <1>4, PollKeeps
<1>5. ASSUME NEW l \in LeaseId, NEW o \in 0 .. MaxChapters, NEW c \in Call,
             NEW op \in {"put", "complete"}, CheckLease(c, l, op, o)
      PROVE  IInv'
  BY <1>5, CheckLeaseKeeps
<1>6. ASSUME NEW l \in LeaseId, NEW o \in 0 .. MaxChapters, NEW for \in SUBSET Job,
             NEW later \in BOOLEAN, RescheduleLease(l, o, for, later)
      PROVE  IInv'
  BY <1>6, RescheduleKeeps
<1>7. ASSUME NEW c \in Call,
             \/ InsertJob(c) \/ EnsureCompletionChapter(c) \/ StoreChapter(c)
             \/ StoreResult(c) \/ LeaseLost(c) \/ ResumeJob(c)
      PROVE  IInv'
  BY <1>7, InsertKeeps, EnsureKeeps, StoreChapterKeeps, StoreResultKeeps,
     LeaseLostKeeps, ResumeKeeps
<1>8. ASSUME NEW c \in Call, NEW s \in Terminal, CompleteLease(c, s)
      PROVE  IInv'
  BY <1>8, CompleteKeeps
<1>9. ASSUME UNCHANGED vars
      PROVE  IInv'
  BY <1>9 DEF vars, IInv, TypeOK, Counted, Records, Made, CallSound, RecordSound,
              GrantSound, OneRecord, SubmitMet, CommitClean, FinalHasOutcome, HasOutcome,
              DoneKnown, DoneStays, CompletedHasOutcome, Known, Now, At
<1> QED
  BY <1>1, <1>2, <1>3, <1>4, <1>5, <1>6, <1>7, <1>8, <1>9 DEF Next

\* Every reachable state satisfies the invariant.
THEOREM Inductive == Spec => []IInv
<1>1. Init => IInv
  BY InitHolds
<1>2. IInv /\ [Next]_vars => IInv'
  BY StepKeeps
<1> QED
  BY <1>1, <1>2, PTL DEF Spec

\* What the model's two maps hold (ToyEngine's jobs and runtimeChapters) keeps its
\* shape, whatever the number of jobs, leases and calls.
THEOREM TypeCorrect == Spec => []TypeOK
<1>1. IInv => TypeOK
  BY DEF IInv
<1> QED
  BY <1>1, Inductive, PTL

\* A job that was completed or cancelled stays so, unless a submission or a commit
\* has met it in use (submitJobWithParent, CompleteTaskIfWaiting).
THEOREM DoneJobsStay == Spec => []DoneStays
<1>1. IInv => DoneStays
  BY DEF IInv
<1> QED
  BY <1>1, Inductive, PTL

\* A completed job has a final chapter, and its outcome is in the record or on the
\* way there (storeRuntimeChapter stores it after the chapter).
THEOREM OutcomeIsThere == Spec => []CompletedHasOutcome
<1>1. IInv => CompletedHasOutcome
  BY DEF IInv
<1> QED
  BY <1>1, Inductive, PTL

\* The body of ChaptersKept
Kept(j) ==
  /\ Len(story'[j]) >= Len(story[j])
  /\ \A n \in 2 .. Len(story[j]) : story'[j][n] = story[j][n]

\* No operation takes a chapter behind the start away or replaces it: a submission
\* over an old job keeps them (submitJobWithParent), and storeRuntimeChapter only
\* takes the next ordinal.
THEOREM ChaptersAreKept == Spec => ChaptersKept
<1>1. ASSUME IInv, [Next]_vars, NEW j \in Job
      PROVE  Kept(j)
  <2>1. TypeOK /\ Len(story[j]) \in Nat
    BY <1>1, Shapes DEF IInv
  <2>2. CASE story' = story
    BY <2>1, <2>2 DEF Kept
  <2>3. ASSUME NEW c \in Call, StoreChapter(c)
        PROVE  Kept(j)
    <3>1. CASE call[c].job # j \/ call[c].ord # Len(story[call[c].job])
      BY <2>1, <2>3, <3>1 DEF StoreChapter, TypeOK, Kept
    <3>2. CASE call[c].job = j /\ call[c].ord = Len(story[j])
      <4>1. PICK ch \in {Work, Final(call[c].lease)} :
              /\ story' = [story EXCEPT ![j] = Append(@, ch)]
              /\ ch = Work \/ call[c].op = "complete"
        BY <2>3, <3>2 DEF StoreChapter
      <4>2. ch \in Chapter
        BY <1>1, <4>1, Chapters DEF IInv, CallSound
      <4> QED
        BY <2>1, <4>1, <4>2, AppendShape DEF Kept
    <3> QED
      BY <3>1, <3>2
  <2>4. ASSUME NEW c \in Call, InsertJob(c)
        PROVE  Kept(j)
    <3>1. PICK i \in Job : i = call[c].job
      BY <1>1, <2>4 DEF IInv, CallSound, InsertJob, At
    <3>2. PICK st \in Seq(Chapter) :
            /\ story' = [story EXCEPT ![i] = st]
            /\ Len(st) = IF story[i] = <<>> THEN 1 ELSE Len(story[i])
            /\ \A n \in 1 .. Len(st) : st[n] = IF n = 1 THEN Start ELSE story[i][n]
      BY <2>1, <2>4, <3>1, InsertStory
    <3>3. CASE i # j
      BY <2>1, <3>2, <3>3 DEF TypeOK, Kept
    <3>4. CASE i = j
      <4>1. story'[j] = st
        BY <2>1, <3>2, <3>4 DEF TypeOK
      <4>2. story[j] = <<>> => Len(story[j]) = 0
        BY EmptySeq
      <4> QED
        BY <2>1, <3>2, <3>4, <4>1, <4>2 DEF Kept
    <3> QED
      BY <3>3, <3>4
  <2>5. ASSUME NEW i \in Job, NEW prior \in Job, NEW keep \in 0 .. MaxChapters,
               SubmitRestart(i, prior, keep)
        PROVE  Kept(j)
    <3>1. CASE i # j
      BY <2>1, <2>5, <3>1 DEF SubmitRestart, TypeOK, Kept
    <3>2. CASE i = j
      <4>1. Len(story[j]) = 0
        BY <2>1, <2>5, <3>2, Shapes DEF SubmitRestart
      <4>2. story' = [story EXCEPT ![j] = SubSeq(story[prior], 1, keep + 1)]
              /\ keep + 1 < Len(story[prior])
        BY <2>5, <3>2 DEF SubmitRestart
      <4>3. story'[j] = SubSeq(story[prior], 1, keep + 1)
        BY <2>1, <4>2 DEF TypeOK
      <4>4. Len(story'[j]) >= 0
        <5>1. \A n \in 1 .. keep + 1 : story[prior][n] \in Chapter
          BY <2>1, <4>2, Shapes
        <5>2. SubSeq(story[prior], 1, keep + 1) \in Seq(Chapter)
          BY <5>1, ToyAssumption, SubSeqProperties
        <5> QED
          BY <4>3, <5>2, LenProperties
      <4> QED
        BY <4>1, <4>4 DEF Kept
    <3> QED
      BY <3>1, <3>2
  <2>6. ASSUME NEW c \in Call, NEW i \in Job, CheckSubmit(c, i) \/ BeginCommit(c, i)
        PROVE  Kept(j)
    BY <2>2, <2>6 DEF CheckSubmit, BeginCommit
  <2>7. ASSUME NEW i \in Job, CancelJob(i)
        PROVE  Kept(j)
    BY <2>2, <2>7 DEF CancelJob
  <2>8. ASSUME NEW l \in LeaseId, NEW looked, NEW taken, NEW due,
               PollWork(looked, taken, l, due)
        PROVE  Kept(j)
    BY <2>2, <2>8 DEF PollWork
  <2>9. ASSUME NEW l \in LeaseId, NEW o, NEW c, NEW op, CheckLease(c, l, op, o)
        PROVE  Kept(j)
    BY <2>2, <2>9 DEF CheckLease
  <2>10. ASSUME NEW l \in LeaseId, NEW o, NEW for, NEW later,
                RescheduleLease(l, o, for, later)
         PROVE  Kept(j)
    BY <2>2, <2>10 DEF RescheduleLease
  <2>11. ASSUME NEW c \in Call,
                \/ EnsureCompletionChapter(c) \/ StoreResult(c) \/ LeaseLost(c)
                \/ ResumeJob(c) \/ \E s \in Terminal : CompleteLease(c, s)
         PROVE  Kept(j)
    BY <2>2, <2>11 DEF EnsureCompletionChapter, StoreResult, LeaseLost, ResumeJob,
                       CompleteLease
  <2>12. CASE UNCHANGED vars
    BY <2>2, <2>12 DEF vars
  <2> QED
    BY <1>1, <2>3, <2>4, <2>5, <2>6, <2>7, <2>8, <2>9, <2>10, <2>11, <2>12 DEF Next
<1>2. IInv /\ [Next]_vars => [\A j \in Job : Kept(j)]_vars
  BY <1>1
<1>3. [][\A j \in Job : Kept(j)]_vars => ChaptersKept
  BY PTL DEF ChaptersKept, Kept
<1> QED
  BY <1>2, <1>3, Inductive, PTL DEF Spec

\* The body of LeaseKept: a lease ends by a cancellation or a call of its holder.
Ended(j) ==
  \/ CancelJob(j)
  \/ \E o \in 0 .. MaxChapters, for \in SUBSET Job, later \in BOOLEAN :
       RescheduleLease(Now(j).lease, o, for, later)
  \/ \E c \in Call, s \in Terminal :
       CompleteLease(c, s) /\ call[c].lease = Now(j).lease

\* A lease is not taken away by calls of earlier leases of the job: completeLease
\* compares the lease again in its last section, and what replaces or resumes a
\* record without that contests the job.
THEOREM LeasesAreKept == Spec => LeaseKept
<1>1. ASSUME IInv, [Next]_vars, NEW j \in Job, j \notin contested, Known(j),
             Now(j).lease # NoLease, Now(j)'.lease # Now(j).lease
      PROVE  Ended(j)
  <2> DEFINE n == Len(rec[j])
  <2>1. /\ TypeOK /\ Now(j) = rec[j][n] /\ n \in 1 .. n /\ DOMAIN rec[j] = 1 .. n
        /\ Now(j).status = "active"
    BY <1>1, Shapes DEF IInv, TypeOK
  <2>2. CASE rec'[j] = rec[j]
    BY <1>1, <2>2 DEF Now
  <2>3. ASSUME NEW i \in Job, CancelJob(i)
        PROVE  Ended(j)
    <3>1. i # j => rec'[j] = rec[j]
      BY <2>1, <2>3 DEF CancelJob, Write, TypeOK
    <3> QED
      BY <2>2, <2>3, <3>1 DEF Ended
  <2>4. ASSUME NEW i \in Job, NEW prior \in Job, NEW keep \in 0 .. MaxChapters,
               SubmitRestart(i, prior, keep)
        PROVE  Ended(j)
    <3>1. i # j
      BY <1>1, <2>4 DEF SubmitRestart
    <3> QED
      BY <2>1, <2>2, <2>4, <3>1 DEF SubmitRestart, TypeOK
  <2>5. ASSUME NEW l \in LeaseId, NEW looked \in SUBSET Job, NEW due \in BOOLEAN,
               NEW taken, PollWork(looked, taken, l, due)
        PROVE  Ended(j)
    <3>1. j \notin looked
      BY <2>1, <2>5 DEF PollWork
    <3> QED
      BY <2>2, <2>5, <3>1 DEF PollWork
  <2>6. ASSUME NEW l \in LeaseId, NEW o \in 0 .. MaxChapters, NEW for \in SUBSET Job,
               NEW later \in BOOLEAN, RescheduleLease(l, o, for, later)
        PROVE  Ended(j)
    <3>1. grant[l] # j => rec'[j] = rec[j]
      BY <2>1, <2>6 DEF RescheduleLease, Write, TypeOK
    <3>2. grant[l] = j => Now(j).lease = l
      BY <2>6 DEF RescheduleLease
    <3> QED
      BY <2>2, <2>6, <3>1, <3>2 DEF Ended
  <2>7. ASSUME NEW c \in Call, InsertJob(c)
        PROVE  Ended(j)
    <3>1. call[c].job # j
      BY <1>1, <2>7 DEF IInv, SubmitMet, InsertJob, At
    <3> QED
      BY <2>1, <2>2, <2>7, <3>1 DEF InsertJob, TypeOK
  <2>8. ASSUME NEW c \in Call, StoreResult(c)
        PROVE  Ended(j)
    <3>1. CASE call[c].job # j
      BY <2>1, <2>2, <2>8, <3>1 DEF StoreResult, TypeOK
    <3>2. CASE call[c].job = j
      <4>1. PICK m \in 1 .. n : m = call[c].to
        BY <1>1, <2>1, <2>8, <3>2 DEF IInv, CallSound, StoreResult, At
      <4>2. PICK r \in Record : r = [rec[j][m] EXCEPT !.result = TRUE]
                                  /\ r.lease = rec[j][m].lease
        <5>1. PICK q \in Record : q = rec[j][m]
          BY <2>1, Shapes
        <5> DEFINE w == [q EXCEPT !.result = TRUE]
        <5>2. w \in Record /\ w.lease = q.lease
          BY DEF Record
        <5> QED
          BY <5>1, <5>2
      <4>3. rec' = [rec EXCEPT ![j][m] = r]
        BY <2>1, <2>8, <3>2, <4>1, <4>2 DEF StoreResult, TypeOK
      <4>4. story' = story
        BY <2>8 DEF StoreResult
      <4>5. InPlace /\ rec'[j][n] = IF n = m THEN r ELSE rec[j][n]
        <5>1. /\ InPlace
              /\ \A i \in Job : \A q \in 1 .. Len(rec[i]) :
                   rec'[i][q] = IF i = j /\ q = m THEN r ELSE rec[i][q]
          BY <2>1, <4>3, <4>4, WriteShape
        <5> QED
          BY <2>1, <5>1
      <4>6. Now(j)' = rec'[j][n]
        BY <1>1, <2>1, <4>5, InPlaceFacts
      <4> QED
        BY <1>1, <2>1, <4>2, <4>5, <4>6
    <3> QED
      BY <3>1, <3>2
  <2>9. ASSUME NEW c \in Call, NEW s \in Terminal, CompleteLease(c, s)
        PROVE  Ended(j)
    <3>1. CASE call[c].job # j
      BY <2>1, <2>2, <2>9, <3>1 DEF CompleteLease, TypeOK
    <3>2. CASE call[c].job = j
      <4>1. call[c].at \in 1 .. n
        BY <1>1, <2>1, <2>9, <3>2 DEF IInv, CallSound, CompleteLease, At
      <4>2. call[c].at = n
        BY <1>1, <2>1, <4>1 DEF IInv, OneRecord
      <4>3. Now(j).lease = call[c].lease
        BY <2>1, <2>9, <3>2, <4>2 DEF CompleteLease, HasLease, OfCall
      <4> QED
        BY <2>9, <4>3 DEF Ended
    <3> QED
      BY <3>1, <3>2
  <2>10. ASSUME NEW c \in Call, ResumeJob(c)
         PROVE  Ended(j)
    <3>1. call[c].job # j
      BY <1>1, <2>1, <2>10 DEF IInv, CommitClean, ResumeJob, At
    <3> QED
      BY <2>1, <2>2, <2>10, <3>1 DEF ResumeJob, Write, TypeOK
  <2>11. CASE UNCHANGED rec
    BY <2>2, <2>11
  <2> QED
    BY <1>1, <2>3, <2>4, <2>5, <2>6, <2>7, <2>8, <2>9, <2>10, <2>11
    DEF Next, vars, CheckSubmit, BeginCommit, CheckLease, EnsureCompletionChapter,
        StoreChapter, LeaseLost
<1> DEFINE A == \A j \in Job \ contested :
                  Known(j) /\ Now(j).lease # NoLease /\ Now(j)'.lease # Now(j).lease
                    => Ended(j)
<1>2. IInv /\ [Next]_vars => [A]_vars
  BY <1>1
<1>3. [][A]_vars => LeaseKept
  BY PTL DEF LeaseKept, Ended
<1> QED
  BY <1>2, <1>3, Inductive, PTL DEF Spec
=============================================================================
