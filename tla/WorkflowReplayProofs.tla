------------------------ MODULE WorkflowReplayProofs ------------------------
(***************************************************************************)
(* Proofs about WorkflowRunner in steady circumstances: what any number of *)
(* workers write in turns is a story that one of them could have written   *)
(* alone, and nothing that succeeded is run again.                         *)
(***************************************************************************)
EXTENDS WorkflowRunnerProofs

-----------------------------------------------------------------------------
(* Where the story leads                                                   *)

\* What chapters may record in steady circumstances; a failed prerequisite besides
Plain == {"ok", "app", "total"}

\* There are only pauses from step s to step t.
Pauses(s, t) == \A u \in s .. t : flow[u] = "pause"

\* Task chapter c is no success, and its step is not tried again.
Failed(c) ==
  c.kind # "ok" /\ (~StoredRetryable(c.kind) \/ c.attempt = TaskAttempts)

Passed(c) == c.kind = "ok" \/ (Failed(c) /\ flow[c.step] = "lenient")

\* Behind chapter c comes try n of step s, pauses left out; or the end, if s is one
\* past the last step.
LeadsTo(c, s, n) ==
  \/ c.type = "job" /\ ~Final(c) /\ n = 1 /\ Pauses(1, s - 1)
  \/ c.type = "task" /\ Passed(c) /\ n = 1 /\ s > c.step /\ Pauses(c.step + 1, s - 1)
  \/ c.type = "task" /\ c.kind # "ok" /\ ~Failed(c) /\ s = c.step /\ n = c.attempt + 1

\* Who has replayed the story up to ordinal o comes to try n of step s there.
Walk(o, s, n) ==
  IF o = 1 THEN n = 1 /\ Pauses(1, s - 1) ELSE LeadsTo(story[o - 1], s, n)

\* Attempt n of the job may have its outcome at o.
Fresh(o, n) ==
  /\ o > 1 => ~Final(story[o - 1])
  /\ \A p \in 1 .. o - 1 : story[p].type = "job" => story[p].attempt < n

\* Outcome k is what comes at o.
Comes(o, k) ==
  \/ k = "total"
  \/ k = "prereq" /\ "prereq" \in traits
  \/ k = "ok" /\ Walk(o, Len(flow) + 1, 1)
  \/ /\ k = "app" /\ o > 1
     /\ story[o - 1].type = "task" /\ story[o - 1].kind = k
     /\ Failed(story[o - 1]) /\ flow[story[o - 1].step] = "local"

-----------------------------------------------------------------------------
(* The inductive invariant, in steady circumstances                        *)

\* What is in a chapter
ChapterFits(c) ==
  /\ c.type = "task" =>
       /\ c.kind \in Plain /\ flow[c.step] # "pause" /\ c.attempt >= 1
       /\ flow[c.step] = "external" => c.kind = "ok"
       /\ flow[c.step] # "external" => c.attempt <= TaskAttempts
  /\ c.type = "job" =>
       /\ c.kind \in Plain \cup {"prereq"}
       /\ c.kind = "prereq" => "prereq" \in traits
  /\ c.kind = "total" => late

\* Between two outcomes of the job, steps come in order, and once they succeeded no
\* more.
InOrder ==
  \A o, p \in DOMAIN story :
    o < p /\ (\A q \in o .. p : story[q].type = "task") =>
      /\ story[o].step <= story[p].step
      /\ story[o].kind = "ok" => story[o].step < story[p].step

\* Chapter o is in its place: ReplayableStory, chapter by chapter.
Good(o) ==
  /\ o > 1 => ~Final(story[o - 1])
  /\ story[o].type = "job" =>
       \A p \in Outcomes(o - 1) : story[p].attempt < story[o].attempt
  /\ \/ story[o].type = "job" /\ story[o].kind \in {"total", "prereq"}
     \/ IF o = 1 THEN Begins(1, 1) ELSE Follows(o)

StoryFits ==
  /\ \A o \in DOMAIN story : Good(o) /\ ChapterFits(story[o])
  /\ InOrder

\* No attempt of the job ended with the total timeout.
InTime == \A o \in DOMAIN story : ~(story[o].type = "job" /\ story[o].kind = "total")

Waits(x, a) == x.pc = "wait" /\ x.attempt = a

\* What run x of worker r has come to.  Without the lease it may have seen anything,
\* and will not write.
RunFits(r, x) ==
  /\ x.counter \in 1 .. NextOrdinal
  /\ x.pc \in {"begin", "top"} => Fresh(x.counter, x.attempt) /\ Walk(x.counter, 1, 1)
  /\ x.pc \in {"wait", "check"} /\ Leased(r) => Fresh(x.counter, x.attempt)
  /\ x.pc = "check" /\ Leased(r) /\ ~Present(x.counter) => Comes(x.counter, x.kind)
  /\ x.pc = "record" /\ Leased(r) /\ x.at = NextOrdinal =>
       Fresh(x.at, x.attempt) /\ Comes(x.at, x.kind)
  /\ x.pc = "put" /\ x.at = NextOrdinal => Fresh(x.at, x.attempt) /\ Comes(x.at, x.kind)
  /\ x.pc \in {"record", "put"} => x.at \in 1 .. NextOrdinal
  /\ x.pc \in {"check", "record", "put"} /\ x.kind = "total" => late
  /\ x.pc \in {"top", "wait", "check"} => "prereq" \notin traits
  /\ x.pc \in {"record", "put"} /\ x.kind # "prereq" => "prereq" \notin traits
  /\ x.pc \in {"wait", "check"} /\ Leased(r) => InTime

\* Goroutine f is where the story leads whoever replays it.
Stands(x, f) ==
  /\ f.pc = "call" => Walk(x.counter, f.step, f.try)
  /\ f.pc \in {"look", "work", "put"} =>
       f.at = x.counter /\ Walk(f.at, f.step, f.try) /\ flow[f.step] # "pause"
  /\ f.pc \in {"work", "put"} => flow[f.step] # "external"
  /\ f.pc = "put" => f.kind \in Plain
  /\ f.pc \in {"put", "done"} /\ f.kind = "total" => late

\* Goroutine a of run x is waited for, or left behind by the total timeout.
Owned(x, a) ==
  /\ "prereq" \notin traits
  /\ \/ Waits(x, a)
     \/ /\ late /\ x.pc \in {"check", "record", "put", "archive", "off"}
        /\ x.pc \in {"check", "record", "put"} => x.kind = "total"

FnFits(r, x, a, f) ==
  f.pc # "none" =>
    /\ Stands(x, f) /\ Owned(x, a)
    /\ f.pc = "done" =>
         Waits(x, a) /\ (Leased(r) /\ ~Present(x.counter) => Comes(x.counter, f.kind))

RunnerFits(r) ==
  /\ \A x \in RunState : run[r] = x => RunFits(r, x)
  /\ \A a \in Attempt, x \in RunState, f \in FnState :
       run[r] = x /\ fn[r][a] = f => FnFits(r, x, a, f)
  /\ \A a, b \in Attempt : Alive(r, a) /\ Alive(r, b) => a = b

\* Nobody is about to end the job with the total timeout while another worker with
\* the lease still runs an attempt.
OneEnd ==
  \A r, q \in Runner :
    r # q /\ Leased(r) /\ run[r].pc \in {"wait", "check"} =>
      ~(run[q].pc = "put" /\ run[q].kind = "total")

\* The row asks for the step the story leads to.
RowFits ==
  row.need = "task" => row.slot \in 1 .. NextOrdinal /\ Walk(row.slot, row.step, 1)

RInv ==
  /\ StoryFits
  /\ \A r \in Runner : RunnerFits(r)
  /\ OneEnd /\ RowFits

-----------------------------------------------------------------------------
(* What the story says stays said                                          *)

LEMMA Growing ==
  ASSUME TypeOK, TypeOK', Grows
  PROVE  /\ NextOrdinal \in Nat /\ NextOrdinal' \in Nat /\ NextOrdinal <= NextOrdinal'
         /\ \A o : Present(o) => Present(o)'
         /\ \A o \in 1 .. NextOrdinal : ~Present(o) => o = NextOrdinal
         /\ \A o \in 1 .. NextOrdinal : o > 1 => o - 1 \in DOMAIN story
<1>1. Len(story) \in Nat /\ DOMAIN story = 1 .. Len(story)
  BY Shapes
<1>2. Len(story') \in Nat /\ DOMAIN story' = 1 .. Len(story')
  <2>1. story' \in Seq(ChapterSet)
    BY DEF TypeOK, ChapterSet, JobResult, TaskResult
  <2> QED
    BY <2>1, LenProperties
<1>3. Len(story) <= Len(story')
  <2>1. DOMAIN story \subseteq DOMAIN story'
    BY DEF Grows
  <2>2. CASE Len(story) = 0
    BY <1>2, <2>2
  <2>3. CASE Len(story) # 0
    <3>1. Len(story) \in DOMAIN story
      BY <1>1, <2>3
    <3> QED
      BY <1>1, <1>2, <2>1, <3>1
  <2> QED
    BY <2>2, <2>3
<1> QED
  BY <1>1, <1>2, <1>3 DEF NextOrdinal, Present, Grows

LEMMA Said ==
  ASSUME TypeOK, TypeOK', Grows, NEW o \in 1 .. NextOrdinal
  PROVE  /\ \A s, n : Walk(o, s, n) <=> Walk(o, s, n)'
         /\ \A n : Fresh(o, n) <=> Fresh(o, n)'
         /\ \A k : Comes(o, k) <=> Comes(o, k)'
<1>1. /\ NextOrdinal \in Nat /\ o \in Nat /\ o >= 1
      /\ \A p \in 1 .. o - 1 : p \in DOMAIN story /\ story'[p] = story[p]
      /\ flow' = flow /\ traits' = traits
  BY Growing, Shapes DEF Grows, NextOrdinal
<1>2. o > 1 => story'[o - 1] = story[o - 1]
  BY <1>1
<1>3. ASSUME NEW s, NEW n
      PROVE  Walk(o, s, n) <=> Walk(o, s, n)'
  BY <1>1, <1>2 DEF Walk, LeadsTo, Pauses, Passed, Failed, Final
<1>4. ASSUME NEW n
      PROVE  Fresh(o, n) <=> Fresh(o, n)'
  BY <1>1, <1>2 DEF Fresh, Final
<1>5. ASSUME NEW k
      PROVE  Comes(o, k) <=> Comes(o, k)'
  <2>1. PICK s : s = Len(flow) + 1
    OBVIOUS
  <2>2. Walk(o, s, 1) <=> Walk(o, s, 1)'
    BY <1>3
  <2>3. Walk(o, Len(flow) + 1, 1) <=> Walk(o, Len(flow) + 1, 1)'
    BY <1>1, <2>1, <2>2
  <2> QED
    BY <1>1, <1>2, <2>3 DEF Comes, Failed
<1> QED
  BY <1>3, <1>4, <1>5

-----------------------------------------------------------------------------
(* One chapter after another                                               *)

LEMMA BeginsOne ==
  ASSUME TypeOK, NEW o \in DOMAIN story, NEW t \in Nat, NEW s \in DOMAIN flow, t <= s,
         Begins(o, t), Pauses(t, s - 1), flow[s] # "pause"
  PROVE  /\ story[o].type = "task" /\ story[o].step = s
         /\ flow[s] = "external" \/ story[o].attempt = 1
<1>1. s \in 1 .. Len(flow) /\ Len(flow) \in Nat
  BY Shapes
<1>2. ~(\A u \in t .. Len(flow) : flow[u] = "pause")
  BY <1>1
<1>3. /\ story[o].type = "task" /\ story[o].step \in t .. Len(flow)
      /\ flow[story[o].step] # "pause"
      /\ \A u \in t .. story[o].step - 1 : flow[u] = "pause"
      /\ flow[story[o].step] = "external" \/ story[o].attempt = 1
  BY <1>2 DEF Begins
<1>4. story[o].step = s
  BY <1>1, <1>3 DEF Pauses
<1> QED
  BY <1>3, <1>4

\* The chapter at which a goroutine looks is the one it would write itself, unless
\* the job ended there.
LEMMA Meets ==
  ASSUME TypeOK, StoryFits, NEW o \in DOMAIN story, NEW s \in DOMAIN flow, NEW n \in Nat,
         Walk(o, s, n), flow[s] # "pause",
         \A p \in DOMAIN story : story[p].type = "task" => story[p].step \in DOMAIN flow
  PROVE  \/ story[o].type = "job" /\ story[o].kind \in {"total", "prereq"}
         \/ /\ story[o].type = "task" /\ story[o].step = s
            /\ flow[s] = "external" \/ story[o].attempt = n
<1>1. /\ o \in Nat /\ o >= 1 /\ s \in Nat /\ s >= 1 /\ Good(o) /\ story[o] \in ChapterSet
      /\ o > 1 => o - 1 \in DOMAIN story
  BY Shapes DEF StoryFits
<1>2. CASE story[o].type = "job" /\ story[o].kind \in {"total", "prereq"}
  BY <1>2
<1>3. CASE ~(story[o].type = "job" /\ story[o].kind \in {"total", "prereq"})
  <2>1. IF o = 1 THEN Begins(1, 1) ELSE Follows(o)
    BY <1>1, <1>3 DEF Good
  <2>2. CASE o = 1
    BY <1>1, <2>1, <2>2, BeginsOne DEF Walk
  <2>3. CASE o # 1
    <3> DEFINE c == story[o - 1]
    <3>1. Follows(o) /\ LeadsTo(c, s, n) /\ ChapterFits(c) /\ c \in ChapterSet
            /\ (c.type = "task" => c.step \in DOMAIN flow)
      BY <1>1, <2>1, <2>3, Shapes DEF Walk, StoryFits
    <3>2. CASE c.type = "job"
      <4>1. Begins(o, 1) /\ n = 1 /\ Pauses(1, s - 1)
        BY <3>1, <3>2 DEF Follows, LeadsTo
      <4> QED
        BY <1>1, <4>1, BeginsOne
    <3>3. CASE c.type = "task" /\ Passed(c)
      <4>1. Begins(o, c.step + 1)
        BY <3>1, <3>3 DEF Follows, Passed, Failed
      <4>2. n = 1 /\ s > c.step /\ Pauses(c.step + 1, s - 1) /\ c.step \in Nat
        BY <3>1, <3>3, Shapes DEF LeadsTo, Passed, ChapterSet
      <4> QED
        BY <1>1, <4>1, <4>2, BeginsOne
    <3>4. CASE c.type = "task" /\ ~Passed(c)
      <4>1. c.kind # "ok" /\ ~Failed(c) /\ s = c.step /\ n = c.attempt + 1
        BY <3>1, <3>4 DEF LeadsTo, Passed
      <4>2. story[o] = TaskChapter(c.step, c.attempt + 1, story[o].kind)
        BY <3>1, <3>4, <4>1 DEF Follows, Failed
      <4> QED
        BY <4>1, <4>2 DEF TaskChapter
    <3> QED
      BY <3>1, <3>2, <3>3, <3>4 DEF ChapterSet
  <2> QED
    BY <2>2, <2>3
<1> QED
  BY <1>2, <1>3

\* What may be appended: the attempt at a task to which the story leads, or an outcome
\* of the job that comes now.
Suits(c) ==
  /\ c \in ChapterSet
  /\ c.type = "task" =>
       /\ c.step \in DOMAIN flow
       /\ \E n \in Nat : /\ Walk(NextOrdinal, c.step, n)
                         /\ \/ c.attempt = n
                            \/ n = 1 /\ flow[c.step] = "external"
  /\ c.type = "job" => Fresh(NextOrdinal, c.attempt) /\ Comes(NextOrdinal, c.kind)

StoryGoesOn ==
  \/ story' = story
  \/ \E c \in ChapterSet : Append1(c) /\ Suits(c) /\ ChapterFits(c)'

LEMMA BeginsNext ==
  ASSUME TypeOK, flow' = flow, NEW o, NEW t \in Nat, t >= 1,
         \/ /\ story'[o].type = "task" /\ story'[o].step \in DOMAIN flow
            /\ t <= story'[o].step /\ Pauses(t, story'[o].step - 1)
            /\ flow[story'[o].step] # "pause"
            /\ flow[story'[o].step] = "external" \/ story'[o].attempt = 1
         \/ /\ story'[o].type = "job" /\ story'[o].kind = "ok"
            /\ Pauses(t, Len(flow))
  PROVE  Begins(o, t)'
<1>1. Len(flow) \in Nat /\ DOMAIN flow = 1 .. Len(flow)
  BY Shapes
<1>2. CASE story'[o].type = "job"
  BY <1>1, <1>2 DEF Begins, Pauses
<1>3. CASE story'[o].type = "task"
  <2>1. story'[o].step \in t .. Len(flow)
    BY <1>1, <1>3
  <2> QED
    BY <1>1, <1>3, <2>1 DEF Begins, Pauses
<1> QED
  BY <1>2, <1>3

LEMMA NextFollows ==
  ASSUME TypeOK, StoryFits, Grows, NEW c \in ChapterSet, Append1(c), Suits(c), ChapterFits(c)',
         c.type = "task" \/ c.kind \notin {"total", "prereq"},
         \A p \in DOMAIN story : story[p].type = "task" => story[p].step \in DOMAIN flow,
         NEW n, n = NextOrdinal
  PROVE  IF n = 1 THEN Begins(1, 1)' ELSE Follows(n)'
<1>1. /\ n \in 1 .. MaxStory /\ n \in Nat /\ DOMAIN story = 1 .. n - 1 /\ story'[n] = c
      /\ n > 1 => n - 1 \in DOMAIN story /\ story'[n - 1] = story[n - 1]
      /\ flow' = flow
  BY AppendFacts, Numbers DEF Grows
<1>2. /\ c.type = "task" => c.step \in DOMAIN flow /\ c.step \in Nat /\ c.step >= 1
                            /\ flow[c.step] # "pause"
      /\ c.type \in {"task", "job"} /\ Len(flow) \in Nat /\ DOMAIN flow = 1 .. Len(flow)
  BY <1>1, Shapes DEF Suits, ChapterFits, ChapterSet
\* where c comes, and how
<1>3. PICK s, m : /\ m \in Nat /\ s \in Nat
                  /\ \/ /\ c.type = "task" /\ s = c.step /\ Walk(n, s, m)
                        /\ c.attempt = m \/ (m = 1 /\ flow[c.step] = "external")
                     \/ /\ c.type = "job" /\ c.kind = "ok" /\ s = Len(flow) + 1 /\ m = 1
                        /\ Walk(n, s, m)
                     \/ /\ c.type = "job" /\ c.kind = "app" /\ n > 1 /\ s = 0 /\ m = 0
                        /\ story[n - 1].type = "task" /\ story[n - 1].kind = "app"
                        /\ Failed(story[n - 1]) /\ flow[story[n - 1].step] = "local"
  <2>1. CASE c.type = "task"
    BY <1>2, <2>1 DEF Suits
  <2>2. CASE c.type = "job" /\ c.kind = "ok"
    BY <1>2, <2>2 DEF Suits, Comes
  <2>3. CASE c.type = "job" /\ c.kind # "ok"
    BY <1>2, <2>3 DEF Suits, Comes
  <2> QED
    BY <1>2, <2>1, <2>2, <2>3
\* Whoever comes to s through pauses only begins there.
<1>4. ASSUME NEW t \in Nat, t >= 1, t <= s, Pauses(t, s - 1), m = 1, c.type = "task" \/ c.kind = "ok"
      PROVE  Begins(n, t)'
  <2>1. \/ /\ c.type = "task" /\ c.step \in DOMAIN flow
           /\ t <= c.step /\ Pauses(t, c.step - 1)
           /\ flow[c.step] # "pause"
           /\ flow[c.step] = "external" \/ c.attempt = 1
        \/ /\ c.type = "job" /\ c.kind = "ok"
           /\ Pauses(t, Len(flow))
    <3>1. CASE c.type = "task"
      BY <1>2, <1>3, <1>4, <3>1
    <3>2. CASE c.type = "job"
      <4>1. s = Len(flow) + 1 /\ s - 1 = Len(flow)
        BY <1>2, <1>3, <1>4, <3>2
      <4> QED
        BY <1>4, <3>2, <4>1
    <3> QED
      BY <1>2, <3>1, <3>2
  <2>2. story'[n] = c /\ flow' = flow
    BY <1>1
  <2> QED
    BY <1>4, <2>1, <2>2, BeginsNext
<1>5. CASE n = 1
  <2>1. m = 1 /\ Pauses(1, s - 1) /\ (c.type = "task" \/ c.kind = "ok") /\ s >= 1
    BY <1>2, <1>3, <1>5 DEF Walk
  <2>2. Begins(n, 1)'
    BY <1>4, <2>1
  <2> QED
    BY <1>5, <2>2
<1>6. CASE n # 1
  <2> DEFINE d == story[n - 1]
  <2>1. /\ d \in ChapterSet /\ ChapterFits(d) /\ story'[n - 1] = d /\ d.type \in {"task", "job"}
        /\ d.type = "task" => d.step \in DOMAIN flow /\ d.step \in Nat /\ d.step >= 1
                              /\ d.attempt >= 1 /\ d.attempt \in Nat
    <3>1. n - 1 \in DOMAIN story /\ story'[n - 1] = d
      BY <1>1, <1>6
    <3>2. d \in ChapterSet /\ ChapterFits(d)
      BY <3>1, Shapes DEF StoryFits
    <3>3. d.type = "task" => d.step \in DOMAIN flow
      BY <3>1
    <3> HIDE DEF d
    <3>4. d.type \in {"task", "job"} /\ d.attempt \in Nat
      BY <3>2 DEF ChapterSet
    <3>5. d.type = "task" => d.step \in Nat /\ d.step >= 1 /\ d.attempt >= 1
      BY <1>2, <3>2, <3>3 DEF ChapterFits
    <3> QED
      BY <3>1, <3>2, <3>3, <3>4, <3>5
  <2>2. CASE c.type = "task" \/ c.kind = "ok"
    <3>1. LeadsTo(d, s, m)
      BY <1>3, <1>6, <2>2 DEF Walk
    <3>2. CASE d.type = "job"
      <4>1. Begins(n, 1)' /\ ~Final(d)
        <5>1. m = 1 /\ Pauses(1, s - 1) /\ ~Final(d)
          BY <3>1, <3>2 DEF LeadsTo
        <5>2. s >= 1
          BY <1>2, <1>3, <2>2
        <5> QED
          BY <1>4, <2>2, <5>1, <5>2
      <4> QED
        BY <2>1, <3>2, <4>1 DEF Follows, Final
    <3>3. CASE d.type = "task" /\ Passed(d)
      <4>1. m = 1 /\ s > d.step /\ Pauses(d.step + 1, s - 1)
        BY <3>1, <3>3 DEF LeadsTo, Passed
      <4>2. PICK t \in Nat : t = d.step + 1
        BY <2>1, <3>3
      <4>3. Begins(n, t)'
        BY <1>3, <1>4, <2>1, <2>2, <3>3, <4>1, <4>2
      <4>4. Begins(n, d.step + 1)'
        BY <2>1, <4>2, <4>3
      <4> QED
        BY <1>1, <1>6, <2>1, <3>3, <4>4 DEF Follows, Passed, Failed
    <3>4. CASE d.type = "task" /\ ~Passed(d)
      <4>1. d.kind # "ok" /\ ~Failed(d) /\ s = d.step /\ m = d.attempt + 1
        BY <3>1, <3>4 DEF LeadsTo, Passed
      <4>2. c.type = "task" /\ c.attempt = m /\ c.step = d.step
        BY <1>2, <1>3, <2>1, <2>2, <3>4, <4>1
      <4>3. c = TaskChapter(d.step, d.attempt + 1, c.kind)
        BY <4>1, <4>2 DEF TaskChapter, ChapterSet
      <4> QED
        BY <1>1, <1>6, <2>1, <3>4, <4>1, <4>3 DEF Follows, Failed
    <3> QED
      BY <2>1, <3>2, <3>3, <3>4
  <2>3. CASE ~(c.type = "task" \/ c.kind = "ok")
    <3>1. /\ c.type = "job" /\ c.kind = "app"
          /\ d.type = "task" /\ d.kind = "app" /\ Failed(d) /\ flow[d.step] = "local"
      BY <1>3, <2>3
    <3> QED
      BY <1>1, <1>6, <2>1, <3>1 DEF Follows, Failed
  <2> QED
    BY <1>6, <2>2, <2>3
<1> QED
  BY <1>5, <1>6

LEMMA StoryGoes ==
  ASSUME IInv, IInv', StoryFits, Grows, StoryGoesOn, late => late'
  PROVE  StoryFits'
<1>1. /\ TypeOK /\ traits' = traits /\ flow' = flow
      /\ \A p \in DOMAIN story : story[p].type = "task" => story[p].step \in DOMAIN flow
  BY DEF IInv, Grows
<1>2. CASE story' = story
  BY <1>1, <1>2 DEF StoryFits, Good, InOrder, ChapterFits, Outcomes, Begins, Follows, Final
<1>3. CASE story' # story
  <2>1. PICK c \in ChapterSet : Append1(c) /\ Suits(c) /\ ChapterFits(c)'
    BY <1>3 DEF StoryGoesOn
  <2>2. PICK n : n = NextOrdinal
    OBVIOUS
  <2>3. /\ n \in 1 .. MaxStory /\ n \in Nat /\ DOMAIN story = 1 .. n - 1 /\ story'[n] = c
        /\ DOMAIN story' = 1 .. n
        /\ \A o \in 1 .. n - 1 : story'[o] = story[o]
        /\ n > 1 => n - 1 \in DOMAIN story /\ story'[n - 1] = story[n - 1]
    BY <1>1, <2>1, <2>2, AppendFacts, Numbers
  <2>4. ASSUME NEW o \in DOMAIN story'
        PROVE  ChapterFits(story[o])'
    <3>1. CASE o = n
      BY <2>1, <2>3, <3>1 DEF ChapterFits
    <3>2. CASE o \in 1 .. n - 1
      <4>1. ChapterFits(story[o]) /\ story'[o] = story[o]
        BY <2>3, <3>2 DEF StoryFits
      <4> QED
        BY <1>1, <4>1 DEF ChapterFits
    <3> QED
      BY <2>3, <3>1, <3>2
  <2>5. n > 1 => ~Final(story[n - 1])
    <3>1. CASE c.type = "job"
      BY <2>1, <2>2, <3>1 DEF Suits, Fresh
    <3>2. CASE c.type = "task"
      BY <2>1, <2>2, <2>3, <3>2 DEF Suits, Walk, LeadsTo, Final
    <3> QED
      BY <3>1, <3>2 DEF ChapterSet
  <2>6. c.type = "job" => \A p \in 1 .. n - 1 : story[p].type = "job" => story[p].attempt < c.attempt
    BY <2>1, <2>2 DEF Suits, Fresh
  <2>7. \/ c.type = "job" /\ c.kind \in {"total", "prereq"}
        \/ c.type = "task"
        \/ c.kind \notin {"total", "prereq"}
    BY DEF ChapterSet
  <2>8. \/ c.type = "job" /\ c.kind \in {"total", "prereq"}
        \/ IF n = 1 THEN Begins(1, 1)' ELSE Follows(n)'
    BY <1>1, <2>1, <2>2, <2>7, NextFollows
  <2>9. Good(n)'
    <3>1. n > 1 => ~Final(story'[n - 1])
      BY <2>3, <2>5
    <3>2. \A p \in Outcomes(n - 1)' : story'[p].type = "job" /\ p \in 1 .. n - 1
      BY DEF Outcomes
    <3>3. c.type = "job" => \A p \in Outcomes(n - 1)' : story'[p].attempt < c.attempt
      BY <2>3, <2>6, <3>2
    <3>4. story'[n] = c /\ n \in Nat
      BY <2>3
    <3> QED
      BY <2>8, <3>1, <3>3, <3>4 DEF Good, Final
  <2>10. ASSUME NEW o \in 1 .. n - 1
         PROVE  Good(o)'
    <3>1. o \in Nat /\ o >= 1 /\ Good(o) /\ story'[o] = story[o]
            /\ (o > 1 => story'[o - 1] = story[o - 1])
      BY <2>3 DEF StoryFits
    <3>2. Outcomes(o - 1)' = Outcomes(o - 1)
            /\ \A p \in Outcomes(o - 1) : story'[p] = story[p]
      BY <2>3, <3>1 DEF Outcomes
    <3>3. (o = 1 => (Begins(1, 1)' <=> Begins(1, 1))) /\ (o # 1 => (Follows(o)' <=> Follows(o)))
      <4>1. CASE o = 1
        BY <1>1, <3>1, <4>1 DEF Begins
      <4>2. CASE o # 1
        <5>1. \A t : Begins(o, t)' <=> Begins(o, t)
          BY <1>1, <3>1 DEF Begins
        <5>2. PICK c1 : c1 = story[o - 1] /\ c1 = story'[o - 1]
          BY <3>1, <4>2
        <5>3. Begins(o, c1.step + 1)' <=> Begins(o, c1.step + 1)
          BY <5>1
        <5> QED
          BY <1>1, <3>1, <4>2, <5>1, <5>2, <5>3 DEF Follows, Final
      <4> QED
        BY <4>1, <4>2
    <3> QED
      BY <3>1, <3>2, <3>3 DEF Good, Final
  <2>11. InOrder'
    <3> SUFFICES ASSUME NEW o \in 1 .. n, NEW p \in 1 .. n, o < p,
                        \A q \in o .. p : story'[q].type = "task"
                 PROVE  /\ story'[o].step <= story'[p].step
                        /\ story'[o].kind = "ok" => story'[o].step < story'[p].step
      BY <2>3 DEF InOrder
    <3>1. CASE p # n
      <4>1. o \in DOMAIN story /\ p \in DOMAIN story /\ \A q \in o .. p : q \in DOMAIN story
        BY <2>3, <3>1
      <4>2. \A q \in o .. p : story'[q] = story[q]
        BY <2>3, <4>1
      <4>3. o \in o .. p /\ p \in o .. p
        OBVIOUS
      <4> QED
        BY <4>1, <4>2, <4>3 DEF StoryFits, InOrder
    <3>2. CASE p = n
      <4> DEFINE d == story[n - 1]
      <4>1. c.type = "task" /\ d.type = "task" /\ d \in ChapterSet /\ n > 1 /\ c.step \in Nat
              /\ d.step \in Nat /\ story[o] \in ChapterSet /\ o \in DOMAIN story
              /\ story'[o] = story[o]
        <5>1. n \in o .. p /\ n - 1 \in o .. p /\ o \in 1 .. n - 1
          BY <3>2
        <5>2. story'[n].type = "task" /\ story'[n - 1].type = "task"
          BY <5>1
        <5>3. n - 1 \in DOMAIN story /\ o \in DOMAIN story /\ story'[o] = story[o] /\ n > 1
          BY <2>3, <5>1
        <5>4. d \in ChapterSet /\ story[o] \in ChapterSet
          BY <1>1, <5>3, Shapes
        <5>5. c.type = "task" /\ d.type = "task"
          BY <2>3, <5>2, <5>3
        <5> QED
          BY <5>3, <5>4, <5>5 DEF ChapterSet
      <4>2. d.step <= c.step /\ (d.kind = "ok" => d.step < c.step)
        <5>1. PICK m \in Nat : Walk(n, c.step, m)
          BY <2>1, <2>2, <4>1 DEF Suits
        <5>2. LeadsTo(d, c.step, m)
          BY <4>1, <5>1 DEF Walk
        <5> QED
          BY <4>1, <5>2 DEF LeadsTo
      <4>3. CASE o = n - 1
        BY <2>3, <3>2, <4>1, <4>2, <4>3
      <4>4. CASE o # n - 1
        <5>1. /\ n - 1 \in DOMAIN story /\ o < n - 1
              /\ \A q \in o .. n - 1 : q \in o .. p /\ q \in DOMAIN story
          BY <2>3, <3>2, <4>1, <4>4
        <5>2. \A q \in o .. n - 1 : story[q].type = "task"
          BY <2>3, <5>1
        <5>3. story[o].step <= d.step /\ (story[o].kind = "ok" => story[o].step < d.step)
          BY <4>1, <5>1, <5>2 DEF StoryFits, InOrder
        <5> HIDE DEF d
        <5>4. story[o].step \in Nat
          BY <4>1 DEF ChapterSet
        <5>5. story'[p].step = c.step
          BY <2>3, <3>2
        <5> QED
          BY <4>1, <4>2, <5>3, <5>4, <5>5
      <4> QED
        BY <4>3, <4>4
    <3> QED
      BY <3>1, <3>2
  <2>12. \A o \in 1 .. n : o = n \/ o \in 1 .. n - 1
    BY <2>3
  <2> QED
    BY <2>3, <2>4, <2>9, <2>10, <2>11, <2>12 DEF StoryFits
<1> QED
  BY <1>2, <1>3

-----------------------------------------------------------------------------
(* What a step of one worker leaves alone                                  *)

LEMMA RunStays ==
  ASSUME TypeOK, TypeOK', Grows, late => late', NEW r, NEW x \in RunState, RunFits(r, x),
         Leased(r)' => Leased(r),
         x.pc \in {"wait", "check"} /\ Leased(r)' => InTime'
  PROVE  RunFits(r, x)'
<1>1. /\ x.counter \in 1 .. NextOrdinal /\ (x.pc \in {"record", "put"} => x.at \in 1 .. NextOrdinal)
      /\ NextOrdinal \in Nat /\ NextOrdinal' \in Nat /\ NextOrdinal <= NextOrdinal'
      /\ traits' = traits
  BY Growing DEF RunFits, Grows
<1>2. /\ x.counter \in 1 .. NextOrdinal'
      /\ x.pc \in {"record", "put"} =>
           x.at \in 1 .. NextOrdinal' /\ (x.at = NextOrdinal' => x.at = NextOrdinal)
  BY <1>1
<1>3. x.pc \in {"begin", "top"} => Fresh(x.counter, x.attempt)' /\ Walk(x.counter, 1, 1)'
  BY <1>1, Said DEF RunFits
<1>4. x.pc \in {"wait", "check"} /\ Leased(r)' => Fresh(x.counter, x.attempt)'
  BY <1>1, Said DEF RunFits
<1>5. x.pc = "check" /\ Leased(r)' /\ ~Present(x.counter)' => Comes(x.counter, x.kind)'
  BY <1>1, Said, Growing DEF RunFits
<1>6. x.pc = "record" /\ Leased(r)' /\ x.at = NextOrdinal' =>
        Fresh(x.at, x.attempt)' /\ Comes(x.at, x.kind)'
  BY <1>1, <1>2, Said DEF RunFits
<1>7. x.pc = "put" /\ x.at = NextOrdinal' => Fresh(x.at, x.attempt)' /\ Comes(x.at, x.kind)'
  BY <1>1, <1>2, Said DEF RunFits
<1>8. /\ x.pc \in {"check", "record", "put"} /\ x.kind = "total" => late'
      /\ x.pc \in {"top", "wait", "check"} => "prereq" \notin traits'
      /\ x.pc \in {"record", "put"} /\ x.kind # "prereq" => "prereq" \notin traits'
  BY <1>1 DEF RunFits
<1> QED
  BY <1>2, <1>3, <1>4, <1>5, <1>6, <1>7, <1>8 DEF RunFits

LEMMA StandsStays ==
  ASSUME TypeOK, TypeOK', Grows, late => late', NEW x, x.counter \in 1 .. NextOrdinal,
         NEW f, Stands(x, f)
  PROVE  Stands(x, f)'
<1>1. flow' = flow
  BY DEF Grows
<1>2. f.pc = "call" => Walk(x.counter, f.step, f.try)'
  BY Said DEF Stands
<1>3. f.pc \in {"look", "work", "put"} => f.at = x.counter /\ Walk(f.at, f.step, f.try)'
  BY Said DEF Stands
<1> QED
  BY <1>1, <1>2, <1>3 DEF Stands

LEMMA FnStays ==
  ASSUME TypeOK, TypeOK', Grows, late => late', NEW r, NEW x, x.counter \in 1 .. NextOrdinal,
         NEW a, NEW f, FnFits(r, x, a, f), Leased(r)' => Leased(r)
  PROVE  FnFits(r, x, a, f)'
<1>1. f.pc # "none" => Stands(x, f)' /\ Owned(x, a)'
  BY StandsStays DEF FnFits, Owned, Waits, Grows
<1>2. f.pc = "done" /\ Leased(r)' /\ ~Present(x.counter)' => Comes(x.counter, f.kind)'
  BY Said, Growing DEF FnFits
<1> QED
  BY <1>1, <1>2 DEF FnFits, Waits

LEMMA RunnerStays ==
  ASSUME IInv, IInv', Grows, late => late', NEW r \in Runner, RunnerFits(r),
         run'[r] = run[r], fn'[r] = fn[r], Leased(r)' => Leased(r),
         run[r].pc \in {"wait", "check"} /\ Leased(r)' => InTime'
  PROVE  RunnerFits(r)'
<1>1. TypeOK /\ TypeOK' /\ FnState' = FnState
  BY DEF IInv, FnState, Grows
<1>2. ASSUME NEW x \in RunState, run'[r] = x
      PROVE  RunFits(r, x)' /\ RunFits(r, x)
  BY <1>1, <1>2, RunStays DEF RunnerFits
<1>3. ASSUME NEW a \in Attempt, NEW x \in RunState, NEW f \in FnState,
             run'[r] = x /\ fn'[r][a] = f
      PROVE  FnFits(r, x, a, f)'
  <2>1. x.counter \in 1 .. NextOrdinal
    BY <1>2, <1>3 DEF RunFits
  <2>2. FnFits(r, x, a, f)
    BY <1>3 DEF RunnerFits
  <2> QED
    BY <1>1, <2>1, <2>2, FnStays
<1>4. \A a, b \in Attempt : Alive(r, a)' /\ Alive(r, b)' => a = b
  BY DEF RunnerFits, Alive
<1> QED
  BY <1>1, <1>2, <1>3, <1>4 DEF RunnerFits

LEMMA RunnerGoes ==
  ASSUME Grows, NEW r \in Runner, NEW x, run'[r] = x, RunFits(r, x)',
         \A a \in Attempt, f \in FnState : fn'[r][a] = f => FnFits(r, x, a, f)',
         \A a, b \in Attempt : fn'[r][a].pc # "none" /\ fn'[r][b].pc # "none" => a = b
  PROVE  RunnerFits(r)'
<1>1. FnState' = FnState
  BY DEF FnState, Grows
<1> QED
  BY <1>1 DEF RunnerFits, Alive

\* The one worker that acts
Acts(r) ==
  /\ \A q \in Runner \ {r} :
       /\ run'[q] = run[q] /\ fn'[q] = fn[q] /\ (Leased(q)' => Leased(q))
       /\ Leased(q) /\ run[q].pc \in {"wait", "check"} => InTime'
  /\ run'[r].pc \in {"wait", "check"} /\ Leased(r)' =>
       (run[r].pc \in {"wait", "check"} /\ Leased(r)) \/ ~late
  /\ run'[r].pc = "put" /\ run'[r].kind = "total" =>
       (run[r].pc = "put" /\ run[r].kind = "total") \/ Leased(r)

LEMMA ActKeeps ==
  ASSUME IInv, IInv', RInv, Grows, late => late', StoryGoesOn, NEW r \in Runner, Acts(r),
         RunnerFits(r)', RowFits'
  PROVE  RInv'
<1>1. StoryFits'
  BY StoryGoes DEF RInv
<1>2. ASSUME NEW q \in Runner
      PROVE  RunnerFits(q)'
  <2>1. CASE q = r
    BY <2>1
  <2>2. CASE q # r
    BY <2>2, RunnerStays DEF Acts, RInv
  <2> QED
    BY <2>1, <2>2
<1>3. \A q \in Runner : run[q].pc = "put" /\ run[q].kind = "total" => late
  BY Shapes DEF RInv, RunnerFits, RunFits, IInv
<1>4. OneEnd'
  <2> SUFFICES ASSUME NEW p \in Runner, NEW q \in Runner, p # q, Leased(p)',
                      run'[p].pc \in {"wait", "check"},
                      run'[q].pc = "put", run'[q].kind = "total"
               PROVE  FALSE
    BY DEF OneEnd
  <2>1. CASE p # r /\ q # r
    BY <2>1 DEF Acts, RInv, OneEnd
  <2>2. CASE p = r
    BY <1>3, <2>2 DEF Acts, RInv, OneEnd
  <2>3. CASE q = r
    <3>1. Leased(p) /\ run[p].pc \in {"wait", "check"}
      BY <2>3 DEF Acts
    <3>2. ~Leased(r)
      BY <2>3, <3>1 DEF Leased
    <3> QED
      BY <2>3, <3>1, <3>2 DEF Acts, RInv, OneEnd
  <2> QED
    BY <2>1, <2>2, <2>3
<1> QED
  BY <1>1, <1>2, <1>4 DEF RInv

LEMMA RowStays ==
  ASSUME TypeOK, TypeOK', Grows, RowFits,
         row'.need = "task" => row.need = "task" /\ row'.slot = row.slot /\ row'.step = row.step
  PROVE  RowFits'
<1>1. ASSUME row'.need = "task"
      PROVE  row'.slot \in 1 .. NextOrdinal' /\ Walk(row.slot, row.step, 1)'
  <2>1. PICK o, s : o = row.slot /\ s = row.step
    OBVIOUS
  <2>2. o \in 1 .. NextOrdinal /\ Walk(o, s, 1) /\ o = row'.slot /\ s = row'.step
    BY <1>1, <2>1 DEF RowFits
  <2>3. Walk(o, s, 1)' /\ o \in 1 .. NextOrdinal'
    BY <2>2, Said, Growing
  <2> QED
    BY <2>2, <2>3 DEF Walk
<1> QED
  BY <1>1 DEF RowFits

LEMMA InTimeStays ==
  ASSUME TypeOK, InTime,
         \/ story' = story
         \/ \E c \in ChapterSet : Append1(c) /\ ~(c.type = "job" /\ c.kind = "total")
  PROVE  InTime'
<1>1. CASE story' = story
  BY <1>1 DEF InTime
<1>2. CASE story' # story
  <2>1. PICK c \in ChapterSet : Append1(c) /\ ~(c.type = "job" /\ c.kind = "total")
    BY <1>2
  <2>2. \A o \in DOMAIN story' : story'[o] = c \/ (o \in DOMAIN story /\ story'[o] = story[o])
    <3>1. PICK n : n = NextOrdinal
      OBVIOUS
    <3>2. /\ n = Len(story) + 1 /\ Len(story) \in Nat /\ DOMAIN story' = 1 .. n
          /\ DOMAIN story = 1 .. Len(story) /\ story'[n] = c
          /\ \A o \in DOMAIN story : story'[o] = story[o]
      BY <2>1, <3>1, AppendFacts, Shapes
    <3> QED
      BY <3>2
  <2> QED
    BY <2>1, <2>2 DEF InTime
<1> QED
  BY <1>1, <1>2

-----------------------------------------------------------------------------
(* Steps of goroutines                                                     *)

LEMMA OffFits ==
  ASSUME NEW r, NEW x, x.pc = "off", x.counter \in 1 .. NextOrdinal
  PROVE  RunFits(r, x)
  BY DEF RunFits

LEMMA NoneFits ==
  ASSUME NEW r, NEW x, NEW a, NEW f, f.pc = "none"
  PROVE  FnFits(r, x, a, f)
  BY DEF FnFits

\* What holds where goroutine a is under way
LEMMA Under ==
  ASSUME IInv, RInv, NEW r \in Runner, NEW a \in Attempt, fn[r][a].pc # "none"
  PROVE  \E x \in RunState, f \in FnState :
           /\ x = run[r] /\ f = fn[r][a] /\ TypeOK
           /\ RunFits(r, x) /\ FnFits(r, x, a, f) /\ Stands(x, f) /\ Owned(x, a)
           /\ x.counter \in 1 .. NextOrdinal /\ NextOrdinal \in Nat
           /\ \A b \in Attempt \ {a} : fn[r][b].pc = "none"
<1>1. PICK x \in RunState, f \in FnState : x = run[r] /\ f = fn[r][a]
  BY Shapes DEF IInv
<1>2. RunFits(r, x) /\ FnFits(r, x, a, f)
  BY <1>1 DEF RInv, RunnerFits
<1>3. Stands(x, f) /\ Owned(x, a)
  BY <1>1, <1>2 DEF FnFits
<1>4. \A b \in Attempt \ {a} : fn[r][b].pc = "none"
  BY DEF RInv, RunnerFits, Alive
<1>5. TypeOK /\ NextOrdinal \in Nat
  BY Shapes DEF IInv, NextOrdinal
<1> QED
  BY <1>1, <1>2, <1>3, <1>4, <1>5 DEF RunFits

\* A goroutine becomes g, and with it its run x, while the worker at most loses its lease.
LEMMA GoroutineKeeps ==
  ASSUME IInv, IInv', RInv, Grows, late' = late, NEW r \in Runner, NEW a \in Attempt,
         fn[r][a].pc # "none",
         NEW x \in RunState, run' = [run EXCEPT ![r] = x],
         NEW g \in FnState, fn' = [fn EXCEPT ![r][a] = g],
         x.pc = "off" \/ (x.pc = run[r].pc /\ x.kind = run[r].kind),
         RunFits(r, x)', FnFits(r, x, a, g)', RowFits',
         \A q \in Runner : Leased(q)' => Leased(q),
         \/ story' = story
         \/ \E c \in ChapterSet : /\ Append1(c) /\ Suits(c) /\ ChapterFits(c)'
                                  /\ c.type = "task"
  PROVE  RInv'
<1>1. TypeOK /\ TypeOK' /\ fn \in [Runner -> [Attempt -> FnState]] /\ run \in [Runner -> RunState]
  BY Shapes DEF IInv
<1>2. \A b \in Attempt \ {a} : fn[r][b].pc = "none"
  BY Under
<1>3. /\ run'[r] = x /\ fn'[r][a] = g /\ \A b \in Attempt \ {a} : fn'[r][b] = fn[r][b]
      /\ \A q \in Runner \ {r} : run'[q] = run[q] /\ fn'[q] = fn[q]
  BY <1>1
<1>4. RunnerFits(r)'
  <2>1. ASSUME NEW b \in Attempt, NEW f \in FnState, fn'[r][b] = f
        PROVE  FnFits(r, x, b, f)'
    <3>1. CASE b = a
      BY <1>3, <2>1, <3>1
    <3>2. CASE b # a
      BY <1>2, <1>3, <2>1, <3>2 DEF FnFits
    <3> QED
      BY <3>1, <3>2
  <2>2. \A b, d \in Attempt : fn'[r][b].pc # "none" /\ fn'[r][d].pc # "none" => b = d
    BY <1>2, <1>3
  <2> QED
    BY <1>3, <2>1, <2>2, RunnerGoes
<1>5. StoryGoesOn
  BY DEF StoryGoesOn
<1>6. Acts(r)
  <2>1. \A q \in Runner : Leased(q) /\ run[q].pc \in {"wait", "check"} => InTime'
    <3>1. \A q \in Runner : Leased(q) /\ run[q].pc \in {"wait", "check"} => InTime
      BY <1>1 DEF RInv, RunnerFits, RunFits
    <3> QED
      BY <1>1, <3>1, InTimeStays
  <2> QED
    BY <1>3, <2>1 DEF Acts
<1> QED
  BY <1>4, <1>5, <1>6, ActKeeps

\* A goroutine becomes g, or is dropped since nobody waits for it.
LEMMA MoveKeeps ==
  ASSUME IInv, IInv', RInv, Grows, NEW r \in Runner, NEW a \in Attempt,
         fn[r][a].pc # "none", NEW g \in FnState, NEW h \in {g, NoFn},
         fn' = [fn EXCEPT ![r][a] = h],
         h = g => FnFits(r, run[r], a, g),
         UNCHANGED <<flow, traits, story, row, late, run>>
  PROVE  RInv'
<1>1. PICK x \in RunState : x = run[r]
  BY Under
<1>2. /\ TypeOK /\ TypeOK' /\ run \in [Runner -> RunState] /\ RunFits(r, x)
      /\ x.counter \in 1 .. NextOrdinal /\ NoFn \in FnState /\ NoFn.pc = "none"
  BY <1>1, Under, NoFacts, Shapes DEF IInv
<1>3. run' = [run EXCEPT ![r] = x]
  BY <1>1, <1>2
<1>4. UNCHANGED <<row, late, story>> /\ \A q : Leased(q)' = Leased(q)
  BY DEF Leased
<1>5. FnFits(r, x, a, h)
  BY <1>1, <1>2, NoneFits
<1>6. FnFits(r, x, a, h)'
  BY <1>2, <1>4, <1>5, FnStays
<1>7. RunFits(r, x)'
  <2>1. x.pc \in {"wait", "check"} /\ Leased(r)' => InTime'
    BY <1>2, <1>4 DEF RunFits, InTime
  <2> QED
    BY <1>2, <1>4, <2>1, RunStays
<1>8. RowFits'
  BY <1>2, <1>4, RowStays DEF RInv
<1> QED
  BY <1>1, <1>2, <1>3, <1>4, <1>6, <1>7, <1>8, GoroutineKeeps

LEMMA CallKeeps ==
  ASSUME IInv, IInv', RInv, Grows, NEW r \in Runner, NEW a \in Attempt, CallTask(r, a)
  PROVE  RInv'
<1>1. PICK x \in RunState, f \in FnState :
        x = run[r] /\ f = fn[r][a] /\ TypeOK /\ Stands(x, f) /\ Owned(x, a)
  BY Under DEF CallTask
<1> DEFINE g == [f EXCEPT !.pc = "look", !.at = x.counter]
<1>2. /\ f.pc = "call" /\ flow[f.step] # "pause"
      /\ fn' = [fn EXCEPT ![r][a].pc = "look", ![r][a].at = x.counter]
      /\ UNCHANGED <<flow, traits, story, row, late, run>>
      /\ fn \in [Runner -> [Attempt -> FnState]] /\ x.counter \in Ordinal
  BY <1>1, Shapes DEF CallTask, RunState
<1>3. fn' = [fn EXCEPT ![r][a] = g]
  BY <1>1, <1>2
<1>4. g \in FnState /\ g.pc = "look" /\ g.at = x.counter /\ g.step = f.step /\ g.try = f.try
  BY <1>2 DEF FnState
<1> HIDE DEF g
<1>5. FnFits(r, x, a, g)
  BY <1>1, <1>2, <1>4 DEF FnFits, Stands
<1> QED
  BY <1>1, <1>2, <1>3, <1>4, <1>5, MoveKeeps

LEMMA ExecuteKeeps ==
  ASSUME IInv, IInv', RInv, Grows, NEW r \in Runner, NEW a \in Attempt, ExecuteTask(r, a)
  PROVE  RInv'
<1>1. PICK x \in RunState, f \in FnState :
        x = run[r] /\ f = fn[r][a] /\ TypeOK /\ Stands(x, f) /\ Owned(x, a)
  BY Under DEF ExecuteTask
<1> DEFINE g == [f EXCEPT !.pc = "work"]
<1>2. /\ f.pc = "look" /\ flow[f.step] # "external"
      /\ fn' = [fn EXCEPT ![r][a].pc = "work"]
      /\ UNCHANGED <<flow, traits, story, row, late, run>>
      /\ fn \in [Runner -> [Attempt -> FnState]]
  BY <1>1, Shapes DEF ExecuteTask
<1>3. fn' = [fn EXCEPT ![r][a] = g]
  BY <1>1, <1>2
<1>4. g \in FnState /\ g.pc = "work" /\ g.at = f.at /\ g.step = f.step /\ g.try = f.try
  BY <1>2 DEF FnState
<1> HIDE DEF g
<1>5. FnFits(r, x, a, g)
  BY <1>1, <1>2, <1>4 DEF FnFits, Stands
<1> QED
  BY <1>1, <1>2, <1>3, <1>4, <1>5, MoveKeeps

LEMMA PutTaskKeeps ==
  ASSUME IInv, IInv', RInv, Steady, Grows, NEW r \in Runner, NEW a \in Attempt, NEW k,
         PutTask(r, a, k)
  PROVE  RInv'
<1>1. PICK x \in RunState, f \in FnState :
        x = run[r] /\ f = fn[r][a] /\ TypeOK /\ Stands(x, f) /\ Owned(x, a)
  BY Under DEF PutTask
<1> DEFINE g == [f EXCEPT !.pc = "put", !.kind = k]
<1>2. /\ f.pc = "work" /\ k \in Results
      /\ fn' = [fn EXCEPT ![r][a].pc = "put", ![r][a].kind = k]
      /\ UNCHANGED <<flow, traits, story, row, late, run>>
      /\ fn \in [Runner -> [Attempt -> FnState]]
  BY <1>1, Shapes DEF PutTask
<1>3. fn' = [fn EXCEPT ![r][a] = g]
  BY <1>1, <1>2
<1>4. k \in Plain /\ (k = "total" => late) /\ k \in JobResult
  BY <1>2, KindFacts DEF Results, Steady, Plain
<1>5. g \in FnState /\ g.pc = "put" /\ g.kind = k /\ g.at = f.at /\ g.step = f.step /\ g.try = f.try
  BY <1>2, <1>4 DEF FnState
<1> HIDE DEF g
<1>6. FnFits(r, x, a, g)
  BY <1>1, <1>2, <1>4, <1>5 DEF FnFits, Stands
<1> QED
  BY <1>1, <1>2, <1>3, <1>5, <1>6, MoveKeeps

\* A SystemError ends the job function.
LEMMA SystemFails ==
  ASSUME TypeOK, NEW f \in FnState
  PROVE  \E g \in FnState : g = Fail(f, "system") /\ g.pc = "done" /\ g.kind = "system"
<1>1. PICK k \in JobResult \ {"ok"} : k = "system" /\ k \notin TaskResult
  BY KindFacts DEF TaskResult
<1>2. Fail(f, k) \in FnState /\ Fail(f, k).pc = "done" /\ Fail(f, k).kind = k
  BY <1>1, FailFacts
<1> QED
  BY <1>1, <1>2

LEMMA GoesTo ==
  ASSUME NEW r, NEW a, NEW g, Goes(r, a, g)
  PROVE  \E h \in {g, NoFn} :
           /\ fn' = [fn EXCEPT ![r][a] = h]
           /\ h = g /\ g.pc = "done" => Waits(run[r], a) \/ g = NoFn
  BY DEF Goes, Waits

LEMMA RefusedKeeps ==
  ASSUME IInv, IInv', RInv, Grows, NEW r \in Runner, NEW a \in Attempt, TaskRefused(r, a)
  PROVE  RInv'
<1>1. PICK x \in RunState, f \in FnState :
        /\ x = run[r] /\ f = fn[r][a] /\ TypeOK /\ Stands(x, f) /\ Owned(x, a)
        /\ x.counter \in 1 .. NextOrdinal /\ NextOrdinal \in Nat
  BY Under DEF TaskRefused
<1>2. PICK g \in FnState : g = Fail(f, "system") /\ g.pc = "done" /\ g.kind = "system"
  BY <1>1, SystemFails
<1>3. PICK h \in {g, NoFn} : /\ fn' = [fn EXCEPT ![r][a] = h]
                             /\ h = g /\ g.pc = "done" => Waits(run[r], a) \/ g = NoFn
  BY <1>1, <1>2, GoesTo DEF TaskRefused
<1>4. g # NoFn
  BY <1>2 DEF NoFn
<1>5. ~Leased(r) \/ Present(x.counter)
  <2>1. CASE f.at # NextOrdinal
    <3>1. x.counter \in 1 .. NextOrdinal - 1
      BY <1>1, <2>1 DEF TaskRefused, Stands
    <3> QED
      BY <1>1, <3>1, Shapes DEF Present, NextOrdinal
  <2> QED
    BY <1>1, <2>1 DEF TaskRefused
<1>6. h = g => FnFits(r, run[r], a, g)
  BY <1>1, <1>2, <1>3, <1>4, <1>5 DEF FnFits, Stands
<1> QED
  BY <1>1, <1>3, <1>6, MoveKeeps DEF TaskRefused

\* Behind a pause, and behind the last step
LEMMA PauseWalk ==
  ASSUME TypeOK, StoryFits, NEW f \in FnState, flow[f.step] = "pause",
         NEW o \in 1 .. NextOrdinal, Walk(o, f.step, f.try),
         \A p \in DOMAIN story : story[p].type = "task" => story[p].step \in DOMAIN flow
  PROVE  Walk(o, f.step + 1, 1)
<1>1. /\ f.step \in DOMAIN flow /\ f.step \in Nat /\ f.step >= 1
      /\ o \in Nat /\ (o > 1 => o - 1 \in DOMAIN story)
  BY Shapes DEF FnState, NextOrdinal
<1>2. \A t \in Nat : Pauses(t, f.step - 1) => Pauses(t, (f.step + 1) - 1)
  BY <1>1 DEF Pauses
<1>3. CASE o = 1
  BY <1>1, <1>2, <1>3 DEF Walk
<1>4. CASE o # 1
  <2> DEFINE c == story[o - 1]
  <2>1. LeadsTo(c, f.step, f.try) /\ ChapterFits(c) /\ c.step \in Nat
    <3>1. o - 1 \in DOMAIN story
      BY <1>1, <1>4
    <3>2. c \in ChapterSet /\ ChapterFits(c)
      BY <3>1, Shapes DEF StoryFits
    <3>3. LeadsTo(c, f.step, f.try)
      BY <1>4 DEF Walk
    <3> QED
      BY <3>2, <3>3 DEF ChapterSet
  <2> HIDE DEF c
  <2>2. LeadsTo(c, f.step + 1, 1)
    <3>1. CASE c.type = "job" /\ ~Final(c) /\ Pauses(1, f.step - 1)
      BY <1>2, <3>1 DEF LeadsTo
    <3>2. CASE c.type = "task" /\ Passed(c) /\ f.step > c.step /\ Pauses(c.step + 1, f.step - 1)
      <4>1. Pauses(c.step + 1, (f.step + 1) - 1) /\ f.step + 1 > c.step
        BY <1>1, <1>2, <2>1, <3>2
      <4> QED
        BY <3>2, <4>1 DEF LeadsTo
    <3>3. CASE c.type = "task" /\ f.step = c.step
      BY <2>1, <3>3 DEF ChapterFits
    <3> QED
      BY <2>1, <3>1, <3>2, <3>3 DEF LeadsTo
  <2> QED
    BY <1>4, <2>2 DEF Walk, c
<1> QED
  BY <1>3, <1>4

LEMMA SleepKeeps ==
  ASSUME IInv, IInv', RInv, Grows, NEW r \in Runner, NEW a \in Attempt, Sleep(r, a)
  PROVE  RInv'
<1>1. PICK x \in RunState, f \in FnState :
        /\ x = run[r] /\ f = fn[r][a] /\ TypeOK /\ Stands(x, f) /\ Owned(x, a)
        /\ x.counter \in 1 .. NextOrdinal
  BY Under DEF Sleep
<1>2. /\ f.pc = "call" /\ flow[f.step] = "pause" /\ Goes(r, a, Succeed(f))
      /\ UNCHANGED <<flow, traits, story, row, late, run>>
      /\ \A p \in DOMAIN story : story[p].type = "task" => story[p].step \in DOMAIN flow
      /\ StoryFits
  BY <1>1 DEF Sleep, IInv, RInv
<1>3. PICK g \in FnState : g = Succeed(f) /\ Passes(f, g)
  BY <1>1, SucceedFacts
<1>4. Walk(x.counter, f.step + 1, 1)
  BY <1>1, <1>2, PauseWalk DEF Stands
<1>5. PICK h \in {g, NoFn} : /\ fn' = [fn EXCEPT ![r][a] = h]
                             /\ h = g /\ g.pc = "done" => Waits(run[r], a) \/ g = NoFn
  BY <1>2, <1>3, GoesTo
<1>6. g # NoFn
  BY <1>3 DEF NoFn, Passes
<1>7. h = g => FnFits(r, x, a, g)
  <2>1. CASE g.pc = "call"
    BY <1>1, <1>3, <1>4, <2>1 DEF FnFits, Stands, Passes
  <2>2. CASE g.pc = "done"
    <3>1. g.kind = "ok" /\ f.step = Len(flow)
      BY <1>3, <2>2 DEF Passes
    <3>2. Comes(x.counter, "ok")
      BY <1>4, <3>1 DEF Comes
    <3> QED
      BY <1>1, <1>5, <1>6, <2>2, <3>1, <3>2 DEF FnFits, Stands
  <2> QED
    BY <1>3, <2>1, <2>2 DEF Passes
<1> QED
  BY <1>1, <1>2, <1>5, <1>7, MoveKeeps

\* What is in the way: a goroutine that ends takes its run with it.
LEMMA QuitKeeps ==
  ASSUME IInv, IInv', RInv, Grows, NEW r \in Runner, NEW a \in Attempt, fn[r][a].pc # "none",
         Quit(r, a), UNCHANGED <<flow, traits, story, late>>, RowFits',
         \A q \in Runner : Leased(q)' => Leased(q)
  PROVE  RInv'
<1>1. PICK x \in RunState, f \in FnState :
        /\ x = run[r] /\ f = fn[r][a] /\ TypeOK /\ RunFits(r, x)
        /\ x.counter \in 1 .. NextOrdinal /\ NextOrdinal \in Nat
        /\ \A b \in Attempt \ {a} : fn[r][b].pc = "none"
  BY Under
<1>2. run \in [Runner -> RunState] /\ NoFn \in FnState /\ NoFn.pc = "none" /\ TypeOK'
  BY <1>1, NoFacts, Shapes DEF IInv
<1>3. PICK y : y = Stopped(r, a)
  OBVIOUS
<1>4. /\ y \in RunState /\ y.pc = "off" /\ y.counter = 1
  <2>1. Stopped(r, a) = [NoRun EXCEPT !.counter = 1]
    BY <1>1 DEF Stopped, Alive
  <2> QED
    BY <1>1, <1>3, <2>1, StoppedFacts, NoFacts DEF RunState
<1>5. PICK z \in {x, y} : /\ run' = [run EXCEPT ![r] = z]
                          /\ z = x => ~(run[r].pc = "wait" /\ run[r].attempt = a)
  <2>1. CASE x.pc = "wait" /\ x.attempt = a
    BY <1>1, <1>3, <1>4, <2>1 DEF Quit
  <2>2. CASE ~(x.pc = "wait" /\ x.attempt = a)
    <3>1. run' = run
      BY <1>1, <2>2 DEF Quit
    <3>2. run' = [run EXCEPT ![r] = x]
      BY <1>1, <1>2, <3>1
    <3> QED
      BY <1>1, <2>2, <3>2
  <2> QED
    BY <2>1, <2>2
<1>6. RunFits(r, z)'
  <2>1. CASE z = y
    <3>1. y.counter \in 1 .. NextOrdinal' /\ UNCHANGED story
      BY <1>1, <1>2, <1>4, Growing
    <3> QED
      BY <1>4, <2>1, <3>1 DEF RunFits
  <2>2. CASE z = x
    <3>1. x.pc \in {"wait", "check"} /\ Leased(r)' => InTime'
      BY <1>1 DEF RunFits, InTime
    <3> QED
      BY <1>1, <1>2, <2>2, <3>1, RunStays
  <2> QED
    BY <2>1, <2>2
<1>7. FnFits(r, z, a, NoFn)'
  BY <1>2 DEF FnFits
<1> QED
  BY <1>1, <1>2, <1>4, <1>5, <1>6, <1>7, GoroutineKeeps DEF Quit

LEMMA RecycleKeeps ==
  ASSUME IInv, IInv', RInv, Grows, NEW r \in Runner, NEW a \in Attempt, Recycle(r, a)
  PROVE  RInv'
<1>1. row \in RowType /\ TypeOK /\ TypeOK'
  BY RowFacts DEF IInv
<1>2. row' \in {row, [row EXCEPT !.holder = NoRunner]} /\ fn[r][a].pc = "call"
  BY DEF Recycle
<1>3. row'.need = row.need /\ row'.slot = row.slot /\ row'.step = row.step
        /\ row'.holder \in {row.holder, NoRunner}
  BY <1>1, <1>2 DEF RowType
<1>4. \A q \in Runner : Leased(q)' => Leased(q)
  BY <1>3, RunnerAssumption DEF Leased
<1>5. RowFits'
  BY <1>1, <1>3, RowStays DEF RInv
<1> QED
  BY <1>2, <1>4, <1>5, QuitKeeps DEF Recycle

LEMMA AwaitKeeps ==
  ASSUME IInv, IInv', RInv, Grows, NEW r \in Runner, NEW a \in Attempt, AwaitTask(r, a)
  PROVE  RInv'
<1>1. PICK x \in RunState, f \in FnState :
        /\ x = run[r] /\ f = fn[r][a] /\ TypeOK /\ Stands(x, f) /\ Owned(x, a)
        /\ x.counter \in 1 .. NextOrdinal
  BY Under DEF AwaitTask
<1>2. /\ f.pc = "look" /\ flow[f.step] = "external" /\ row \in RowType /\ TypeOK' /\ StoryFits
      /\ \A p \in DOMAIN story : story[p].type = "task" => story[p].step \in DOMAIN flow
  BY <1>1, RowFacts DEF AwaitTask, IInv, RInv
<1>3. Walk(f.at, f.step, 1) /\ f.at \in 1 .. NextOrdinal
  <2>1. Walk(f.at, f.step, f.try) /\ f.at \in 1 .. NextOrdinal /\ f.at = x.counter
    BY <1>1, <1>2 DEF Stands
  <2>2. f.try = 1
    <3>1. CASE f.at = 1
      BY <2>1, <3>1 DEF Walk
    <3>2. CASE f.at # 1
      <4>1. f.at - 1 \in DOMAIN story
        BY <1>1, <2>1, <3>2, Shapes DEF NextOrdinal
      <4>2. LeadsTo(story[f.at - 1], f.step, f.try) /\ ChapterFits(story[f.at - 1])
        BY <1>2, <2>1, <3>2, <4>1 DEF Walk, StoryFits
      <4> QED
        BY <1>2, <4>2 DEF LeadsTo, ChapterFits
    <3> QED
      BY <3>1, <3>2
  <2> QED
    BY <2>1, <2>2
<1> DEFINE w == [row EXCEPT !.need = "task", !.slot = f.at, !.step = f.step, !.holder = NoRunner]
<1>4. row' = IF Leased(r) THEN w ELSE row
  BY <1>1 DEF AwaitTask
<1>5. w.slot = f.at /\ w.step = f.step /\ w.holder = NoRunner
  BY <1>2 DEF RowType
<1> HIDE DEF w
<1>6. \A q \in Runner : Leased(q)' => Leased(q)
  BY <1>4, <1>5, RunnerAssumption DEF Leased
<1>7. RowFits'
  <2>1. CASE Leased(r)
    <3>1. PICK o, s : o = f.at /\ s = f.step
      OBVIOUS
    <3>2. Walk(o, s, 1)' /\ o \in 1 .. NextOrdinal'
      BY <1>1, <1>2, <1>3, <3>1, Said, Growing
    <3>3. row'.slot = o /\ row'.step = s
      BY <1>4, <1>5, <2>1, <3>1
    <3> QED
      BY <3>2, <3>3 DEF RowFits, Walk
  <2>2. CASE ~Leased(r)
    <3>1. row' = row
      BY <1>4, <2>2
    <3> QED
      BY <1>1, <1>2, <3>1, RowStays DEF RInv
  <2> QED
    BY <2>1, <2>2
<1> QED
  BY <1>1, <1>2, <1>6, <1>7, QuitKeeps DEF AwaitTask

LEMMA WriteFailsKeeps ==
  ASSUME Steady, NEW r, NEW a, TaskWriteFails(r, a)
  PROVE  FALSE
  BY DEF TaskWriteFails, Steady

\* What becomes of a goroutine that takes over the result in chapter c
LEMMA Onward ==
  ASSUME TypeOK, NEW f \in FnState, NEW c \in ChapterSet, c.type = "task", c.step = f.step,
         ChapterFits(c),
         NEW g, g = AfterAttempt(f, c.kind, c.attempt, StoredRetryable(c.kind))
  PROVE  /\ g \in FnState
         /\ \/ g.pc = "call" /\ LeadsTo(c, g.step, g.try)
            \/ g.pc = "done" /\ g.kind = "ok" /\ LeadsTo(c, Len(flow) + 1, 1)
            \/ /\ g.pc = "done" /\ g.kind = c.kind /\ c.kind \in {"app", "total"}
               /\ Failed(c) /\ flow[c.step] = "local"
<1>1. /\ c.kind \in JobResult /\ c.attempt \in Nat /\ StoredRetryable(c.kind) \in BOOLEAN
      /\ c.kind \in Plain /\ flow[c.step] # "pause" /\ c.attempt >= 1
      /\ flow[c.step] = "external" => c.kind = "ok"
      /\ flow[c.step] # "external" => c.attempt <= TaskAttempts
      /\ TaskAttempts \in Nat /\ f.step \in DOMAIN flow /\ f.step \in Nat /\ f.step >= 1
      /\ flow[f.step] \in StepKind
  <2>1. c.kind \in JobResult /\ c.attempt \in Nat
    BY DEF ChapterSet
  <2>2. f.step \in DOMAIN flow /\ f.step \in Nat /\ f.step >= 1 /\ flow[f.step] \in StepKind
    BY Shapes, ElementOfSeq DEF FnState
  <2> QED
    BY <2>1, <2>2, KindFacts, Numbers DEF ChapterFits
<1>2. /\ g \in FnState
      /\ \/ /\ Passes(f, g)
            /\ c.kind # "ok" => /\ flow[f.step] = "lenient"
                                /\ ~(StoredRetryable(c.kind) /\ c.attempt < TaskAttempts)
         \/ /\ c.kind # "ok" /\ StoredRetryable(c.kind) /\ c.attempt < TaskAttempts
            /\ g.pc = "call" /\ g.step = f.step /\ g.try = c.attempt + 1
         \/ /\ c.kind # "ok" /\ ~(StoredRetryable(c.kind) /\ c.attempt < TaskAttempts)
            /\ ~(flow[f.step] = "lenient" /\ c.kind \in TaskResult)
            /\ g.pc = "done" /\ g.kind = c.kind
  BY <1>1, AfterFacts
<1>3. c.kind # "ok" /\ ~(StoredRetryable(c.kind) /\ c.attempt < TaskAttempts) => Failed(c)
  BY <1>1 DEF Failed
<1>4. CASE Passes(f, g) /\ (c.kind = "ok" \/ (Failed(c) /\ flow[c.step] = "lenient"))
  <2>1. Passed(c)
    BY <1>4 DEF Passed
  <2>2. LeadsTo(c, c.step + 1, 1)
    BY <1>1, <2>1 DEF LeadsTo, Pauses
  <2>3. CASE g.pc = "call"
    BY <1>2, <1>4, <2>2, <2>3 DEF Passes
  <2>4. CASE g.pc = "done"
    <3>1. g.kind = "ok" /\ c.step + 1 = Len(flow) + 1
      BY <1>1, <1>4, <2>4 DEF Passes
    <3> QED
      BY <1>2, <2>2, <2>4, <3>1
  <2> QED
    BY <1>4, <2>3, <2>4 DEF Passes
<1>5. CASE /\ c.kind # "ok" /\ StoredRetryable(c.kind) /\ c.attempt < TaskAttempts
           /\ g.pc = "call" /\ g.step = f.step /\ g.try = c.attempt + 1
  <2>1. ~Failed(c)
    BY <1>1, <1>5 DEF Failed
  <2> QED
    BY <1>2, <1>5, <2>1 DEF LeadsTo
<1>6. CASE /\ c.kind # "ok" /\ Failed(c) /\ g.pc = "done" /\ g.kind = c.kind
           /\ ~(flow[f.step] = "lenient" /\ c.kind \in TaskResult)
  <2>1. c.kind \in {"app", "total"} /\ c.kind \in TaskResult
    BY <1>1, <1>6 DEF Plain, TaskResult
  <2>2. flow[c.step] = "local"
    BY <1>1, <1>6, <2>1 DEF StepKind
  <2> QED
    BY <1>2, <1>6, <2>1, <2>2
<1> QED
  BY <1>2, <1>3, <1>4, <1>5, <1>6

\* The same, behind the ordinal of c
LEMMA OnwardFits ==
  ASSUME TypeOK, Grows, late' = late, NEW f \in FnState, NEW c \in ChapterSet, c.type = "task",
         c.step = f.step, ChapterFits(c),
         NEW g, g = AfterAttempt(f, c.kind, c.attempt, StoredRetryable(c.kind)),
         NEW o \in Nat, o >= 1, story'[o] = c,
         NEW r, NEW x, x.counter = o + 1, NEW a, Owned(x, a),
         NEW h \in {g, NoFn}, h = g /\ g.pc = "done" => Waits(x, a) \/ g = NoFn
  PROVE  h \in FnState /\ FnFits(r, x, a, h)'
<1>1. /\ g \in FnState
      /\ \/ g.pc = "call" /\ LeadsTo(c, g.step, g.try)
         \/ g.pc = "done" /\ g.kind = "ok" /\ LeadsTo(c, Len(flow) + 1, 1)
         \/ /\ g.pc = "done" /\ g.kind = c.kind /\ c.kind \in {"app", "total"}
            /\ Failed(c) /\ flow[c.step] = "local"
  BY Onward
<1>2. NoFn \in FnState /\ NoFn.pc = "none" /\ flow' = flow /\ traits' = traits
  BY NoFacts DEF Grows
<1>3. o + 1 # 1 /\ (o + 1) - 1 = o /\ o + 1 > 1
  OBVIOUS
<1>4. \A s, n : LeadsTo(c, s, n) => Walk(o + 1, s, n)'
  BY <1>2, <1>3 DEF Walk, LeadsTo, Pauses, Passed, Failed, Final
<1>5. PICK s : s = Len(flow) + 1
  OBVIOUS
<1>6. Owned(x, a)'
  BY <1>2 DEF Owned, Waits
<1>7. CASE h.pc = "none"
  BY <1>1, <1>2, <1>7, NoneFits DEF FnFits
<1>8. CASE h = g /\ g.pc = "call"
  BY <1>1, <1>4, <1>6, <1>8 DEF FnFits, Stands
<1>9. CASE h = g /\ g.pc = "done"
  <2>1. Comes(o + 1, g.kind)'
    <3>1. CASE g.kind = "ok" /\ LeadsTo(c, Len(flow) + 1, 1)
      <4>1. Walk(o + 1, s, 1)'
        BY <1>4, <1>5, <3>1
      <4>2. Walk(o + 1, Len(flow) + 1, 1)'
        BY <1>2, <1>5, <4>1 DEF Walk
      <4> QED
        BY <3>1, <4>2 DEF Comes
    <3>2. CASE /\ g.kind = c.kind /\ c.kind \in {"app", "total"}
               /\ Failed(c) /\ flow[c.step] = "local"
      BY <1>2, <1>3, <3>2 DEF Comes, Failed
    <3> QED
      BY <1>1, <1>9, <3>1, <3>2
  <2>2. g.kind = "total" => late'
    BY <1>1, <1>9 DEF ChapterFits
  <2>3. Waits(x, a)
    BY <1>2, <1>9
  <2> QED
    BY <1>1, <1>6, <1>9, <2>1, <2>2, <2>3 DEF FnFits, Stands, Waits
<1> QED
  BY <1>1, <1>2, <1>7, <1>8, <1>9

\* The counter moves past a chapter of a task, or of somebody else when the lease is
\* lost.
LEMMA CounterFits ==
  ASSUME IInv, IInv', Grows, late' = late, NEW r \in Runner, NEW a,
         NEW x \in RunState, RunFits(r, x), Owned(x, a), Leased(r)' => Leased(r),
         NEW o \in 1 .. NextOrdinal, x.counter = o, Present(o)',
         NEW y \in RunState, y.counter = o + 1, y.pc = x.pc, y.attempt = x.attempt,
         y.at = x.at, y.kind = x.kind,
         x.pc \in {"wait", "check"} /\ Leased(r)' => InTime' /\ story'[o].type = "task"
  PROVE  RunFits(r, y)'
<1>1. TypeOK /\ TypeOK' /\ NextOrdinal \in Nat /\ o \in Nat /\ o >= 1
  BY Shapes DEF IInv, NextOrdinal
<1>2. RunFits(r, x)'
  BY <1>1, RunStays
<1>3. o + 1 \in 1 .. NextOrdinal'
  <2>1. DOMAIN story' = 1 .. Len(story') /\ Len(story') \in Nat
    BY <1>1, StoryHolds, LenProperties DEF TypeOK, ChapterSet, JobResult, TaskResult
  <2> QED
    BY <1>1, <2>1 DEF Present, NextOrdinal
<1>4. x.pc \in {"wait", "check", "record", "put", "archive", "off"}
        /\ (x.pc = "check" => x.kind = "total")
  BY DEF Owned, Waits
<1>5. ASSUME x.pc \in {"wait", "check"}, Leased(r)'
      PROVE  Fresh(o + 1, x.attempt)'
  <2>1. Fresh(o, x.attempt)' /\ story'[o].type = "task"
    BY <1>2, <1>5 DEF RunFits
  <2>2. \A p \in 1 .. (o + 1) - 1 : p = o \/ p \in 1 .. o - 1
    BY <1>1
  <2>3. (o + 1) - 1 = o
    BY <1>1
  <2> QED
    BY <2>1, <2>2, <2>3 DEF Fresh, Final
<1>6. x.pc = "check" => Comes(o + 1, x.kind)'
  BY <1>4 DEF Comes
<1> QED
  BY <1>2, <1>3, <1>4, <1>5, <1>6 DEF RunFits

\* The chapter a goroutine writes is the one to which the story leads.
LEMMA OwnSuits ==
  ASSUME TypeOK, flow' = flow, traits' = traits, late' = late,
         NEW x, NEW f \in FnState, Stands(x, f), f.pc = "put", f.at = NextOrdinal
  PROVE  \E c \in ChapterSet :
           /\ c = TaskChapter(f.step, f.try, f.kind)
           /\ c.type = "task" /\ c.step = f.step /\ c.attempt = f.try /\ c.kind = f.kind
           /\ Suits(c) /\ ChapterFits(c) /\ ChapterFits(c)'
           /\ Retryable(f.kind) = StoredRetryable(c.kind)
<1>1. PICK c : c = TaskChapter(f.step, f.try, f.kind)
  OBVIOUS
<1>2. /\ f.step \in DOMAIN flow /\ f.step \in Nat /\ f.try \in Nat /\ f.try >= 1
      /\ f.try <= TaskAttempts /\ f.kind \in Plain /\ f.kind \in JobResult
      /\ flow[f.step] # "pause" /\ flow[f.step] # "external"
      /\ Walk(NextOrdinal, f.step, f.try) /\ (f.kind = "total" => late)
  <2>1. f.step \in DOMAIN flow /\ f.step \in Nat /\ f.try \in 1 .. TaskAttempts
          /\ f.kind \in JobResult
    BY Shapes DEF FnState
  <2>2. f.try \in Nat /\ f.try >= 1 /\ f.try <= TaskAttempts
    BY <2>1, Numbers
  <2> QED
    BY <2>1, <2>2 DEF Stands
<1>3. /\ c.type = "task" /\ c.step = f.step /\ c.attempt = f.try /\ c.kind = f.kind
      /\ c \in ChapterSet
  BY <1>1, <1>2 DEF TaskChapter, ChapterSet
<1>4. Suits(c)
  BY <1>2, <1>3 DEF Suits
<1>5. ChapterFits(c) /\ ChapterFits(c)'
  BY <1>2, <1>3 DEF ChapterFits
<1>6. Retryable(f.kind) = StoredRetryable(c.kind)
  BY <1>2, <1>3 DEF Plain, Retryable, StoredRetryable, StoredKind
<1> QED
  BY <1>1, <1>3, <1>4, <1>5, <1>6

LEMMA AnswerLostKeeps ==
  ASSUME IInv, IInv', RInv, Grows, NEW r \in Runner, NEW a \in Attempt, TaskAnswerLost(r, a)
  PROVE  RInv'
<1>1. PICK x \in RunState, f \in FnState :
        /\ x = run[r] /\ f = fn[r][a] /\ TypeOK /\ Stands(x, f) /\ Owned(x, a)
        /\ RunFits(r, x) /\ x.counter \in 1 .. NextOrdinal
  BY Under DEF TaskAnswerLost
<1>2. /\ f.pc = "put" /\ f.at = NextOrdinal /\ x.counter = NextOrdinal
      /\ Append1(TaskChapter(f.step, f.try, f.kind)) /\ Goes(r, a, Fail(f, "system"))
      /\ UNCHANGED <<flow, traits, row, late, run>> /\ TypeOK'
      /\ run \in [Runner -> RunState]
  BY <1>1, Shapes DEF TaskAnswerLost, Stands, IInv
<1>3. PICK c \in ChapterSet :
        Append1(c) /\ Suits(c) /\ ChapterFits(c)' /\ c.type = "task"
  BY <1>1, <1>2, OwnSuits
<1>4. PICK g \in FnState : g = Fail(f, "system") /\ g.pc = "done" /\ g.kind = "system"
  BY <1>1, SystemFails
<1>5. PICK h \in {g, NoFn} : /\ fn' = [fn EXCEPT ![r][a] = h]
                             /\ h = g /\ g.pc = "done" => Waits(run[r], a) \/ g = NoFn
  BY <1>2, <1>4, GoesTo
<1>6. g # NoFn /\ NoFn \in FnState /\ NoFn.pc = "none"
  BY <1>1, <1>4, NoFacts DEF NoFn
<1>7. Present(x.counter)'
  <2>1. PICK n : n = NextOrdinal
    OBVIOUS
  <2>2. n \in DOMAIN story' /\ x.counter = n
    BY <1>1, <1>2, <1>3, <2>1, AppendFacts
  <2> QED
    BY <2>2 DEF Present
<1>8. FnFits(r, x, a, h)'
  BY <1>1, <1>2, <1>4, <1>5, <1>6, <1>7 DEF FnFits, Stands, Owned, Waits
<1>9. RunFits(r, x)'
  <2>1. x.pc \in {"wait", "check"} /\ Leased(r) => InTime'
    BY <1>1, <1>3, InTimeStays DEF RunFits
  <2> QED
    BY <1>1, <1>2, <2>1, RunStays DEF Leased
<1>10. RowFits' /\ \A q \in Runner : Leased(q)' => Leased(q)
  BY <1>1, <1>2, RowStays DEF RInv, Leased
<1>11. run' = [run EXCEPT ![r] = x]
  BY <1>1, <1>2
<1> QED
  BY <1>1, <1>2, <1>3, <1>4, <1>5, <1>6, <1>8, <1>9, <1>10, <1>11, GoroutineKeeps

LEMMA RecordTaskKeeps ==
  ASSUME IInv, IInv', RInv, Grows, NEW r \in Runner, NEW a \in Attempt, RecordTask(r, a)
  PROVE  RInv'
<1>1. PICK x \in RunState, f \in FnState :
        /\ x = run[r] /\ f = fn[r][a] /\ TypeOK /\ Stands(x, f) /\ Owned(x, a)
        /\ RunFits(r, x) /\ x.counter \in 1 .. NextOrdinal
  BY Under DEF RecordTask
<1>2. PICK o : o = NextOrdinal
  OBVIOUS
<1>3. /\ f.pc = "put" /\ f.at = o /\ x.counter = o
      /\ Append1(TaskChapter(f.step, f.try, f.kind))
      /\ Goes(r, a, AfterAttempt(f, f.kind, f.try, Retryable(f.kind)))
      /\ run' = [run EXCEPT ![r].counter = Past(@, o)]
      /\ UNCHANGED <<flow, traits, row, late>> /\ TypeOK'
      /\ run \in [Runner -> RunState]
  BY <1>1, <1>2, Shapes DEF RecordTask, Stands, IInv
<1>4. PICK c \in ChapterSet :
        /\ c = TaskChapter(f.step, f.try, f.kind)
        /\ c.type = "task" /\ c.step = f.step /\ c.attempt = f.try /\ c.kind = f.kind
        /\ Suits(c) /\ ChapterFits(c) /\ ChapterFits(c)'
        /\ Retryable(f.kind) = StoredRetryable(c.kind)
  BY <1>1, <1>2, <1>3, OwnSuits
<1>5. /\ o \in 1 .. MaxStory /\ o \in Nat /\ o >= 1 /\ Present(o)' /\ story'[o] = c
      /\ o + 1 \in Ordinal
  BY <1>1, <1>2, <1>3, <1>4, AppendFacts, Numbers DEF Present
<1> DEFINE y == [x EXCEPT !.counter = o + 1]
<1>6. run' = [run EXCEPT ![r] = y]
  <2>1. Past(x.counter, o) = o + 1
    BY <1>3, <1>5 DEF Past
  <2> QED
    BY <1>1, <1>3, <2>1
<1>7. /\ y \in RunState /\ y.counter = o + 1 /\ y.pc = x.pc /\ y.attempt = x.attempt
      /\ y.at = x.at /\ y.kind = x.kind
  BY <1>5 DEF RunState
<1> HIDE DEF y
<1>8. Owned(y, a)
  BY <1>1, <1>7 DEF Owned, Waits
<1>9. PICK g : g = AfterAttempt(f, c.kind, c.attempt, StoredRetryable(c.kind))
  OBVIOUS
<1>10. PICK h \in {g, NoFn} : /\ fn' = [fn EXCEPT ![r][a] = h]
                              /\ h = g /\ g.pc = "done" => Waits(run[r], a) \/ g = NoFn
  BY <1>3, <1>4, <1>9, GoesTo
<1>11. Waits(run[r], a) <=> Waits(y, a)
  BY <1>1, <1>7 DEF Waits
<1>12. h \in FnState /\ FnFits(r, y, a, h)'
  <2>1. h = g /\ g.pc = "done" => Waits(y, a) \/ g = NoFn
    BY <1>10, <1>11
  <2>2. TypeOK /\ late' = late
    BY <1>1, <1>3
  <2>3. c.type = "task" /\ c.step = f.step /\ ChapterFits(c)
    BY <1>4
  <2> QED
    BY <1>5, <1>7, <1>8, <1>9, <2>1, <2>2, <2>3, OnwardFits
<1>13. x.pc \in {"wait", "check"} /\ Leased(r) => InTime' /\ story'[o].type = "task"
  BY <1>1, <1>3, <1>4, <1>5, InTimeStays DEF RunFits
<1>14. \A q : Leased(q)' <=> Leased(q)
  BY <1>3 DEF Leased
<1>15. RunFits(r, y)'
  BY <1>1, <1>2, <1>3, <1>4, <1>5, <1>7, <1>13, <1>14, CounterFits
<1>16. RowFits'
  BY <1>1, <1>3, RowStays DEF RInv
<1>17. /\ fn[r][a].pc # "none" /\ y.pc = run[r].pc /\ y.kind = run[r].kind /\ late' = late
       /\ fn' = [fn EXCEPT ![r][a] = h]
       /\ Append1(c) /\ Suits(c) /\ ChapterFits(c)' /\ c.type = "task"
  BY <1>1, <1>3, <1>4, <1>7, <1>10
<1> QED
  BY <1>6, <1>7, <1>12, <1>14, <1>15, <1>16, <1>17, GoroutineKeeps

LEMMA ReplayTaskKeeps ==
  ASSUME IInv, IInv', RInv, Grows, NEW r \in Runner, NEW a \in Attempt, ReplayTask(r, a)
  PROVE  RInv'
<1>1. PICK x \in RunState, f \in FnState :
        /\ x = run[r] /\ f = fn[r][a] /\ TypeOK /\ Stands(x, f) /\ Owned(x, a)
        /\ RunFits(r, x) /\ x.counter \in 1 .. NextOrdinal
  BY Under DEF ReplayTask
<1>2. PICK o : o = x.counter
  OBVIOUS
<1>3. PICK c : c = story[o]
  OBVIOUS
<1>4. /\ f.pc = "look" /\ f.at = o /\ o \in DOMAIN story /\ Walk(o, f.step, f.try)
      /\ flow[f.step] # "pause" /\ f.step \in DOMAIN flow /\ f.try \in Nat
      /\ Goes(r, a, IF c.type # "task" \/ c.step # f.step THEN Fail(f, "nondet")
                    ELSE AfterAttempt(f, StoredKind(c.kind), c.attempt, StoredRetryable(c.kind)))
      /\ run' = [run EXCEPT ![r].counter = Past(@, o)]
      /\ UNCHANGED <<flow, traits, story, row, late>> /\ TypeOK'
      /\ run \in [Runner -> RunState]
  <2>1. f.pc = "look" /\ f.at = o
    BY <1>1, <1>2 DEF ReplayTask, Stands
  <2>2. o \in DOMAIN story /\ Walk(o, f.step, f.try) /\ flow[f.step] # "pause"
    BY <1>1, <2>1 DEF ReplayTask, Stands, Present
  <2>3. f.step \in DOMAIN flow /\ f.try \in Nat
    BY Numbers DEF FnState
  <2>4. TypeOK' /\ run \in [Runner -> RunState]
    BY <1>1, Shapes DEF IInv
  <2> QED
    BY <1>1, <1>3, <2>1, <2>2, <2>3, <2>4 DEF ReplayTask
<1>5. /\ o \in Nat /\ o >= 1 /\ o \in 1 .. NextOrdinal /\ Present(o)' /\ story'[o] = c
      /\ o + 1 \in Ordinal /\ c \in ChapterSet /\ ChapterFits(c) /\ StoryFits
  <2>1. o \in 1 .. Len(story) /\ Len(story) \in Nat /\ Len(story) <= MaxStory
    BY <1>1, <1>4, Shapes DEF IInv
  <2>2. o \in 1 .. MaxStory /\ o \in Nat /\ o >= 1 /\ o \in 1 .. NextOrdinal
    BY <2>1, Numbers DEF NextOrdinal
  <2>3. c \in ChapterSet /\ ChapterFits(c) /\ StoryFits
    BY <1>1, <1>3, <1>4, Shapes DEF RInv, StoryFits
  <2> QED
    BY <1>3, <1>4, <2>2, <2>3, Numbers DEF Present
<1> DEFINE y == [x EXCEPT !.counter = o + 1]
<1>6. run' = [run EXCEPT ![r] = y]
  <2>1. Past(x.counter, o) = o + 1
    BY <1>2, <1>5 DEF Past
  <2> QED
    BY <1>1, <1>4, <2>1
<1>7. /\ y \in RunState /\ y.counter = o + 1 /\ y.pc = x.pc /\ y.attempt = x.attempt
      /\ y.at = x.at /\ y.kind = x.kind
  BY <1>5 DEF RunState
<1> HIDE DEF y
<1>8. Owned(y, a)
  BY <1>1, <1>7 DEF Owned, Waits
<1>9. \A q : Leased(q)' <=> Leased(q)
  BY <1>4 DEF Leased
<1>10. x.pc \in {"wait", "check"} /\ Leased(r) => InTime /\ InTime'
  BY <1>1, <1>4 DEF RunFits, InTime
<1>11. RowFits'
  BY <1>1, <1>4, RowStays DEF RInv
<1>12. \/ c.type = "job" /\ c.kind \in {"total", "prereq"}
       \/ c.type = "task" /\ c.step = f.step
  BY <1>1, <1>3, <1>4, <1>5, Meets DEF IInv
<1>13. \E h \in FnState : /\ fn' = [fn EXCEPT ![r][a] = h] /\ FnFits(r, y, a, h)'
                          /\ x.pc \in {"wait", "check"} /\ Leased(r) => c.type = "task"
  <2>1. CASE c.type = "job" /\ c.kind \in {"total", "prereq"}
    <3>1. PICK k \in JobResult \ {"ok"} : k = "nondet" /\ k \notin TaskResult
      BY KindFacts DEF TaskResult
    <3>2. PICK g \in FnState : g = Fail(f, "nondet") /\ g.pc = "done" /\ g.kind = "nondet"
      BY <1>1, <3>1, FailFacts
    <3>3. PICK h \in {g, NoFn} : /\ fn' = [fn EXCEPT ![r][a] = h]
                                 /\ h = g /\ g.pc = "done" => Waits(run[r], a) \/ g = NoFn
      BY <1>4, <2>1, <3>2, GoesTo
    <3>4. g # NoFn /\ NoFn \in FnState /\ NoFn.pc = "none"
      BY <1>1, <3>2, NoFacts DEF NoFn
    <3>5. c.kind = "total"
      BY <1>1, <1>5, <2>1 DEF ChapterFits, Owned
    <3>6. ~InTime
      BY <1>3, <1>4, <2>1, <3>5 DEF InTime
    <3>7. ~(x.pc \in {"wait", "check"} /\ Leased(r))
      BY <1>10, <3>6
    <3>8. h = g => Waits(y, a) /\ y.pc = "wait" /\ ~Leased(r)
      BY <1>1, <1>7, <3>2, <3>3, <3>4, <3>7 DEF Waits
    <3>9. Owned(y, a)'
      BY <1>4, <1>8 DEF Owned, Waits
    <3>10. FnFits(r, y, a, h)'
      BY <1>9, <3>2, <3>3, <3>4, <3>8, <3>9 DEF FnFits, Stands, Waits
    <3> QED
      BY <3>3, <3>4, <3>7, <3>10
  <2>2. CASE c.type = "task" /\ c.step = f.step
    <3>1. PICK g : g = AfterAttempt(f, c.kind, c.attempt, StoredRetryable(c.kind))
      OBVIOUS
    <3>2. StoredKind(c.kind) = c.kind
      BY <1>5, <2>2 DEF ChapterFits, Plain, StoredKind
    <3>3. PICK h \in {g, NoFn} : /\ fn' = [fn EXCEPT ![r][a] = h]
                                 /\ h = g /\ g.pc = "done" => Waits(run[r], a) \/ g = NoFn
      BY <1>4, <2>2, <3>1, <3>2, GoesTo
    <3>4. Waits(run[r], a) <=> Waits(y, a)
      BY <1>1, <1>7 DEF Waits
    <3>5. h \in FnState /\ FnFits(r, y, a, h)'
      <4>1. h = g /\ g.pc = "done" => Waits(y, a) \/ g = NoFn
        BY <3>3, <3>4
      <4>2. TypeOK /\ late' = late
        BY <1>1, <1>4
      <4> QED
        BY <1>5, <1>7, <1>8, <2>2, <3>1, <4>1, <4>2, OnwardFits
    <3> QED
      BY <2>2, <3>3, <3>5
  <2> QED
    BY <1>12, <2>1, <2>2
<1>14. PICK h \in FnState : /\ fn' = [fn EXCEPT ![r][a] = h] /\ FnFits(r, y, a, h)'
                            /\ x.pc \in {"wait", "check"} /\ Leased(r) => c.type = "task"
  BY <1>13
<1>15. RunFits(r, y)'
  BY <1>1, <1>2, <1>4, <1>5, <1>7, <1>9, <1>10, <1>14, CounterFits
<1>16. fn[r][a].pc # "none" /\ y.pc = run[r].pc /\ y.kind = run[r].kind
         /\ late' = late /\ story' = story
  BY <1>1, <1>4, <1>7
<1> QED
  BY <1>6, <1>7, <1>9, <1>11, <1>14, <1>15, <1>16, GoroutineKeeps

-----------------------------------------------------------------------------
(* Steps of DoJob                                                          *)

\* The run becomes y, and the story stays as it is.
LEMMA JobKeeps ==
  ASSUME IInv, IInv', RInv, Grows, late' = late, story' = story, NEW r \in Runner,
         NEW y \in RunState, run' = [run EXCEPT ![r] = y],
         \A q \in Runner \ {r} : fn'[q] = fn[q] /\ (Leased(q)' => Leased(q)),
         RowFits', RunFits(r, y)',
         \A a \in Attempt, f \in FnState : fn'[r][a] = f => FnFits(r, y, a, f)',
         \A a, b \in Attempt : fn'[r][a].pc # "none" /\ fn'[r][b].pc # "none" => a = b,
         y.pc \in {"wait", "check"} /\ Leased(r)' =>
           (run[r].pc \in {"wait", "check"} /\ Leased(r)) \/ ~late,
         y.pc = "put" /\ y.kind = "total" =>
           (run[r].pc = "put" /\ run[r].kind = "total") \/ Leased(r)
  PROVE  RInv'
<1>1. TypeOK /\ run \in [Runner -> RunState]
  BY Shapes DEF IInv
<1>2. run'[r] = y /\ \A q \in Runner \ {r} : run'[q] = run[q]
  BY <1>1
<1>3. RunnerFits(r)'
  BY <1>2, RunnerGoes
<1>4. \A q \in Runner : Leased(q) /\ run[q].pc \in {"wait", "check"} => InTime'
  <2>1. \A q \in Runner : Leased(q) /\ run[q].pc \in {"wait", "check"} => InTime
    BY <1>1 DEF RInv, RunnerFits, RunFits
  <2> QED
    BY <2>1 DEF InTime
<1>5. Acts(r)
  BY <1>2, <1>4 DEF Acts
<1>6. StoryGoesOn
  BY DEF StoryGoesOn
<1> QED
  BY <1>3, <1>5, <1>6, ActKeeps

\* What worker r has
LEMMA Has ==
  ASSUME IInv, RInv, NEW r \in Runner
  PROVE  \E x \in RunState :
           /\ x = run[r] /\ RunFits(r, x) /\ x.counter \in 1 .. NextOrdinal
           /\ NextOrdinal \in Nat /\ TypeOK /\ StoryFits
           /\ \A a \in Attempt : fn[r][a] \in FnState /\ FnFits(r, x, a, fn[r][a])
           /\ \A a, b \in Attempt : fn[r][a].pc # "none" /\ fn[r][b].pc # "none" => a = b
<1>1. /\ TypeOK /\ fn \in [Runner -> [Attempt -> FnState]] /\ run \in [Runner -> RunState]
      /\ NextOrdinal \in Nat
  BY Shapes DEF IInv, NextOrdinal
<1>2. PICK x \in RunState : x = run[r]
  BY <1>1
<1>3. RunnerFits(r) /\ StoryFits
  BY DEF RInv
<1>4. RunFits(r, x)
  BY <1>2, <1>3 DEF RunnerFits
<1>5. \A a \in Attempt : fn[r][a] \in FnState /\ FnFits(r, x, a, fn[r][a])
  BY <1>1, <1>2, <1>3 DEF RunnerFits
<1>6. \A a, b \in Attempt : fn[r][a].pc # "none" /\ fn[r][b].pc # "none" => a = b
  BY <1>3 DEF RunnerFits, Alive
<1> QED
  BY <1>1, <1>2, <1>3, <1>4, <1>5, <1>6 DEF RunFits

\* The run becomes y, and the goroutines go on as they were, or are dropped.
LEMMA LeaveKeeps ==
  ASSUME IInv, IInv', RInv, Grows, UNCHANGED <<late, story>>, NEW r \in Runner,
         NEW y \in RunState, run' = [run EXCEPT ![r] = y],
         \A q \in Runner \ {r} : fn'[q] = fn[q],
         \A q \in Runner : Leased(q)' => Leased(q),
         RowFits', RunFits(r, y),
         \A a \in Attempt : \/ fn'[r][a] = NoFn
                            \/ /\ fn'[r][a] = fn[r][a]
                               /\ fn[r][a].pc # "none" =>
                                    /\ fn[r][a].pc # "done" /\ y.counter = run[r].counter
                                    /\ Owned(y, a),
         y.pc \in {"wait", "check"} /\ Leased(r)' =>
           (run[r].pc \in {"wait", "check"} /\ Leased(r)) \/ ~late,
         y.pc = "put" /\ y.kind = "total" =>
           (run[r].pc = "put" /\ run[r].kind = "total") \/ Leased(r)
  PROVE  RInv'
<1>1. PICK x \in RunState :
        /\ x = run[r] /\ RunFits(r, x) /\ x.counter \in 1 .. NextOrdinal
        /\ NextOrdinal \in Nat /\ TypeOK
        /\ \A a \in Attempt : fn[r][a] \in FnState /\ FnFits(r, x, a, fn[r][a])
        /\ \A a, b \in Attempt : fn[r][a].pc # "none" /\ fn[r][b].pc # "none" => a = b
  BY Has
<1>2. TypeOK' /\ NoFn \in FnState /\ NoFn.pc = "none" /\ y.counter \in 1 .. NextOrdinal
  BY <1>1, NoFacts DEF IInv, RunFits
<1>3. RunFits(r, y)'
  <2>1. y.pc \in {"wait", "check"} /\ Leased(r)' => InTime'
    BY DEF RunFits, InTime
  <2> QED
    BY <1>1, <1>2, <2>1, RunStays
<1>4. ASSUME NEW a \in Attempt, NEW f \in FnState, fn'[r][a] = f
      PROVE  FnFits(r, y, a, f)'
  <2>1. CASE f.pc = "none"
    BY <2>1 DEF FnFits
  <2>2. CASE f.pc # "none"
    <3>1. f = fn[r][a] /\ f.pc # "done" /\ y.counter = x.counter /\ Owned(y, a)
      BY <1>1, <1>2, <1>4, <2>2
    <3>2. FnFits(r, x, a, f)
      BY <1>1, <3>1
    <3>3. Stands(y, f)
      BY <2>2, <3>1, <3>2 DEF FnFits, Stands
    <3>4. FnFits(r, y, a, f)
      BY <3>1, <3>3 DEF FnFits
    <3> QED
      BY <1>1, <1>2, <3>4, FnStays
  <2> QED
    BY <2>1, <2>2
<1>5. \A a, b \in Attempt : fn'[r][a].pc # "none" /\ fn'[r][b].pc # "none" => a = b
  BY <1>1, <1>2
<1> QED
  BY <1>3, <1>4, <1>5, JobKeeps

\* DoJob returns; only what the total timeout left behind goes on.
LEMMA StoppedKeeps ==
  ASSUME IInv, IInv', RInv, Grows, UNCHANGED <<late, story, fn>>, NEW r \in Runner,
         run[r].pc # "wait", run' = [run EXCEPT ![r] = Stopped(r, 0)],
         \A q \in Runner : Leased(q)' => Leased(q), RowFits'
  PROVE  RInv'
<1>1. PICK x \in RunState :
        /\ x = run[r] /\ x.counter \in 1 .. NextOrdinal
        /\ NextOrdinal \in Nat /\ TypeOK
        /\ \A a \in Attempt : fn[r][a] \in FnState /\ FnFits(r, x, a, fn[r][a])
  BY Has
<1>2. PICK y \in RunState : y = Stopped(r, 0) /\ y.pc = "off"
  BY <1>1, StoppedFacts
<1>3. y.counter = IF \E b \in Attempt \ {0} : Alive(r, b) THEN x.counter ELSE 1
  <2>1. PICK n : n = IF \E b \in Attempt \ {0} : Alive(r, b) THEN x.counter ELSE 1
    OBVIOUS
  <2>2. y = [NoRun EXCEPT !.counter = n]
    BY <1>1, <1>2, <2>1 DEF Stopped
  <2> QED
    BY <2>1, <2>2 DEF NoRun
<1>4. y.counter \in 1 .. NextOrdinal
  BY <1>1, <1>3 DEF NextOrdinal
<1>5. ASSUME NEW a \in Attempt, fn[r][a].pc # "none"
      PROVE  fn[r][a].pc # "done" /\ y.counter = x.counter /\ Owned(y, a)
  <2>1. Owned(x, a) /\ (fn[r][a].pc = "done" => Waits(x, a))
    BY <1>1, <1>5 DEF FnFits
  <2>2. a \in Attempt \ {0} /\ Alive(r, a)
    BY <1>5 DEF Attempt, Alive
  <2> QED
    BY <1>1, <1>2, <1>3, <2>1, <2>2 DEF Owned, Waits
<1>6. RunFits(r, y)
  BY <1>2, <1>4, OffFits
<1>7. run' = [run EXCEPT ![r] = y]
  BY <1>2
<1> QED
  BY <1>1, <1>2, <1>5, <1>6, <1>7, LeaveKeeps

\* A worker whose attempt has not begun runs nothing.
LEMMA Idle ==
  ASSUME NEW r, NEW x, NEW a, NEW f, FnFits(r, x, a, f), x.pc \in {"begin", "top"}
  PROVE  f.pc = "none"
  BY DEF FnFits, Owned, Waits

LEMMA PollKeeps ==
  ASSUME IInv, IInv', RInv, Grows, NEW r \in Runner, Poll(r)
  PROVE  RInv'
<1>1. TypeOK /\ TypeOK' /\ row \in RowType /\ NoFn \in FnState /\ NoFn.pc = "none"
        /\ fn \in [Runner -> [Attempt -> FnState]] /\ NextOrdinal \in Nat /\ NextOrdinal >= 1
        /\ NextOrdinal' \in Nat /\ NextOrdinal' >= 1
  <2>1. TypeOK /\ TypeOK' /\ UNCHANGED story
    BY DEF IInv, Poll
  <2> QED
    BY <2>1, RowFacts, NoFacts, Shapes DEF NextOrdinal
<1> DEFINE y == [NoRun EXCEPT !.pc = "begin"]
<1>2. y \in RunState /\ y.pc = "begin" /\ y.counter = 1 /\ y.attempt = 1
  <2>1. NoRun \in RunState /\ NoRun.counter = 1 /\ NoRun.attempt = 1
    BY <1>1, NoFacts DEF NoRun
  <2> QED
    BY <2>1 DEF RunState
<1>3. run' = [run EXCEPT ![r] = y]
  BY DEF Poll
<1> HIDE DEF y
<1>4. RunFits(r, y)'
  <2>1. Fresh(1, 1)' /\ Walk(1, 1, 1)'
    BY DEF Fresh, Walk, Pauses
  <2>2. Fresh(y.counter, y.attempt)' /\ Walk(y.counter, 1, 1)'
    BY <1>2, <2>1 DEF Fresh, Walk
  <2> QED
    BY <1>1, <1>2, <2>2 DEF RunFits
<1>5. row'.need = row.need /\ row'.slot = row.slot /\ row'.step = row.step /\ row'.holder = r
  BY <1>1 DEF Poll, RowType
<1>6. RowFits'
  BY <1>1, <1>5, RowStays DEF RInv
<1>7. fn' = [fn EXCEPT ![r] = [a \in Attempt |-> NoFn]] /\ UNCHANGED <<late, story>>
  BY DEF Poll
<1>8. /\ \A q \in Runner \ {r} : fn'[q] = fn[q] /\ (Leased(q)' => Leased(q))
      /\ \A a \in Attempt : fn'[r][a].pc = "none"
  BY <1>1, <1>5, <1>7 DEF Leased
<1>9. \A a \in Attempt, f \in FnState : fn'[r][a] = f => FnFits(r, y, a, f)'
  BY <1>8 DEF FnFits
<1> QED
  BY <1>2, <1>3, <1>4, <1>6, <1>7, <1>8, <1>9, JobKeeps

LEMMA CrashKeeps ==
  ASSUME IInv, IInv', RInv, Grows, NEW r \in Runner, Crash(r)
  PROVE  RInv'
<1>1. /\ TypeOK /\ TypeOK' /\ fn \in [Runner -> [Attempt -> FnState]]
      /\ NoRun \in RunState /\ NoRun.pc = "off" /\ NoRun.counter = 1
      /\ NextOrdinal \in Nat /\ NextOrdinal >= 1
  BY NoFacts, Shapes DEF IInv, NoRun, NextOrdinal
<1>2. /\ run' = [run EXCEPT ![r] = NoRun] /\ fn' = [fn EXCEPT ![r] = [a \in Attempt |-> NoFn]]
      /\ UNCHANGED <<late, story, row>>
  BY DEF Crash
<1>3. RunFits(r, NoRun)
  BY <1>1, OffFits
<1>4. RowFits' /\ \A q \in Runner : Leased(q)' => Leased(q)
  BY <1>1, <1>2, RowStays DEF RInv, Leased
<1>5. /\ \A q \in Runner \ {r} : fn'[q] = fn[q]
      /\ \A a \in Attempt : fn'[r][a] = NoFn
  BY <1>1, <1>2
<1> QED
  BY <1>1, <1>2, <1>3, <1>4, <1>5, LeaveKeeps

LEMMA PrerequisitesKeeps ==
  ASSUME IInv, IInv', RInv, Grows, NEW r \in Runner, CheckPrerequisites(r)
  PROVE  RInv'
<1>1. PICK x \in RunState :
        /\ x = run[r] /\ RunFits(r, x) /\ x.counter \in 1 .. NextOrdinal /\ TypeOK
        /\ \A a \in Attempt : fn[r][a] \in FnState /\ FnFits(r, x, a, fn[r][a])
  BY Has
<1>2. /\ x.pc = "begin" /\ TypeOK'
      /\ run' = [run EXCEPT ![r] =
           IF "prereq" \in traits THEN ToRecord(x, "prereq") ELSE [x EXCEPT !.pc = "top"]]
      /\ UNCHANGED <<flow, traits, story, row, late, fn>>
  BY <1>1 DEF CheckPrerequisites, IInv
<1>3. Fresh(x.counter, x.attempt) /\ Walk(x.counter, 1, 1)
  BY <1>1, <1>2 DEF RunFits
<1>4. RowFits' /\ \A q \in Runner : Leased(q)' => Leased(q)
  BY <1>1, <1>2, RowStays DEF RInv, Leased
<1>5. \E y \in RunState : /\ run' = [run EXCEPT ![r] = y] /\ RunFits(r, y)
                          /\ y.pc \in {"record", "top"}
  <2>1. CASE "prereq" \in traits
    <3>1. PICK y : y = ToRecord(x, "prereq")
      OBVIOUS
    <3>2. /\ y \in RunState /\ y.pc = "record" /\ y.at = x.counter /\ y.kind = "prereq"
          /\ y.counter = x.counter /\ y.attempt = x.attempt
      BY <3>1, KindFacts DEF ToRecord, RunState
    <3>3. Comes(y.at, y.kind) /\ Fresh(y.at, y.attempt)
      BY <1>3, <2>1, <3>2 DEF Comes
    <3>4. RunFits(r, y)
      BY <1>1, <3>2, <3>3 DEF RunFits
    <3> QED
      BY <1>2, <2>1, <3>1, <3>2, <3>4
  <2>2. CASE "prereq" \notin traits
    <3>1. PICK y : y = [x EXCEPT !.pc = "top"]
      OBVIOUS
    <3>2. y \in RunState /\ y.pc = "top" /\ y.counter = x.counter /\ y.attempt = x.attempt
      BY <3>1 DEF RunState
    <3>3. RunFits(r, y)
      BY <1>1, <1>3, <2>2, <3>2 DEF RunFits
    <3> QED
      BY <1>2, <2>2, <3>1, <3>2, <3>3
  <2> QED
    BY <2>1, <2>2
<1>6. PICK y \in RunState : /\ run' = [run EXCEPT ![r] = y] /\ RunFits(r, y)
                            /\ y.pc \in {"record", "top"}
  BY <1>5
<1>7. \A a \in Attempt : fn[r][a].pc = "none"
  BY <1>1, <1>2, Idle
<1> QED
  BY <1>2, <1>4, <1>6, <1>7, LeaveKeeps

LEMMA TooLateKeeps ==
  ASSUME IInv, IInv', RInv, Grows, NEW r \in Runner, TooLate(r)
  PROVE  RInv'
<1>1. PICK x \in RunState :
        /\ x = run[r] /\ RunFits(r, x) /\ x.counter \in 1 .. NextOrdinal /\ TypeOK
        /\ \A a \in Attempt : fn[r][a] \in FnState /\ FnFits(r, x, a, fn[r][a])
  BY Has
<1>2. PICK y : y = ToRecord(x, "total")
  OBVIOUS
<1>3. /\ x.pc = "top" /\ late /\ TypeOK' /\ run' = [run EXCEPT ![r] = y]
      /\ UNCHANGED <<flow, traits, story, row, late, fn>>
  BY <1>1, <1>2 DEF TooLate, IInv
<1>4. /\ y \in RunState /\ y.pc = "record" /\ y.at = x.counter /\ y.kind = "total"
      /\ y.counter = x.counter /\ y.attempt = x.attempt
  BY <1>2, KindFacts DEF ToRecord, RunState
<1>5. RunFits(r, y)
  <2>1. Fresh(y.at, y.attempt) /\ Comes(y.at, y.kind) /\ "prereq" \notin traits
    BY <1>1, <1>3, <1>4 DEF RunFits, Comes
  <2> QED
    BY <1>1, <1>3, <1>4, <2>1 DEF RunFits
<1>6. RowFits' /\ \A q \in Runner : Leased(q)' => Leased(q)
  BY <1>1, <1>3, RowStays DEF RInv, Leased
<1>7. \A a \in Attempt : fn[r][a].pc = "none"
  BY <1>1, <1>3, Idle
<1> QED
  BY <1>3, <1>4, <1>5, <1>6, <1>7, LeaveKeeps

LEMMA ReturnKeeps ==
  ASSUME IInv, IInv', RInv, Grows, NEW r \in Runner, WaitedTooLong(r) \/ OutcomeRefused(r)
  PROVE  RInv'
<1>1. /\ run[r].pc # "wait" /\ run' = [run EXCEPT ![r] = Stopped(r, 0)]
      /\ UNCHANGED <<late, story, fn, row>> /\ TypeOK /\ TypeOK'
  BY DEF WaitedTooLong, OutcomeRefused, IInv
<1>2. RowFits' /\ \A q \in Runner : Leased(q)' => Leased(q)
  BY <1>1, RowStays DEF RInv, Leased
<1> QED
  BY <1>1, <1>2, StoppedKeeps

LEMMA ArchiveKeeps ==
  ASSUME IInv, IInv', RInv, Grows, NEW r \in Runner, Archive(r)
  PROVE  RInv'
<1>1. /\ run[r].pc = "archive" /\ run' = [run EXCEPT ![r] = Stopped(r, 0)]
      /\ UNCHANGED <<late, story, fn>> /\ TypeOK /\ TypeOK' /\ row \in RowType
  BY RowFacts DEF Archive, IInv
<1>2. PICK s : s = IF run[r].kind = "ok" THEN "success" ELSE "failed"
  OBVIOUS
<1>3. row' \in {row, [row EXCEPT !.holder = NoRunner, !.status = s]}
  BY <1>2 DEF Archive
<1>4. row'.need = row.need /\ row'.slot = row.slot /\ row'.step = row.step
        /\ row'.holder \in {row.holder, NoRunner}
  BY <1>1, <1>3 DEF RowType
<1>5. RowFits' /\ \A q \in Runner : Leased(q)' => Leased(q)
  BY <1>1, <1>4, RowStays, RunnerAssumption DEF RInv, Leased
<1> QED
  BY <1>1, <1>5, StoppedKeeps

LEMMA ReplayOutcomeKeeps ==
  ASSUME IInv, IInv', RInv, Grows, NEW r \in Runner, ReplayOutcome(r)
  PROVE  RInv'
<1>1. PICK x \in RunState :
        /\ x = run[r] /\ RunFits(r, x) /\ x.counter \in 1 .. NextOrdinal /\ TypeOK /\ StoryFits
        /\ \A a \in Attempt : fn[r][a] \in FnState /\ FnFits(r, x, a, fn[r][a])
  BY Has
<1>2. PICK c, o : c = story[o] /\ o = x.counter
  OBVIOUS
<1> DEFINE ok == ~late /\ c.kind = "ok"
           retry == ~late /\ StoredRetryable(c.kind) /\ c.attempt < JobAttempts
           u == [x EXCEPT !.pc = "top", !.counter = @ + 1, !.attempt = c.attempt + 1,
                          !.kind = "ok"]
           z == [x EXCEPT !.pc = "archive", !.kind = "ok"]
<1>3. /\ x.pc \in {"top", "check"} /\ o \in DOMAIN story /\ c.type = "job" /\ TypeOK'
      /\ run' = [run EXCEPT ![r] = CASE ok -> z [] retry -> u [] OTHER -> Stopped(r, 0)]
      /\ UNCHANGED <<flow, traits, story, row, late, fn>>
  BY <1>1, <1>2 DEF ReplayOutcome, Present, IInv
<1>4. RowFits' /\ \A q \in Runner : Leased(q)' => Leased(q)
  BY <1>1, <1>3, RowStays DEF RInv, Leased
<1>5. /\ o \in 1 .. Len(story) /\ Len(story) \in Nat /\ Len(story) <= MaxStory
      /\ c \in ChapterSet /\ ChapterFits(c) /\ c.attempt \in Attempt /\ c.kind \in JobResult
      /\ Good(o)
  <2>1. c.attempt \in Attempt /\ Len(story) <= MaxStory
    BY <1>2, <1>3 DEF IInv
  <2>2. c \in ChapterSet /\ ChapterFits(c) /\ Good(o)
    BY <1>1, <1>2, <1>3, Shapes DEF StoryFits
  <2> QED
    BY <1>1, <1>3, <2>1, <2>2, Shapes DEF ChapterSet
<1>6. CASE ~ok /\ ~retry
  BY <1>1, <1>3, <1>4, <1>6, StoppedKeeps
<1>7. ASSUME ~late
      PROVE  \A a \in Attempt : fn[r][a].pc = "none"
  BY <1>1, <1>3, <1>7 DEF FnFits, Owned, Waits
<1>8. CASE retry /\ ~ok
  <2>1. o + 1 \in Ordinal /\ c.attempt + 1 \in Attempt /\ "ok" \in JobResult
    <3>1. o \in 1 .. MaxStory
      BY <1>5, Numbers
    <3> QED
      BY <1>5, <1>8, <3>1, Numbers, KindFacts DEF Attempt
  <2>2. u \in RunState /\ u.pc = "top" /\ u.counter = o + 1 /\ u.attempt = c.attempt + 1
    BY <1>2, <2>1 DEF RunState
  <2>3. run' = [run EXCEPT ![r] = u]
    BY <1>3, <1>8
  <2> HIDE DEF u
  <2>4. "prereq" \notin traits
    BY <1>1, <1>3 DEF RunFits
  <2>5. ~Final(c)
    <3>1. c.kind = "app"
      BY <1>3, <1>5, <1>8, <2>4 DEF ChapterFits, Plain, StoredRetryable, StoredKind, Retryable
    <3>2. c.attempt # JobAttempts
      BY <1>5, <1>8, Numbers DEF Attempt
    <3> QED
      BY <3>1, <3>2 DEF Final, Retryable
  <2>6. (o + 1) - 1 = o /\ o + 1 > 1 /\ o + 1 # 1 /\ o + 1 \in 1 .. NextOrdinal /\ c.attempt \in Nat
    BY <1>5 DEF NextOrdinal, Attempt
  <2>7. Fresh(o + 1, c.attempt + 1)
    <3>1. ASSUME NEW p \in 1 .. (o + 1) - 1, story[p].type = "job"
          PROVE  story[p].attempt < c.attempt + 1
      <4>1. CASE p = o
        BY <1>2, <2>6, <4>1
      <4>2. CASE p # o
        <5>1. p \in Outcomes(o - 1) /\ p \in DOMAIN story
          BY <1>1, <1>5, <2>6, <3>1, <4>2, Shapes DEF Outcomes
        <5>2. story[p].attempt < c.attempt
          BY <1>2, <1>3, <1>5, <5>1 DEF Good
        <5>3. story[p].attempt \in Nat
          BY <1>1, <5>1, Shapes DEF ChapterSet
        <5> QED
          BY <2>6, <5>2, <5>3
      <4> QED
        BY <4>1, <4>2
    <3> QED
      BY <1>2, <2>5, <2>6, <3>1 DEF Fresh
  <2>8. Walk(o + 1, 1, 1)
    BY <1>2, <1>3, <2>5, <2>6 DEF Walk, LeadsTo, Pauses
  <2>9. RunFits(r, u)
    BY <2>2, <2>4, <2>6, <2>7, <2>8 DEF RunFits
  <2> QED
    BY <1>3, <1>4, <1>7, <1>8, <2>2, <2>3, <2>9, LeaveKeeps
<1>9. CASE ok
  <2>1. z \in RunState /\ z.pc = "archive" /\ z.counter = x.counter
    BY KindFacts DEF RunState
  <2>2. run' = [run EXCEPT ![r] = z]
    <3>1. ~retry
      BY <1>9 DEF StoredRetryable, StoredKind, Retryable
    <3> QED
      BY <1>3, <1>9, <3>1
  <2> HIDE DEF z
  <2>3. RunFits(r, z)
    BY <1>1, <2>1 DEF RunFits
  <2> QED
    BY <1>3, <1>4, <1>7, <1>9, <2>1, <2>2, <2>3, LeaveKeeps
<1> QED
  BY <1>6, <1>8, <1>9

LEMMA StartKeeps ==
  ASSUME IInv, IInv', RInv, Grows, NEW r \in Runner, StartAttempt(r)
  PROVE  RInv'
<1>1. PICK x \in RunState :
        /\ x = run[r] /\ RunFits(r, x) /\ x.counter \in 1 .. NextOrdinal /\ TypeOK /\ StoryFits
        /\ \A a \in Attempt : fn[r][a] \in FnState /\ FnFits(r, x, a, fn[r][a])
  BY Has
<1> DEFINE y == [x EXCEPT !.pc = "wait"]
           g == [NoFn EXCEPT !.pc = "call"]
<1>2. /\ x.pc = "top" /\ ~late /\ TypeOK' /\ x.attempt \in Attempt
      /\ fn' = [fn EXCEPT ![r][x.attempt] = g]
      /\ run' = [run EXCEPT ![r].pc = "wait"]
      /\ UNCHANGED <<flow, traits, story, row, late>>
      /\ fn \in [Runner -> [Attempt -> FnState]] /\ run \in [Runner -> RunState]
  BY <1>1, Shapes DEF StartAttempt, IInv, RunState
<1>3. run' = [run EXCEPT ![r] = y]
  BY <1>1, <1>2
<1>4. y \in RunState /\ y.pc = "wait" /\ y.counter = x.counter /\ y.attempt = x.attempt
  BY DEF RunState
<1>5. g.pc = "call" /\ g.step = 1 /\ g.try = 1
  BY DEF NoFn
<1> HIDE DEF y, g
<1>6. Fresh(x.counter, x.attempt) /\ Walk(x.counter, 1, 1) /\ "prereq" \notin traits
  BY <1>1, <1>2 DEF RunFits
<1>7. InTime
  BY <1>1, <1>2 DEF InTime, StoryFits, ChapterFits
<1>8. RunFits(r, y)
  BY <1>1, <1>4, <1>6, <1>7 DEF RunFits
<1>9. FnFits(r, y, x.attempt, g)
  <2>1. Walk(y.counter, g.step, g.try)
    BY <1>4, <1>5, <1>6
  <2> QED
    BY <1>4, <1>5, <1>6, <2>1 DEF FnFits, Stands, Owned, Waits
<1>10. \A a \in Attempt : fn[r][a].pc = "none"
  BY <1>1, <1>2, Idle
<1>11. RunFits(r, y)'
  <2>1. y.pc \in {"wait", "check"} /\ Leased(r)' => InTime'
    BY <1>2, <1>7 DEF InTime
  <2> QED
    BY <1>1, <1>2, <1>4, <1>8, <2>1, RunStays DEF Leased
<1>12. ASSUME NEW a \in Attempt, NEW f \in FnState, fn'[r][a] = f
       PROVE  FnFits(r, y, a, f)'
  <2>1. CASE a = x.attempt
    <3>1. f = g
      BY <1>2, <1>12, <2>1
    <3> QED
      BY <1>1, <1>2, <1>4, <1>9, <2>1, <3>1, FnStays DEF Leased
  <2>2. CASE a # x.attempt
    <3>1. f.pc = "none"
      BY <1>2, <1>10, <1>12, <2>2
    <3> QED
      BY <3>1 DEF FnFits
  <2> QED
    BY <2>1, <2>2
<1>13. \A a, b \in Attempt : fn'[r][a].pc # "none" /\ fn'[r][b].pc # "none" => a = b
  BY <1>2, <1>10
<1>14. RowFits' /\ \A q \in Runner \ {r} : fn'[q] = fn[q] /\ (Leased(q)' => Leased(q))
  BY <1>1, <1>2, RowStays DEF RInv, Leased
<1> QED
  BY <1>2, <1>3, <1>4, <1>11, <1>12, <1>13, <1>14, JobKeeps

LEMMA ReturnsKeeps ==
  ASSUME IInv, IInv', RInv, Grows, NEW r \in Runner, AttemptReturns(r)
  PROVE  RInv'
<1>1. PICK x \in RunState :
        /\ x = run[r] /\ RunFits(r, x) /\ x.counter \in 1 .. NextOrdinal /\ TypeOK
        /\ \A a \in Attempt : fn[r][a] \in FnState /\ FnFits(r, x, a, fn[r][a])
        /\ \A a, b \in Attempt : fn[r][a].pc # "none" /\ fn[r][b].pc # "none" => a = b
  BY Has
<1>2. x.attempt \in Attempt
  BY DEF RunState
<1>3. PICK f \in FnState : f = fn[r][x.attempt] /\ FnFits(r, x, x.attempt, f)
  BY <1>1, <1>2
<1>4. PICK k : k = IF f.kind = "ok" /\ late THEN "total" ELSE f.kind
  OBVIOUS
<1> DEFINE y == [x EXCEPT !.pc = "check", !.kind = k]
<1>5. /\ TypeOK' /\ run \in [Runner -> RunState] /\ fn \in [Runner -> [Attempt -> FnState]]
      /\ x.pc = "wait" /\ f.pc = "done"
      /\ fn' = [fn EXCEPT ![r][x.attempt] = NoFn]
      /\ UNCHANGED <<flow, traits, story, row, late>>
      /\ run' = [run EXCEPT ![r].pc = "check", ![r].kind = k]
  BY <1>1, <1>3, <1>4, Shapes DEF AttemptReturns, IInv
<1>6. run' = [run EXCEPT ![r] = y]
  BY <1>1, <1>5
<1>7. k \in JobResult
  BY <1>4, KindFacts DEF FnState
<1>8. y \in RunState /\ y.pc = "check" /\ y.kind = k /\ y.counter = x.counter /\ y.attempt = x.attempt
  BY <1>7 DEF RunState
<1> HIDE DEF y
<1>9. (Leased(r) /\ ~Present(x.counter) => Comes(x.counter, k)) /\ (k = "total" => late)
  BY <1>3, <1>4, <1>5 DEF FnFits, Stands, Comes
<1>10. RunFits(r, y)
  BY <1>1, <1>5, <1>8, <1>9 DEF RunFits
<1>11. \A a \in Attempt : fn'[r][a] = NoFn \/ (fn'[r][a] = fn[r][a] /\ fn[r][a].pc = "none")
  BY <1>1, <1>2, <1>3, <1>5
<1>12. RowFits' /\ \A q \in Runner : Leased(q)' => Leased(q)
  BY <1>1, <1>5, RowStays DEF RInv, Leased
<1>13. \A q \in Runner \ {r} : fn'[q] = fn[q]
  BY <1>5
<1>14. y.pc \in {"wait", "check"} /\ Leased(r)' => run[r].pc \in {"wait", "check"} /\ Leased(r)
  BY <1>1, <1>5, <1>12
<1> QED
  BY <1>5, <1>6, <1>8, <1>10, <1>11, <1>12, <1>13, <1>14, LeaveKeeps

LEMMA TimesOutKeeps ==
  ASSUME IInv, IInv', RInv, Steady, Grows, NEW r \in Runner, NEW k \in {"timeout", "total"},
         AttemptTimesOut(r, k)
  PROVE  RInv'
<1>1. PICK x \in RunState :
        /\ x = run[r] /\ RunFits(r, x) /\ x.counter \in 1 .. NextOrdinal /\ TypeOK
        /\ \A a \in Attempt : fn[r][a] \in FnState /\ FnFits(r, x, a, fn[r][a])
  BY Has
<1> DEFINE y == [x EXCEPT !.pc = "check", !.kind = "total"]
<1>2. k = "total" /\ late
  BY DEF AttemptTimesOut, Steady
<1>3. /\ TypeOK' /\ run \in [Runner -> RunState] /\ fn \in [Runner -> [Attempt -> FnState]]
      /\ x.pc = "wait"
      /\ fn' = [fn EXCEPT ![r] = [a \in Attempt |-> IF @[a].pc = "done" THEN NoFn ELSE @[a]]]
      /\ UNCHANGED <<flow, traits, story, row, late>>
      /\ run' = [run EXCEPT ![r].pc = "check", ![r].kind = "total"]
  BY <1>1, <1>2, Shapes DEF AttemptTimesOut, IInv
<1>4. run' = [run EXCEPT ![r] = y]
  BY <1>1, <1>3
<1>5. y \in RunState /\ y.pc = "check" /\ y.kind = "total" /\ y.counter = x.counter
        /\ y.attempt = x.attempt
  BY KindFacts DEF RunState
<1> HIDE DEF y
<1>6. RunFits(r, y)
  BY <1>1, <1>2, <1>3, <1>5 DEF RunFits, Comes
<1>7. ASSUME NEW a \in Attempt
      PROVE  \/ fn'[r][a] = NoFn
             \/ /\ fn'[r][a] = fn[r][a]
                /\ fn[r][a].pc # "none" =>
                     /\ fn[r][a].pc # "done" /\ y.counter = run[r].counter
                     /\ Owned(y, a)
  <2>1. fn'[r][a] = NoFn \/ (fn'[r][a] = fn[r][a] /\ fn[r][a].pc # "done")
    BY <1>3
  <2>2. fn[r][a].pc # "none" => Owned(y, a)
    BY <1>1, <1>2, <1>5 DEF FnFits, Owned
  <2> QED
    BY <1>1, <1>5, <2>1, <2>2
<1>8. RowFits' /\ \A q \in Runner : Leased(q)' => Leased(q)
  BY <1>1, <1>3, RowStays DEF RInv, Leased
<1>9. \A q \in Runner \ {r} : fn'[q] = fn[q]
  BY <1>3
<1>10. y.pc \in {"wait", "check"} /\ Leased(r)' => run[r].pc \in {"wait", "check"} /\ Leased(r)
  BY <1>1, <1>3, <1>8
<1> QED
  BY <1>3, <1>4, <1>5, <1>6, <1>7, <1>8, <1>9, <1>10, LeaveKeeps

LEMMA CheckKeeps ==
  ASSUME IInv, IInv', RInv, Grows, NEW r \in Runner, CheckOutcome(r)
  PROVE  RInv'
<1>1. PICK x \in RunState :
        /\ x = run[r] /\ RunFits(r, x) /\ x.counter \in 1 .. NextOrdinal /\ TypeOK
        /\ \A a \in Attempt : fn[r][a] \in FnState /\ FnFits(r, x, a, fn[r][a])
  BY Has
<1>2. PICK y : y = ToRecord(x, x.kind)
  OBVIOUS
<1>3. /\ x.pc = "check" /\ TypeOK'
      /\ run' = [run EXCEPT ![r] = IF Present(x.counter) THEN Stopped(r, 0) ELSE y]
      /\ UNCHANGED <<flow, traits, story, row, late, fn>>
  BY <1>1, <1>2 DEF CheckOutcome, IInv
<1>4. /\ y \in RunState /\ y.pc = "record" /\ y.at = x.counter /\ y.kind = x.kind
      /\ y.counter = x.counter /\ y.attempt = x.attempt
  BY <1>2, KindFacts DEF ToRecord, RunState
<1>5. RowFits' /\ \A q \in Runner : Leased(q)' => Leased(q)
  BY <1>1, <1>3, RowStays DEF RInv, Leased
<1>6. CASE Present(x.counter)
  BY <1>1, <1>3, <1>5, <1>6, StoppedKeeps
<1>7. CASE ~Present(x.counter)
  <2>1. RunFits(r, y)
    BY <1>1, <1>3, <1>4, <1>7 DEF RunFits
  <2>2. \A a \in Attempt : fn[r][a].pc # "none" => fn[r][a].pc # "done" /\ Owned(y, a)
    BY <1>1, <1>3, <1>4 DEF FnFits, Owned, Waits
  <2>3. run' = [run EXCEPT ![r] = y]
    BY <1>3, <1>7
  <2> QED
    BY <1>1, <1>3, <1>4, <1>5, <2>1, <2>2, <2>3, LeaveKeeps
<1> QED
  BY <1>6, <1>7

LEMMA PutOutcomeKeeps ==
  ASSUME IInv, IInv', RInv, Grows, NEW r \in Runner, PutOutcome(r)
  PROVE  RInv'
<1>1. PICK x \in RunState :
        /\ x = run[r] /\ RunFits(r, x) /\ x.counter \in 1 .. NextOrdinal /\ TypeOK
        /\ \A a \in Attempt : fn[r][a] \in FnState /\ FnFits(r, x, a, fn[r][a])
  BY Has
<1> DEFINE y == [x EXCEPT !.pc = "put"]
<1>2. /\ x.pc = "record" /\ Leased(r) /\ x.at = NextOrdinal /\ TypeOK'
      /\ run' = [run EXCEPT ![r].pc = "put"]
      /\ UNCHANGED <<flow, traits, story, row, late, fn>>
      /\ run \in [Runner -> RunState]
  BY <1>1, Shapes DEF PutOutcome, IInv
<1>3. run' = [run EXCEPT ![r] = y]
  BY <1>1, <1>2
<1>4. /\ y \in RunState /\ y.pc = "put" /\ y.at = x.at /\ y.kind = x.kind
      /\ y.counter = x.counter /\ y.attempt = x.attempt
  BY DEF RunState
<1> HIDE DEF y
<1>5. RowFits' /\ \A q \in Runner : Leased(q)' => Leased(q)
  BY <1>1, <1>2, RowStays DEF RInv, Leased
<1>6. RunFits(r, y)
  BY <1>1, <1>2, <1>4 DEF RunFits
<1>7. \A a \in Attempt : fn[r][a].pc # "none" => fn[r][a].pc # "done" /\ Owned(y, a)
  BY <1>1, <1>2, <1>4 DEF FnFits, Owned, Waits
<1> QED
  BY <1>1, <1>2, <1>3, <1>4, <1>5, <1>6, <1>7, LeaveKeeps

LEMMA RecordOutcomeKeeps ==
  ASSUME IInv, IInv', RInv, Grows, NEW r \in Runner, RecordOutcome(r)
  PROVE  RInv'
<1>1. PICK x \in RunState :
        /\ x = run[r] /\ RunFits(r, x) /\ x.counter \in 1 .. NextOrdinal /\ TypeOK
        /\ NextOrdinal \in Nat
        /\ \A a \in Attempt : fn[r][a] \in FnState /\ FnFits(r, x, a, fn[r][a])
        /\ \A a, b \in Attempt : fn[r][a].pc # "none" /\ fn[r][b].pc # "none" => a = b
  BY Has
<1>2. PICK c, n : c = JobChapter(x.attempt, x.kind) /\ n = NextOrdinal
  OBVIOUS
<1> DEFINE u == [x EXCEPT !.pc = "archive", !.at = 0]
           z == [x EXCEPT !.pc = "top", !.counter = Past(@, x.at), !.attempt = @ + 1,
                          !.at = 0, !.kind = "ok"]
<1>3. /\ x.pc = "put" /\ x.at = n /\ Append1(c) /\ TypeOK'
      /\ UNCHANGED <<flow, traits, row, late, fn>>
      /\ run' = [run EXCEPT ![r] = IF EndsJob(x) THEN u ELSE z]
      /\ run \in [Runner -> RunState]
  BY <1>1, <1>2, Shapes DEF RecordOutcome, IInv
<1>4. /\ c.type = "job" /\ c.attempt = x.attempt /\ c.kind = x.kind
      /\ x.attempt \in Attempt /\ x.attempt \in Nat /\ x.kind \in JobResult
      /\ c \in ChapterSet
  <2>1. x.attempt \in Attempt /\ x.attempt \in Nat /\ x.kind \in JobResult
    BY DEF RunState, Attempt
  <2> QED
    BY <1>2, <2>1 DEF JobChapter, ChapterSet
<1>5. /\ n \in 1 .. MaxStory /\ n \in Nat /\ n >= 1 /\ story'[n] = c
      /\ DOMAIN story = 1 .. n - 1 /\ NextOrdinal' = n + 1
      /\ \A o \in 1 .. n - 1 : story'[o] = story[o]
  <2>1. Len(story') = Len(story) + 1 /\ DOMAIN story = 1 .. Len(story)
          /\ NextOrdinal = Len(story) + 1 /\ NextOrdinal \in 1 .. MaxStory
          /\ Len(story) \in Nat
          /\ story'[NextOrdinal] = c /\ \A o \in DOMAIN story : story'[o] = story[o]
    BY <1>1, <1>3, <1>4, AppendFacts, Shapes
  <2> QED
    BY <1>2, <2>1 DEF NextOrdinal
<1>6. Fresh(n, x.attempt) /\ Comes(n, x.kind)
  BY <1>1, <1>2, <1>3 DEF RunFits
<1>7. Suits(c) /\ ChapterFits(c)'
  <2>1. Suits(c)
    BY <1>2, <1>4, <1>6 DEF Suits
  <2>2. x.kind \in Plain \cup {"prereq"} /\ (x.kind = "prereq" => "prereq" \in traits)
    BY <1>6 DEF Comes, Plain
  <2>3. x.kind = "total" => late
    BY <1>1, <1>3 DEF RunFits
  <2> QED
    BY <1>3, <1>4, <2>1, <2>2, <2>3 DEF ChapterFits
<1>8. StoryGoesOn
  BY <1>3, <1>4, <1>7 DEF StoryGoesOn
<1>9. RowFits' /\ \A q \in Runner : Leased(q)' => Leased(q)
  BY <1>1, <1>3, RowStays DEF RInv, Leased
<1>10. ASSUME NEW q \in Runner \ {r}, Leased(q), run[q].pc \in {"wait", "check"}
       PROVE  InTime'
  <2>1. x.kind # "total"
    BY <1>1, <1>3, <1>10 DEF RInv, OneEnd
  <2>2. InTime
    BY <1>3, <1>10 DEF RInv, RunnerFits, RunFits
  <2> QED
    BY <1>1, <1>3, <1>4, <2>1, <2>2, InTimeStays
<1>11. CASE EndsJob(x)
  <2>1. u \in RunState /\ u.pc = "archive" /\ u.counter = x.counter
    BY Numbers DEF RunState
  <2>2. run'[r] = u /\ \A q \in Runner \ {r} : run'[q] = run[q]
    BY <1>3, <1>11
  <2> HIDE DEF u
  <2>3. RunFits(r, u)'
    <3>1. u.counter \in 1 .. n + 1
      BY <1>1, <1>2, <1>5, <2>1
    <3>2. u.counter \in 1 .. NextOrdinal'
      BY <1>5, <3>1
    <3> QED
      BY <2>1, <3>2 DEF RunFits
  <2>4. ASSUME NEW a \in Attempt, NEW f \in FnState, fn'[r][a] = f
        PROVE  FnFits(r, u, a, f)'
    <3>1. CASE f.pc = "none"
      BY <3>1 DEF FnFits
    <3>2. CASE f.pc # "none"
      <4>1. f = fn[r][a] /\ Stands(x, f) /\ Owned(x, a) /\ f.pc # "done"
        BY <1>1, <1>3, <2>4, <3>2 DEF FnFits, Waits
      <4>2. Stands(u, f) /\ Owned(u, a)
        BY <1>3, <2>1, <4>1 DEF Stands, Owned, Waits
      <4>3. FnFits(r, u, a, f)
        BY <4>1, <4>2 DEF FnFits
      <4> QED
        BY <1>1, <1>3, <1>9, <2>1, <4>3, FnStays
    <3> QED
      BY <3>1, <3>2
  <2>5. \A a, b \in Attempt : fn'[r][a].pc # "none" /\ fn'[r][b].pc # "none" => a = b
    BY <1>1, <1>3
  <2>6. RunnerFits(r)'
    BY <2>2, <2>3, <2>4, <2>5, RunnerGoes
  <2>7. Acts(r)
    BY <1>3, <1>9, <1>10, <2>1, <2>2 DEF Acts
  <2> QED
    BY <1>3, <1>8, <1>9, <2>6, <2>7, ActKeeps
<1>12. CASE ~EndsJob(x)
  <2>1. Retryable(x.kind) /\ x.attempt < JobAttempts /\ x.kind # "total" /\ x.kind # "prereq"
    <3>1. Retryable(x.kind) /\ ~(x.attempt >= JobAttempts)
      BY <1>12 DEF EndsJob
    <3>2. x.kind # "total" /\ x.kind # "prereq"
      BY <3>1 DEF Retryable
    <3> QED
      BY <1>4, <3>1, <3>2, Numbers
  <2>2. x.attempt + 1 \in Attempt /\ n + 1 \in Ordinal
    <3>1. x.attempt + 1 \in Attempt
      BY <1>4, <2>1, Numbers DEF Attempt
    <3>2. n + 1 \in Ordinal
      BY <1>5, Numbers
    <3> QED
      BY <3>1, <3>2
  <2>3. Past(x.counter, x.at) = n + 1
    <3>1. PICK m : m = x.counter
      OBVIOUS
    <3>2. m \in 1 .. n
      BY <1>1, <1>2, <3>1
    <3>3. CASE m = n
      BY <1>3, <1>5, <3>1, <3>2, <3>3 DEF Past
    <3>4. CASE m # n
      BY <1>3, <1>5, <3>1, <3>2, <3>4 DEF Past
    <3> QED
      BY <3>3, <3>4
  <2>4. z \in RunState /\ z.pc = "top" /\ z.counter = n + 1 /\ z.attempt = x.attempt + 1
    <3>1. 0 \in Ordinal /\ "ok" \in JobResult
      BY Numbers, KindFacts
    <3>2. z.pc = "top" /\ z.counter = n + 1 /\ z.attempt = x.attempt + 1
      BY <2>3 DEF RunState
    <3>3. z = [x EXCEPT !.pc = "top", !.counter = n + 1, !.attempt = x.attempt + 1,
                        !.at = 0, !.kind = "ok"]
      BY <2>3
    <3>4. z \in RunState
      BY <2>2, <3>1, <3>3 DEF RunState
    <3> QED
      BY <3>2, <3>4
  <2>5. run'[r] = z /\ \A q \in Runner \ {r} : run'[q] = run[q]
    BY <1>3, <1>12
  <2> HIDE DEF z
  <2>6. \A a \in Attempt : fn[r][a].pc = "none"
    BY <1>1, <1>3, <2>1 DEF FnFits, Owned, Waits
  <2>7. ~Final(c) /\ ~Final(c)'
    BY <1>4, <2>1, Numbers DEF Final
  <2>8. (n + 1) - 1 = n /\ n + 1 > 1 /\ n + 1 # 1 /\ n + 1 \in 1 .. NextOrdinal'
    BY <1>5
  <2>9. Fresh(n + 1, x.attempt + 1)'
    <3>1. ASSUME NEW p \in 1 .. (n + 1) - 1, story'[p].type = "job"
          PROVE  story'[p].attempt < x.attempt + 1
      <4>1. CASE p = n
        BY <1>4, <1>5, <4>1
      <4>2. CASE p # n
        <5>1. p \in 1 .. n - 1 /\ p \in DOMAIN story /\ story'[p] = story[p]
          BY <1>5, <2>8, <4>2
        <5>2. story[p].attempt < x.attempt
          BY <1>6, <3>1, <5>1 DEF Fresh
        <5>3. story[p].attempt \in Nat
          BY <1>1, <5>1, Shapes DEF ChapterSet
        <5> QED
          BY <1>4, <5>1, <5>2, <5>3
      <4> QED
        BY <4>1, <4>2
    <3>2. ~Final(story'[(n + 1) - 1])
      BY <1>5, <2>7, <2>8
    <3> QED
      BY <3>1, <3>2 DEF Fresh, Final
  <2>10. Walk(n + 1, 1, 1)'
    BY <1>4, <1>5, <2>7, <2>8 DEF Walk, LeadsTo, Pauses, Final
  <2>11. RunFits(r, z)'
    <3>1. "prereq" \notin traits'
      BY <1>1, <1>3, <2>1 DEF RunFits
    <3>2. Fresh(z.counter, z.attempt)' /\ Walk(z.counter, 1, 1)'
      BY <2>4, <2>9, <2>10 DEF Fresh, Walk
    <3> QED
      BY <2>4, <2>8, <3>1, <3>2 DEF RunFits
  <2>12. ASSUME NEW a \in Attempt, NEW f \in FnState, fn'[r][a] = f
         PROVE  FnFits(r, z, a, f)'
    <3>1. f.pc = "none"
      BY <1>3, <2>6, <2>12
    <3> QED
      BY <3>1 DEF FnFits
  <2>13. \A a, b \in Attempt : fn'[r][a].pc # "none" /\ fn'[r][b].pc # "none" => a = b
    BY <1>1, <1>3
  <2>14. RunnerFits(r)'
    BY <2>5, <2>11, <2>12, <2>13, RunnerGoes
  <2>15. Acts(r)
    BY <1>3, <1>9, <1>10, <2>4, <2>5 DEF Acts
  <2> QED
    BY <1>3, <1>8, <1>9, <2>14, <2>15, ActKeeps
<1> QED
  BY <1>11, <1>12

-----------------------------------------------------------------------------
(* The surroundings                                                        *)

LEMMA AroundKeeps ==
  ASSUME IInv, IInv', RInv, Grows, late => late', run' = run, fn' = fn,
         \A q \in Runner : Leased(q)' => Leased(q), RowFits',
         \/ story' = story
         \/ \E c \in ChapterSet : /\ Append1(c) /\ Suits(c) /\ ChapterFits(c)'
                                  /\ c.type = "task"
  PROVE  RInv'
<1>1. TypeOK
  BY DEF IInv
<1>2. StoryFits'
  <2>1. StoryGoesOn
    BY DEF StoryGoesOn
  <2> QED
    BY <2>1, StoryGoes DEF RInv
<1>3. ASSUME NEW r \in Runner
      PROVE  RunnerFits(r)'
  <2>1. PICK x \in RunState : x = run[r] /\ RunFits(r, x)
    BY Has
  <2>2. x.pc \in {"wait", "check"} /\ Leased(r) => InTime'
    BY <1>1, <2>1, InTimeStays DEF RunFits
  <2>3. RunnerFits(r) /\ (Leased(r)' => Leased(r))
    BY DEF RInv
  <2> QED
    BY <2>1, <2>2, <2>3, RunnerStays
<1>4. OneEnd'
  BY DEF RInv, OneEnd
<1> QED
  BY <1>2, <1>3, <1>4 DEF RInv

LEMMA ExpireKeeps ==
  ASSUME IInv, IInv', RInv, Grows, NEW r \in Runner, Expire(r)
  PROVE  RInv'
<1>1. /\ row \in RowType /\ TypeOK /\ TypeOK' /\ UNCHANGED <<story, late, run, fn>>
      /\ row' = [row EXCEPT !.holder = NoRunner]
  BY RowFacts DEF Expire, IInv
<1>2. row'.need = row.need /\ row'.slot = row.slot /\ row'.step = row.step
        /\ row'.holder = NoRunner
  BY <1>1 DEF RowType
<1>3. RowFits' /\ \A q \in Runner : Leased(q)' => Leased(q)
  BY <1>1, <1>2, RowStays, RunnerAssumption DEF RInv, Leased
<1> QED
  BY <1>1, <1>3, AroundKeeps

LEMMA AlternateKeeps ==
  ASSUME IInv, IInv', RInv, Grows, AlternateNeed
  PROVE  RInv'
<1>1. /\ row \in RowType /\ TypeOK /\ TypeOK' /\ UNCHANGED <<story, late, run, fn>>
      /\ row' = [row EXCEPT !.need = "job", !.slot = 0, !.step = 0]
  BY RowFacts DEF AlternateNeed, IInv
<1>2. row'.need = "job" /\ row'.holder = row.holder
  BY <1>1 DEF RowType
<1>3. RowFits' /\ \A q \in Runner : Leased(q)' => Leased(q)
  BY <1>2 DEF RowFits, Leased
<1> QED
  BY <1>1, <1>3, AroundKeeps

LEMMA DeadlineKeeps ==
  ASSUME IInv, IInv', RInv, Grows, DeadlinePasses
  PROVE  RInv'
<1>1. TypeOK /\ TypeOK' /\ UNCHANGED <<story, row, run, fn>> /\ late'
  BY DEF DeadlinePasses, IInv
<1>2. RowFits' /\ \A q \in Runner : Leased(q)' => Leased(q)
  BY <1>1, RowStays DEF RInv, Leased
<1> QED
  BY <1>1, <1>2, AroundKeeps

LEMMA FinishKeeps ==
  ASSUME IInv, IInv', RInv, Grows, FinishTask
  PROVE  RInv'
<1>1. PICK n : n = IF story = <<>> THEN 1 ELSE story[Len(story)].attempt
  OBVIOUS
<1>2. PICK c : c = TaskChapter(row.step, n, "ok")
  OBVIOUS
<1>3. /\ row \in RowType /\ TypeOK /\ TypeOK' /\ UNCHANGED <<flow, traits, late, run, fn>>
      /\ row' = [row EXCEPT !.need = "job", !.slot = 0, !.step = 0]
      /\ row.need = "task" /\ row.slot = NextOrdinal /\ Append1(c)
      /\ row.step \in DOMAIN flow /\ flow[row.step] = "external"
  BY <1>1, <1>2, RowFacts DEF FinishTask, IInv
<1>4. row'.need = "job" /\ row'.holder = row.holder /\ row.step \in Nat
  BY <1>3 DEF RowType
<1>5. n \in Nat /\ n >= 1
  <2>1. CASE story = <<>>
    BY <1>1, <2>1
  <2>2. CASE story # <<>>
    <3>1. PICK d, o : o = Len(story) /\ d = story[o]
      OBVIOUS
    <3>2. o \in DOMAIN story /\ d \in ChapterSet /\ d.attempt \in Nat
      BY <1>3, <2>2, <3>1, Shapes, EmptySeq DEF ChapterSet
    <3>3. ChapterFits(d) /\ (d.type = "job" => d.attempt \in Attempt)
      BY <3>1, <3>2 DEF RInv, StoryFits, IInv
    <3>4. d.attempt >= 1
      BY <3>2, <3>3 DEF ChapterFits, Attempt, ChapterSet
    <3> QED
      BY <1>1, <2>2, <3>1, <3>2, <3>4
  <2> QED
    BY <2>1, <2>2
<1>6. /\ c \in ChapterSet /\ c.type = "task" /\ c.step = row.step /\ c.attempt = n
      /\ c.kind = "ok"
  BY <1>2, <1>4, <1>5, KindFacts DEF TaskChapter, ChapterSet
<1>7. Suits(c)
  <2>1. Walk(NextOrdinal, c.step, 1)
    BY <1>3, <1>6 DEF RInv, RowFits
  <2>2. 1 \in Nat /\ flow[c.step] = "external"
    BY <1>3, <1>6
  <2> QED
    BY <1>3, <1>6, <2>1, <2>2 DEF Suits
<1>8. ChapterFits(c)'
  BY <1>3, <1>5, <1>6 DEF ChapterFits, Plain
<1>9. RowFits' /\ \A q \in Runner : Leased(q)' => Leased(q)
  BY <1>4 DEF RowFits, Leased
<1> QED
  BY <1>3, <1>6, <1>7, <1>8, <1>9, AroundKeeps

-----------------------------------------------------------------------------
(* The theorems                                                            *)

LEMMA InitFits ==
  ASSUME Init
  PROVE  RInv
<1>1. IInv /\ TypeOK
  BY InitHolds DEF IInv
<1>2. /\ story = <<>> /\ late = FALSE /\ row.need = "job"
      /\ \A r \in Runner : run[r] = NoRun /\ \A a \in Attempt : fn[r][a] = NoFn
  BY DEF Init
<1>3. DOMAIN story = {} /\ NextOrdinal = 1
  BY <1>2 DEF NextOrdinal
<1>4. StoryFits
  BY <1>3 DEF StoryFits, InOrder
<1>5. NoRun.pc = "off" /\ NoRun.counter = 1 /\ NoFn.pc = "none"
  BY DEF NoRun, NoFn
<1>6. ASSUME NEW r \in Runner
      PROVE  RunnerFits(r)
  <2>1. \A x \in RunState : run[r] = x => RunFits(r, x)
    BY <1>2, <1>3, <1>5, OffFits
  <2>2. \A a \in Attempt, x \in RunState, f \in FnState :
          run[r] = x /\ fn[r][a] = f => FnFits(r, x, a, f)
    BY <1>2, <1>5, NoneFits
  <2>3. \A a, b \in Attempt : Alive(r, a) /\ Alive(r, b) => a = b
    BY <1>2, <1>5 DEF Alive
  <2> QED
    BY <2>1, <2>2, <2>3 DEF RunnerFits
<1>7. OneEnd /\ RowFits
  BY <1>2, <1>5 DEF OneEnd, RowFits
<1> QED
  BY <1>4, <1>6, <1>7 DEF RInv

LEMMA TaskStepFits ==
  ASSUME IInv, IInv', RInv, Steady, Grows, NEW r \in Runner, NEW a \in Attempt, TaskStep(r, a)
  PROVE  RInv'
  BY CallKeeps, ReplayTaskKeeps, AwaitKeeps, ExecuteKeeps, RecordTaskKeeps, RefusedKeeps,
     SleepKeeps, RecycleKeeps, PutTaskKeeps DEF TaskStep

LEMMA JobStepFits ==
  ASSUME IInv, IInv', RInv, Steady, Grows, NEW r \in Runner, JobStep(r)
  PROVE  RInv'
  BY PrerequisitesKeeps, TooLateKeeps, ReturnKeeps, ReplayOutcomeKeeps, StartKeeps,
     ReturnsKeeps, CheckKeeps, PutOutcomeKeeps, RecordOutcomeKeeps, ArchiveKeeps,
     TimesOutKeeps DEF JobStep

LEMMA StepFits ==
  ASSUME IInv, RInv, Steady, [Next]_vars
  PROVE  RInv'
<1>1. IInv' /\ Grows
  BY StepKeeps
<1>2. CASE Next
  BY <1>1, <1>2, TaskStepFits, WriteFailsKeeps, AnswerLostKeeps, PollKeeps, JobStepFits,
     CrashKeeps, ExpireKeeps, FinishKeeps, AlternateKeeps, DeadlineKeeps DEF Next
<1>3. CASE UNCHANGED vars
  <2>1. UNCHANGED <<story, row, late, run, fn>> /\ TypeOK /\ TypeOK'
    <3>1. TypeOK /\ TypeOK'
      BY <1>1 DEF IInv
    <3> QED
      BY <1>3, <3>1 DEF vars
  <2>2. \A q \in Runner : Leased(q)' => Leased(q)
    BY <2>1 DEF Leased
  <2>3. RowFits'
    BY <1>1, <2>1, RowStays DEF RInv
  <2> QED
    BY <1>1, <2>1, <2>2, <2>3, AroundKeeps
<1> QED
  BY <1>2, <1>3

\* In steady circumstances the invariant above holds in every state.
THEOREM SteadyInductive == Spec => [](IInv /\ (Steady => RInv))
<1>1. Init => IInv /\ (Steady => RInv)
  BY InitHolds, InitFits
<1>2. IInv /\ (Steady => RInv) /\ [Next]_vars => (IInv /\ (Steady => RInv))'
  <2> SUFFICES ASSUME IInv, Steady => RInv, [Next]_vars
               PROVE  IInv' /\ (Steady' => RInv')
    OBVIOUS
  <2>1. IInv' /\ Grows
    BY StepKeeps
  <2>2. Steady' => Steady
    BY <2>1 DEF Grows, Steady
  <2> QED
    BY <2>1, <2>2, StepFits
<1> QED
  BY <1>1, <1>2, PTL DEF Spec

\* The story is one that a single worker could have written that was never
\* interrupted, whatever crashed, lost its lease or lost an answer (DoJob and DoTask
\* replay it from ordinal 1 and append only at its end).
THEOREM StoryReplays == Spec => []ReplayableStory
<1>1. IInv /\ (Steady => RInv) => ReplayableStory
  BY DEF RInv, StoryFits, Good, ReplayableStory
<1> QED
  BY <1>1, SteadyInductive, PTL

\* No goroutine starts its task in such a step.
StartsNone ==
  \A q \in Runner, b \in Attempt : fn'[q][b].pc = "work" => fn[q][b].pc = "work"

LEMMA NoneStarts ==
  ASSUME TypeOK, NEW r \in Runner, NEW a \in Attempt, NEW g,
         fn' = [fn EXCEPT ![r][a] = g], g.pc # "work"
  PROVE  StartsNone
<1>1. fn \in [Runner -> [Attempt -> FnState]]
  BY Shapes
<1> QED
  BY <1>1 DEF StartsNone

LEMMA GoesStartsNone ==
  ASSUME TypeOK, NEW r \in Runner, NEW a \in Attempt, NEW g, Goes(r, a, g), g.pc # "work"
  PROVE  StartsNone
<1>1. PICK h \in {g, NoFn} : fn' = [fn EXCEPT ![r][a] = h]
  BY DEF Goes
<1>2. h.pc # "work"
  BY DEF NoFn
<1> QED
  BY <1>1, <1>2, NoneStarts

\* Whatever becomes of an attempt, its goroutine starts nothing before it has looked.
LEMMA ResultsStartNone ==
  ASSUME NEW f
  PROVE  /\ Succeed(f).pc # "work"
         /\ \A k : Fail(f, k).pc # "work"
         /\ \A k, n, b : AfterAttempt(f, k, n, b).pc # "work"
<1>1. Succeed(f).pc # "work"
  BY DEF Succeed, NoFn
<1>2. ASSUME NEW k
      PROVE  Fail(f, k).pc # "work"
  BY <1>1 DEF Fail, NoFn
<1>3. ASSUME NEW k, NEW n, NEW b
      PROVE  AfterAttempt(f, k, n, b).pc # "work"
  <2> DEFINE retries == k # "ok" /\ b /\ n < TaskAttempts
             g == [NoFn EXCEPT !.pc = "call", !.step = f.step, !.try = n + 1]
  <2>1. AfterAttempt(f, k, n, b) = CASE k = "ok" -> Succeed(f)
                                     [] retries -> g
                                     [] OTHER -> Fail(f, k)
    BY DEF AfterAttempt
  <2>2. g.pc = "call"
    BY DEF NoFn
  <2> HIDE DEF g
  <2>3. CASE k = "ok"
    BY <1>1, <2>1, <2>3
  <2>4. CASE retries
    BY <2>1, <2>2, <2>4
  <2>5. CASE k # "ok" /\ ~retries
    BY <1>2, <2>1, <2>5
  <2> QED
    BY <2>3, <2>4, <2>5
<1> QED
  BY <1>1, <1>2, <1>3

LEMMA TaskStartsNone ==
  ASSUME TypeOK, NEW r \in Runner, NEW a \in Attempt,
         TaskStep(r, a) \/ TaskWriteFails(r, a) \/ TaskAnswerLost(r, a), ~ExecuteTask(r, a)
  PROVE  StartsNone
<1>1. PICK f \in FnState : f = fn[r][a]
  BY Shapes
<1>2. fn \in [Runner -> [Attempt -> FnState]] /\ NoFn.pc = "none"
  BY Shapes, NoFacts
<1>3. CASE CallTask(r, a)
  <2>1. PICK g : g = [f EXCEPT !.pc = "look", !.at = run[r].counter]
    OBVIOUS
  <2>2. fn' = [fn EXCEPT ![r][a] = g] /\ g.pc = "look"
    BY <1>1, <1>2, <1>3, <2>1 DEF CallTask, FnState
  <2> QED
    BY <2>2, NoneStarts
<1>4. CASE ReplayTask(r, a)
  <2>1. PICK g : /\ Goes(r, a, g)
                 /\ \/ g = Fail(f, "nondet")
                    \/ \E k, n, b : g = AfterAttempt(f, k, n, b)
    BY <1>1, <1>4 DEF ReplayTask
  <2> QED
    BY <2>1, ResultsStartNone, GoesStartsNone
<1>5. CASE AwaitTask(r, a) \/ Recycle(r, a)
  <2>1. fn' = [fn EXCEPT ![r][a] = NoFn]
    BY <1>5 DEF AwaitTask, Recycle, Quit
  <2> QED
    BY <1>2, <2>1, NoneStarts
<1>6. CASE RecordTask(r, a)
  BY <1>1, <1>6, ResultsStartNone, GoesStartsNone DEF RecordTask
<1>7. CASE TaskRefused(r, a) \/ TaskWriteFails(r, a) \/ TaskAnswerLost(r, a)
  BY <1>1, <1>7, ResultsStartNone, GoesStartsNone DEF TaskRefused, TaskWriteFails, TaskAnswerLost
<1>8. CASE Sleep(r, a)
  BY <1>1, <1>8, ResultsStartNone, GoesStartsNone DEF Sleep
<1>9. ASSUME NEW k, PutTask(r, a, k)
      PROVE  StartsNone
  <2>1. PICK g : g = [f EXCEPT !.pc = "put", !.kind = k]
    OBVIOUS
  <2>2. fn' = [fn EXCEPT ![r][a] = g] /\ g.pc = "put"
    BY <1>1, <1>2, <1>9, <2>1 DEF PutTask, FnState
  <2> QED
    BY <2>2, NoneStarts
<1> QED
  BY <1>3, <1>4, <1>5, <1>6, <1>7, <1>8, <1>9 DEF TaskStep

LEMMA JobStartsNone ==
  ASSUME TypeOK, NEW r \in Runner, JobStep(r) \/ Poll(r) \/ Crash(r) \/ Expire(r)
  PROVE  StartsNone
<1>1. fn \in [Runner -> [Attempt -> FnState]] /\ NoFn.pc = "none" /\ run[r].attempt \in Attempt
  BY Shapes, NoFacts DEF RunState
<1>2. CASE UNCHANGED fn
  BY <1>2 DEF StartsNone
<1>3. CASE fn' = [fn EXCEPT ![r] = [a \in Attempt |-> NoFn]]
  BY <1>1, <1>3 DEF StartsNone
<1>4. CASE StartAttempt(r)
  <2>1. PICK g : g = [NoFn EXCEPT !.pc = "call"]
    OBVIOUS
  <2>2. fn' = [fn EXCEPT ![r][run[r].attempt] = g] /\ g.pc = "call"
    BY <1>4, <2>1 DEF StartAttempt, NoFn
  <2> QED
    BY <1>1, <2>2, NoneStarts
<1>5. CASE AttemptReturns(r)
  <2>1. fn' = [fn EXCEPT ![r][run[r].attempt] = NoFn]
    BY <1>5 DEF AttemptReturns
  <2> QED
    BY <1>1, <2>1, NoneStarts
<1>6. CASE fn' = [fn EXCEPT ![r] = [a \in Attempt |-> IF @[a].pc = "done" THEN NoFn ELSE @[a]]]
  BY <1>1, <1>6 DEF StartsNone
<1>7. CASE JobStep(r)
  BY <1>2, <1>4, <1>5, <1>6, <1>7 DEF JobStep, CheckPrerequisites, TooLate, WaitedTooLong,
     ReplayOutcome, CheckOutcome, PutOutcome, RecordOutcome, OutcomeRefused, Archive,
     AttemptTimesOut
<1>8. CASE Poll(r) \/ Crash(r) \/ Expire(r)
  BY <1>2, <1>3, <1>8 DEF Poll, Crash, Expire
<1> QED
  BY <1>7, <1>8

\* Only ExecuteTask starts a task.
LEMMA OnlyExecute ==
  ASSUME TypeOK, Next, NEW r \in Runner, NEW a \in Attempt,
         fn[r][a].pc = "look", fn'[r][a].pc = "work"
  PROVE  ExecuteTask(r, a)
<1>1. ~StartsNone
  BY DEF StartsNone
<1>2. ~(FinishTask \/ AlternateNeed \/ DeadlinePasses)
  BY <1>1 DEF FinishTask, AlternateNeed, DeadlinePasses, StartsNone
<1>3. PICK q \in Runner, b \in Attempt : ExecuteTask(q, b)
  BY <1>1, <1>2, TaskStartsNone, JobStartsNone DEF Next
<1>4. q = r /\ b = a
  <2>1. fn \in [Runner -> [Attempt -> FnState]]
    BY Shapes
  <2> QED
    BY <1>3, <2>1 DEF ExecuteTask
<1> QED
  BY <1>3, <1>4

\* The step to which the story leads has no success since the last outcome of the job.
LEMMA NotYet ==
  ASSUME TypeOK, StoryFits, NEW s \in Nat, NEW m, Walk(NextOrdinal, s, m),
         NEW p \in DOMAIN story, story[p].type = "task", story[p].step = s, story[p].kind = "ok"
  PROVE  \E q \in p .. Len(story) : story[q].type = "job"
<1>1. PICK n : n = Len(story)
  OBVIOUS
<1>2. n \in Nat /\ p \in 1 .. n /\ n \in DOMAIN story /\ NextOrdinal = n + 1 /\ NextOrdinal - 1 = n
        /\ NextOrdinal # 1
  BY <1>1, Shapes DEF NextOrdinal
<1> SUFFICES ASSUME \A q \in p .. n : story[q].type # "job"
             PROVE  FALSE
  BY <1>1
<1>3. PICK c \in ChapterSet : c = story[n]
  BY <1>2, Shapes
<1>4. \A q \in p .. n : story[q].type = "task"
  <2>1. \A q \in p .. n : q \in DOMAIN story
    BY <1>1, <1>2, Shapes
  <2> QED
    BY <2>1, Shapes DEF ChapterSet
<1>5. c.type = "task" /\ c.step \in Nat /\ s >= c.step /\ (c.kind = "ok" => s > c.step)
  <2>1. c.type = "task" /\ c.step \in Nat
    BY <1>2, <1>3, <1>4 DEF ChapterSet
  <2>2. LeadsTo(c, s, m)
    BY <1>2, <1>3 DEF Walk
  <2> QED
    BY <2>1, <2>2 DEF LeadsTo
<1>6. CASE p = n
  BY <1>3, <1>5, <1>6
<1>7. CASE p # n
  <2>1. story[p].step < story[n].step
    BY <1>2, <1>4, <1>7 DEF StoryFits, InOrder
  <2> QED
    BY <1>3, <1>5, <2>1
<1> QED
  BY <1>6, <1>7

\* A task that succeeded is not run again by whoever replays the story: DoTask looks for
\* its chapter before it runs it.
THEOREM NothingTwice == Spec => NoRework
<1>1. ASSUME IInv, Steady => RInv, Next, NEW r \in Runner, NEW a \in Attempt,
             Steady, fn[r][a].pc = "look", fn'[r][a].pc = "work",
             NEW o \in DOMAIN story, story[o].type = "task", story[o].step = fn[r][a].step,
             story[o].kind = "ok"
      PROVE  \E p \in o .. Len(story) : story[p].type = "job"
  <2>1. TypeOK /\ RInv /\ StoryFits
    BY <1>1 DEF IInv, RInv
  <2>2. ExecuteTask(r, a)
    BY <1>1, <2>1, OnlyExecute
  <2>3. PICK x \in RunState, f \in FnState :
          f = fn[r][a] /\ Stands(x, f) /\ x.counter \in 1 .. NextOrdinal /\ NextOrdinal \in Nat
    BY <1>1, <2>1, Under
  <2>4. f.pc = "look" /\ ~Present(f.at) /\ f.at \in 1 .. NextOrdinal /\ Walk(f.at, f.step, f.try)
    BY <1>1, <2>2, <2>3 DEF ExecuteTask, Stands
  <2>5. f.at = NextOrdinal /\ f.step \in Nat
    BY <2>1, <2>3, <2>4, Shapes DEF Present, NextOrdinal, FnState
  <2> QED
    BY <1>1, <2>1, <2>3, <2>4, <2>5, NotYet
<1>2. IInv /\ (Steady => RInv) /\ [Next]_vars =>
        [\A r \in Runner, a \in Attempt :
           Steady /\ fn[r][a].pc = "look" /\ fn'[r][a].pc = "work" =>
             \A o \in DOMAIN story :
               /\ story[o].type = "task" /\ story[o].step = fn[r][a].step
               /\ story[o].kind = "ok"
               => \E p \in o .. Len(story) : story[p].type = "job"]_vars
  BY <1>1
<1> QED
  BY <1>2, SteadyInductive, PTL DEF Spec, NoRework
=============================================================================
