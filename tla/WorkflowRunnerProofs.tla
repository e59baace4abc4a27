------------------------ MODULE WorkflowRunnerProofs ------------------------
(***************************************************************************)
(* Proofs about WorkflowRunner, for any application, circumstances, number *)
(* of workers and bounds.                                                  *)
(***************************************************************************)
EXTENDS WorkflowRunner, TLAPS, SequenceTheorems

-----------------------------------------------------------------------------
(* The inductive invariant, in every circumstance                          *)

FnState == [pc : {"none", "call", "look", "work", "put", "done"}, step : DOMAIN flow,
            try : 1 .. TaskAttempts, at : Ordinal, kind : JobResult]
RunState == [pc : {"off", "begin", "top", "wait", "check", "record", "put", "archive"},
             counter : Ordinal, attempt : Attempt, at : Ordinal, kind : JobResult]

\* The story has the failure that attempt n of step s retries.
Tried(s, n) ==
  n > 1 /\ flow[s] # "external" =>
    \E p \in DOMAIN story :
      /\ story[p].type = "task" /\ story[p].step = s
      /\ story[p].attempt = n - 1 /\ story[p].kind # "ok"

\* Who has come to step s has a success of each step before that needs one.
Earned(s) ==
  \A t \in 1 .. s - 1 : flow[t] \in {"local", "external"} =>
    \E p \in DOMAIN story :
      story[p].type = "task" /\ story[p].step = t /\ story[p].kind = "ok"

\* The story has a final chapter, with success or not.
Ended(success) ==
  \E o \in DOMAIN story : Final(story[o]) /\ success = (story[o].kind = "ok")

InTask(f) == f.pc \in {"call", "look", "work", "put"}

FnSound(f) ==
  /\ InTask(f) => Tried(f.step, f.try) /\ Earned(f.step)
  /\ f.pc = "done" /\ f.kind = "ok" => Earned(Len(flow) + 1)

RunSound(x) ==
  /\ x.pc \in {"check", "record", "put"} /\ x.kind = "ok" => Earned(Len(flow) + 1)
  /\ x.pc = "archive" => Ended(x.kind = "ok")

\* What may be added to the story
Fits(c) ==
  /\ c.type = "task" => c.step \in DOMAIN flow /\ Tried(c.step, c.attempt)
  /\ c.type = "job" => /\ c.attempt \in Attempt
                       /\ c.kind = "ok" => Earned(Len(flow) + 1)

IInv ==
  /\ TypeOK
  /\ Len(story) <= MaxStory
  /\ \A o \in DOMAIN story : /\ story[o].type = "task" => story[o].step \in DOMAIN flow
                             /\ story[o].type = "job" => story[o].attempt \in Attempt
  /\ AttemptsFollow /\ SuccessIsEarned /\ EndHasFinal
  /\ row.need = "task" => row.step \in DOMAIN flow /\ flow[row.step] = "external"
  /\ \A r \in Runner, a \in Attempt, f \in FnState : fn[r][a] = f => FnSound(f)
  /\ \A r \in Runner, x \in RunState : run[r] = x => RunSound(x)

-----------------------------------------------------------------------------
(* Shapes                                                                  *)

LEMMA Shapes ==
  ASSUME TypeOK
  PROVE  /\ flow \in Seq(StepKind) /\ Len(flow) \in Nat \ {0} /\ DOMAIN flow = 1 .. Len(flow)
         /\ 1 \in DOMAIN flow
         /\ story \in Seq(ChapterSet) /\ Len(story) \in Nat /\ DOMAIN story = 1 .. Len(story)
         /\ \A o \in DOMAIN story : story[o] \in ChapterSet
         /\ fn \in [Runner -> [Attempt -> FnState]] /\ run \in [Runner -> RunState]
         /\ traits \subseteq Trait
<1>1. flow \in Seq(StepKind) /\ flow # <<>> /\ traits \subseteq Trait
  <2>1. [flow |-> flow, traits |-> traits]
          \in [flow : Seq(StepKind) \ {<<>>}, traits : SUBSET Trait]
    BY RunnerAssumption DEF TypeOK
  <2> DEFINE c == [flow |-> flow, traits |-> traits]
  <2>2. c.flow \in Seq(StepKind) \ {<<>>} /\ c.traits \in SUBSET Trait
    BY <2>1
  <2> QED
    BY <2>2
<1>2. Len(flow) \in Nat \ {0} /\ DOMAIN flow = 1 .. Len(flow)
  BY <1>1, LenProperties, EmptySeq
<1>3. story \in Seq(ChapterSet) /\ Len(story) \in Nat /\ DOMAIN story = 1 .. Len(story)
        /\ \A o \in DOMAIN story : story[o] \in ChapterSet
  BY LenProperties, ElementOfSeq DEF TypeOK
<1>4. fn \in [Runner -> [Attempt -> FnState]] /\ run \in [Runner -> RunState]
  BY DEF TypeOK, FnState, RunState
<1> QED
  BY <1>1, <1>2, <1>3, <1>4

LEMMA Numbers ==
  /\ MaxStory \in Nat /\ JobAttempts \in Nat \ {0} /\ TaskAttempts \in Nat \ {0}
  /\ 0 \in Ordinal /\ 1 \in Ordinal /\ 1 \in Attempt /\ 1 \in 1 .. TaskAttempts
  /\ \A o \in 1 .. MaxStory : o \in Ordinal /\ o + 1 \in Ordinal
  BY RunnerAssumption DEF Ordinal, Attempt

LEMMA NoFacts ==
  ASSUME TypeOK
  PROVE  /\ NoFn \in FnState /\ FnSound(NoFn) /\ NoRun \in RunState /\ RunSound(NoRun)
         /\ NoFn.pc = "none" /\ NoRun.pc = "off"
<1>1. NoFn \in FnState /\ NoRun \in RunState
  BY Shapes, Numbers DEF NoFn, NoRun, FnState, RunState, JobResult, TaskResult
<1>2. FnSound(NoFn) /\ RunSound(NoRun)
  BY DEF NoFn, NoRun, FnSound, RunSound, InTask
<1> QED
  BY <1>1, <1>2 DEF NoFn, NoRun

-----------------------------------------------------------------------------
(* What a step leaves                                                      *)

\* The application is fixed, and stories only grow.
Grows ==
  /\ flow' = flow /\ traits' = traits
  /\ DOMAIN story \subseteq DOMAIN story'
  /\ \A o \in DOMAIN story : story'[o] = story[o]

StoryMoves ==
  story' = story \/ \E c \in ChapterSet : Fits(c) /\ Append1(c)

\* One goroutine or more go on, and have what their new places ask for.
FnMoves ==
  /\ fn' \in [Runner -> [Attempt -> FnState]]
  /\ \A r \in Runner, a \in Attempt, f \in FnState :
       fn'[r][a] = f => f = fn[r][a] \/ FnSound(f) \/ FnSound(f)'

RunMoves ==
  /\ run' \in [Runner -> RunState]
  /\ \A r \in Runner, x \in RunState :
       run'[r] = x => x = run[r] \/ RunSound(x) \/ RunSound(x)'

RowType == [need : {"job", "task"}, slot : Ordinal, step : Nat,
            holder : Runner \cup {NoRunner}, status : {"open", "success", "failed"}]

RowSound(w) ==
  /\ w \in RowType
  /\ w.need = "task" => w.step \in DOMAIN flow /\ flow[w.step] = "external"
  /\ w.status # "open" => Ended(w.status = "success")

LEMMA AppendFacts ==
  ASSUME TypeOK, NEW c \in ChapterSet, Append1(c)
  PROVE  /\ story' \in Seq(ChapterSet) /\ Len(story') = Len(story) + 1
         /\ NextOrdinal = Len(story) + 1 /\ NextOrdinal \in 1 .. MaxStory
         /\ DOMAIN story' = 1 .. NextOrdinal /\ DOMAIN story = 1 .. Len(story)
         /\ story'[NextOrdinal] = c
         /\ \A o \in DOMAIN story : o \in DOMAIN story' /\ story'[o] = story[o]
<1>1. story \in Seq(ChapterSet) /\ Len(story) \in Nat /\ DOMAIN story = 1 .. Len(story)
  BY Shapes
<1>2. story' = Append(story, c) /\ Len(story) < MaxStory /\ MaxStory \in Nat
  BY Numbers DEF Append1
<1>3. /\ story' \in Seq(ChapterSet) /\ Len(story') = Len(story) + 1
      /\ \A i \in 1 .. Len(story) : story'[i] = story[i]
      /\ story'[Len(story) + 1] = c
  BY <1>1, <1>2, AppendProperties
<1>4. DOMAIN story' = 1 .. Len(story')
  BY <1>3, LenProperties
<1> QED
  BY <1>1, <1>2, <1>3, <1>4 DEF NextOrdinal

LEMMA FoundStays ==
  ASSUME Grows
  PROVE  /\ \A s, n : Tried(s, n) => Tried(s, n)'
         /\ \A s : Earned(s) => Earned(s)'
         /\ \A b \in BOOLEAN : Ended(b) => Ended(b)'
<1>1. ASSUME NEW s, NEW n, Tried(s, n)
      PROVE  Tried(s, n)'
  BY <1>1 DEF Tried, Grows
<1>2. ASSUME NEW s, Earned(s)
      PROVE  Earned(s)'
  BY <1>2 DEF Earned, Grows
<1>3. ASSUME NEW b \in BOOLEAN, Ended(b)
      PROVE  Ended(b)'
  BY <1>3 DEF Ended, Grows, Final
<1> QED
  BY <1>1, <1>2, <1>3

LEMMA SoundStays ==
  ASSUME Grows
  PROVE  /\ \A f \in FnState : FnSound(f) => FnSound(f)'
         /\ \A x \in RunState : RunSound(x) => RunSound(x)'
         /\ \A w \in RowType : RowSound(w) => RowSound(w)'
<1>1. flow' = flow
  BY DEF Grows
<1>2. ASSUME NEW f \in FnState, FnSound(f)
      PROVE  FnSound(f)'
  <2>1. InTask(f)' = InTask(f)
    BY DEF InTask
  <2>2. f.pc = "done" /\ f.kind = "ok" => Earned(Len(flow) + 1)'
    <3>1. PICK n : n = Len(flow) + 1
      OBVIOUS
    <3>2. Earned(n) => Earned(n)'
      BY FoundStays
    <3> QED
      BY <1>1, <1>2, <3>1, <3>2 DEF FnSound, Earned
  <2>3. InTask(f) => Tried(f.step, f.try)' /\ Earned(f.step)'
    BY <1>2, FoundStays DEF FnSound
  <2> QED
    BY <2>1, <2>2, <2>3 DEF FnSound, InTask
<1>3. ASSUME NEW x \in RunState, RunSound(x)
      PROVE  RunSound(x)'
  <2>1. PICK n : n = Len(flow) + 1
    OBVIOUS
  <2>2. Earned(n) => Earned(n)'
    BY FoundStays
  <2>3. PICK b \in BOOLEAN : b = (x.kind = "ok")
    OBVIOUS
  <2>4. Ended(b) => Ended(b)'
    BY FoundStays
  <2> QED
    BY <1>1, <1>3, <2>1, <2>2, <2>3, <2>4 DEF RunSound, Earned, Ended
<1>4. ASSUME NEW w \in RowType, RowSound(w)
      PROVE  RowSound(w)'
  <2>1. PICK b \in BOOLEAN : b = (w.status = "success")
    OBVIOUS
  <2>2. Ended(b) => Ended(b)'
    BY FoundStays
  <2> QED
    BY <1>1, <1>4, <2>1, <2>2 DEF RowSound, Ended, RowType
<1> QED
  BY <1>2, <1>3, <1>4

LEMMA StoryHolds ==
  ASSUME IInv, flow' = flow, traits' = traits, StoryMoves
  PROVE  /\ Grows /\ story' \in Seq(ChapterSet) /\ Len(story') <= MaxStory
         /\ \A o \in DOMAIN story' :
              /\ story'[o].type = "task" => story'[o].step \in DOMAIN flow
              /\ story'[o].type = "job" => story'[o].attempt \in Attempt
         /\ AttemptsFollow' /\ SuccessIsEarned'
<1>1. TypeOK /\ AttemptsFollow /\ SuccessIsEarned /\ Len(story) <= MaxStory
        /\ \A o \in DOMAIN story :
             /\ story[o].type = "task" => story[o].step \in DOMAIN flow
             /\ story[o].type = "job" => story[o].attempt \in Attempt
  BY DEF IInv
<1>2. story \in Seq(ChapterSet)
  BY <1>1, Shapes
<1>3. CASE story' = story
  BY <1>1, <1>2, <1>3 DEF Grows, AttemptsFollow, SuccessIsEarned
<1>4. CASE story' # story
  <2>1. PICK c \in ChapterSet : Fits(c) /\ Append1(c)
    BY <1>4 DEF StoryMoves
  <2> DEFINE n == NextOrdinal
  <2>2. /\ story' \in Seq(ChapterSet) /\ Len(story') = Len(story) + 1
        /\ n = Len(story) + 1 /\ n \in 1 .. MaxStory /\ Len(story) \in Nat
        /\ DOMAIN story' = 1 .. n /\ DOMAIN story = 1 .. Len(story)
        /\ story'[n] = c
        /\ \A o \in DOMAIN story : o \in DOMAIN story' /\ story'[o] = story[o]
    BY <1>1, <2>1, AppendFacts, Shapes
  <2> HIDE DEF n
  <2>3. Grows
    BY <2>2 DEF Grows
  <2>4. Len(story') <= MaxStory /\ \A o \in DOMAIN story' : o = n \/ o \in DOMAIN story
    BY <2>2
  <2>5. \A o \in DOMAIN story' : \A p \in 1 .. o - 1 : p \in DOMAIN story
    BY <2>2
  <2>6. DOMAIN story = 1 .. n - 1
    BY <2>2
  <2>7. AttemptsFollow'
    <3> SUFFICES ASSUME NEW o \in DOMAIN story', story'[o].type = "task",
                        story'[o].attempt > 1, flow[story'[o].step] # "external"
                 PROVE  \E p \in 1 .. o - 1 :
                          /\ story'[p].type = "task" /\ story'[p].step = story'[o].step
                          /\ story'[p].attempt = story'[o].attempt - 1
                          /\ story'[p].kind # "ok"
      BY DEF AttemptsFollow
    <3>1. CASE o = n
      BY <2>1, <2>2, <2>6, <3>1 DEF Fits, Tried
    <3>2. CASE o \in DOMAIN story
      <4>1. PICK p \in 1 .. o - 1 :
              /\ story[p].type = "task" /\ story[p].step = story[o].step
              /\ story[p].attempt = story[o].attempt - 1
              /\ story[p].kind # "ok"
        BY <1>1, <2>2, <3>2 DEF AttemptsFollow
      <4> QED
        BY <2>2, <2>5, <3>2, <4>1
    <3> QED
      BY <2>4, <3>1, <3>2
  <2>8. SuccessIsEarned'
    <3> SUFFICES ASSUME NEW o \in DOMAIN story', story'[o].type = "job",
                        story'[o].kind = "ok", NEW s \in DOMAIN flow,
                        flow[s] \in {"local", "external"}
                 PROVE  \E p \in 1 .. o - 1 :
                          /\ story'[p].type = "task" /\ story'[p].step = s
                          /\ story'[p].kind = "ok"
      BY DEF SuccessIsEarned
    <3>1. CASE o = n
      <4>1. Earned(Len(flow) + 1)
        BY <2>1, <2>2, <3>1 DEF Fits
      <4>2. s \in 1 .. (Len(flow) + 1) - 1
        BY <1>1, Shapes
      <4>3. PICK p \in DOMAIN story :
              story[p].type = "task" /\ story[p].step = s /\ story[p].kind = "ok"
        BY <4>1, <4>2 DEF Earned
      <4> QED
        BY <2>2, <2>6, <3>1, <4>3
    <3>2. CASE o \in DOMAIN story
      <4>1. PICK p \in 1 .. o - 1 :
              story[p].type = "task" /\ story[p].step = s /\ story[p].kind = "ok"
        BY <1>1, <2>2, <3>2 DEF SuccessIsEarned
      <4> QED
        BY <2>2, <2>5, <3>2, <4>1
    <3> QED
      BY <2>4, <3>1, <3>2
  <2>9. \A o \in DOMAIN story' :
          /\ story'[o].type = "task" => story'[o].step \in DOMAIN flow
          /\ story'[o].type = "job" => story'[o].attempt \in Attempt
    BY <1>1, <2>1, <2>2, <2>4 DEF Fits
  <2> QED
    BY <2>2, <2>3, <2>4, <2>7, <2>8, <2>9
<1> QED
  BY <1>3, <1>4

LEMMA StepHolds ==
  ASSUME IInv, flow' = flow, traits' = traits, StoryMoves, FnMoves, RunMoves,
         row' = row \/ RowSound(row') \/ RowSound(row)',
         late' \in BOOLEAN, mishaps' \in 0 .. MaxMishaps
  PROVE  IInv' /\ Grows
<1>1. /\ Grows /\ story' \in Seq(ChapterSet) /\ Len(story') <= MaxStory
      /\ \A o \in DOMAIN story' :
           /\ story'[o].type = "task" => story'[o].step \in DOMAIN flow
           /\ story'[o].type = "job" => story'[o].attempt \in Attempt
      /\ AttemptsFollow' /\ SuccessIsEarned'
  BY StoryHolds
<1>2. TypeOK /\ row \in RowType /\ RowSound(row)
  BY DEF IInv, TypeOK, RowSound, EndHasFinal, Ended, RowType
<1>3. RowSound(row)'
  <2>1. PICK w : w = row'
    OBVIOUS
  <2>2. CASE RowSound(row)'
    BY <2>2
  <2>3. CASE RowSound(w)
    <3>1. w \in RowType
      BY <2>3 DEF RowSound
    <3>2. RowSound(w)'
      BY <1>1, <2>3, <3>1, SoundStays
    <3> QED
      BY <2>1, <3>2 DEF RowSound, Ended
  <2> QED
    BY <1>2, <2>1, <2>2, <2>3
<1>4. row' \in RowType /\ EndHasFinal'
        /\ (row'.need = "task" => row'.step \in DOMAIN flow /\ flow[row'.step] = "external")
  BY <1>1, <1>3 DEF RowSound, Ended, EndHasFinal, Grows
<1>5. TypeOK'
  BY <1>1, <1>2, <1>4 DEF TypeOK, Grows, FnMoves, RunMoves, FnState, RunState, RowType
<1>6. FnState' = FnState /\ RunState' = RunState
  BY <1>1 DEF FnState, RunState, Grows
<1>7. ASSUME NEW r \in Runner, NEW a \in Attempt, NEW f \in FnState, fn'[r][a] = f
      PROVE  FnSound(f)'
  <2>1. FnSound(f) \/ FnSound(f)'
    BY <1>7 DEF FnMoves, IInv
  <2> QED
    BY <1>1, <2>1, SoundStays
<1>8. ASSUME NEW r \in Runner, NEW x \in RunState, run'[r] = x
      PROVE  RunSound(x)'
  <2>1. RunSound(x) \/ RunSound(x)'
    BY <1>8 DEF RunMoves, IInv
  <2> QED
    BY <1>1, <2>1, SoundStays
<1> QED
  BY <1>1, <1>4, <1>5, <1>6, <1>7, <1>8 DEF IInv, Grows

LEMMA Places ==
  ASSUME IInv, NEW r \in Runner, NEW a \in Attempt
  PROVE  /\ TypeOK /\ fn[r][a] \in FnState /\ FnSound(fn[r][a])
         /\ run[r] \in RunState /\ RunSound(run[r])
  BY Shapes DEF IInv

-----------------------------------------------------------------------------
(* Moves of goroutines and runs                                            *)

LEMMA FnSame ==
  ASSUME TypeOK, UNCHANGED fn
  PROVE  FnMoves
  BY Shapes DEF FnMoves

LEMMA RunSame ==
  ASSUME TypeOK, UNCHANGED run
  PROVE  RunMoves
  BY Shapes DEF RunMoves

LEMMA FnOne ==
  ASSUME TypeOK, NEW r \in Runner, NEW a \in Attempt, NEW f \in FnState,
         fn' = [fn EXCEPT ![r][a] = f], FnSound(f) \/ FnSound(f)'
  PROVE  FnMoves
<1>1. fn \in [Runner -> [Attempt -> FnState]]
  BY Shapes
<1>2. fn' \in [Runner -> [Attempt -> FnState]]
  BY <1>1
<1>3. \A q \in Runner, b \in Attempt : fn'[q][b] = IF q = r /\ b = a THEN f ELSE fn[q][b]
  BY <1>1
<1> QED
  BY <1>2, <1>3 DEF FnMoves

LEMMA FnReset ==
  ASSUME TypeOK, NEW r \in Runner, fn' = [fn EXCEPT ![r] = [a \in Attempt |-> NoFn]]
  PROVE  FnMoves
<1>1. fn \in [Runner -> [Attempt -> FnState]] /\ NoFn \in FnState /\ FnSound(NoFn)
  BY Shapes, NoFacts
<1>2. fn' \in [Runner -> [Attempt -> FnState]]
  BY <1>1
<1>3. \A q \in Runner, b \in Attempt : fn'[q][b] = IF q = r THEN NoFn ELSE fn[q][b]
  BY <1>1
<1> QED
  BY <1>1, <1>2, <1>3 DEF FnMoves

LEMMA RunOne ==
  ASSUME TypeOK, NEW r \in Runner, NEW x \in RunState,
         run' = [run EXCEPT ![r] = x], RunSound(x) \/ RunSound(x)'
  PROVE  RunMoves
<1>1. run \in [Runner -> RunState]
  BY Shapes
<1>2. run' \in [Runner -> RunState]
  BY <1>1
<1>3. \A q \in Runner : run'[q] = IF q = r THEN x ELSE run[q]
  BY <1>1
<1> QED
  BY <1>2, <1>3 DEF RunMoves

LEMMA StoppedFacts ==
  ASSUME TypeOK, NEW r \in Runner, NEW a
  PROVE  Stopped(r, a) \in RunState /\ Stopped(r, a).pc = "off" /\ RunSound(Stopped(r, a))
<1> DEFINE n == IF \E b \in Attempt \ {a} : Alive(r, b) THEN run[r].counter ELSE 1
<1>1. n \in Ordinal
  BY Shapes, Numbers DEF RunState
<1> HIDE DEF n
<1>2. Stopped(r, a) = [NoRun EXCEPT !.counter = n]
  BY DEF Stopped, n
<1>3. NoRun \in RunState
  BY NoFacts
<1>4. Stopped(r, a) \in RunState /\ Stopped(r, a).pc = "off"
  BY <1>1, <1>2, <1>3, NoFacts DEF RunState
<1> QED
  BY <1>4 DEF RunSound

LEMMA StopHolds ==
  ASSUME TypeOK, NEW r \in Runner, NEW a, run' = [run EXCEPT ![r] = Stopped(r, a)]
  PROVE  RunMoves
  BY StoppedFacts, RunOne

LEMMA QuitFacts ==
  ASSUME TypeOK, NEW r \in Runner, NEW a \in Attempt, Quit(r, a)
  PROVE  FnMoves /\ RunMoves
<1>1. FnMoves
  BY NoFacts, FnOne DEF Quit
<1>2. RunMoves
  BY StopHolds, RunSame DEF Quit
<1> QED
  BY <1>1, <1>2

LEMMA GoesFacts ==
  ASSUME TypeOK, NEW r \in Runner, NEW a \in Attempt, NEW f \in FnState, Goes(r, a, f),
         FnSound(f) \/ FnSound(f)'
  PROVE  FnMoves
<1>1. PICK g \in {f, NoFn} : fn' = [fn EXCEPT ![r][a] = g]
  BY DEF Goes
<1> QED
  BY <1>1, FnOne, NoFacts

LEMMA CounterFacts ==
  ASSUME TypeOK, NEW r \in Runner, NEW o \in 1 .. MaxStory,
         RunSound(run[r]), run' = [run EXCEPT ![r].counter = Past(@, o)]
  PROVE  /\ RunMoves
         /\ run'[r] \in RunState /\ run'[r].counter = Past(run[r].counter, o)
         /\ run'[r].pc = run[r].pc /\ run'[r].attempt = run[r].attempt
<1> DEFINE n == Past(run[r].counter, o)
           x == [run[r] EXCEPT !.counter = n]
<1>1. run \in [Runner -> RunState] /\ run[r] \in RunState
  BY Shapes
<1>2. n \in Ordinal
  BY <1>1, Numbers DEF Past, RunState
<1>3. run' = [run EXCEPT ![r] = x]
  BY <1>1
<1> HIDE DEF n
<1>4. /\ x \in RunState /\ x.counter = n /\ x.pc = run[r].pc /\ x.attempt = run[r].attempt
      /\ x.kind = run[r].kind
  BY <1>1, <1>2 DEF RunState
<1> HIDE DEF x
<1>5. RunSound(x) <=> RunSound(run[r])
  BY <1>4 DEF RunSound
<1>6. run'[r] = x
  BY <1>1, <1>3
<1> QED
  BY <1>3, <1>4, <1>5, <1>6, RunOne DEF n

\* What becomes of f when attempt n of its step has result k
Passes(f, g) ==
  \/ g.pc = "call" /\ g.step = f.step + 1 /\ g.try = 1
  \/ g.pc = "done" /\ g.kind = "ok" /\ f.step = Len(flow)

LEMMA SucceedFacts ==
  ASSUME TypeOK, NEW f \in FnState
  PROVE  Succeed(f) \in FnState /\ Passes(f, Succeed(f))
<1>1. NoFn \in FnState /\ f.step \in 1 .. Len(flow) /\ DOMAIN flow = 1 .. Len(flow)
        /\ Len(flow) \in Nat /\ NoFn.kind = "ok" /\ NoFn.try = 1
  BY Shapes, NoFacts DEF FnState, NoFn
<1>2. CASE f.step < Len(flow)
  <2>1. f.step + 1 \in DOMAIN flow
    BY <1>1, <1>2
  <2> QED
    BY <1>1, <1>2, <2>1 DEF Succeed, Passes, FnState
<1>3. CASE ~(f.step < Len(flow))
  BY <1>1, <1>3 DEF Succeed, Passes, FnState
<1> QED
  BY <1>2, <1>3

LEMMA FailFacts ==
  ASSUME TypeOK, NEW f \in FnState, NEW k \in JobResult \ {"ok"}
  PROVE  /\ Fail(f, k) \in FnState
         /\ \/ flow[f.step] = "lenient" /\ k \in TaskResult /\ Passes(f, Fail(f, k))
            \/ /\ ~(flow[f.step] = "lenient" /\ k \in TaskResult)
               /\ Fail(f, k).pc = "done" /\ Fail(f, k).kind = k
<1>1. CASE flow[f.step] = "lenient" /\ k \in TaskResult
  BY <1>1, SucceedFacts DEF Fail
<1>2. CASE ~(flow[f.step] = "lenient" /\ k \in TaskResult)
  <2>1. Fail(f, k) = [NoFn EXCEPT !.pc = "done", !.kind = k]
    BY <1>2 DEF Fail
  <2>2. NoFn \in FnState /\ k \in JobResult
    BY NoFacts
  <2>3. Fail(f, k) \in FnState
    BY <2>1, <2>2 DEF FnState
  <2>4. Fail(f, k).pc = "done" /\ Fail(f, k).kind = k
    BY <2>1, <2>2 DEF FnState
  <2> QED
    BY <1>2, <2>3, <2>4
<1> QED
  BY <1>1, <1>2

LEMMA AfterFacts ==
  ASSUME TypeOK, NEW f \in FnState, NEW k \in JobResult, NEW n \in Nat, NEW b \in BOOLEAN
  PROVE  LET g == AfterAttempt(f, k, n, b) IN
         /\ g \in FnState
         /\ \/ /\ Passes(f, g)
               /\ k # "ok" => /\ flow[f.step] = "lenient" /\ k \in TaskResult
                              /\ ~(b /\ n < TaskAttempts)
            \/ /\ k # "ok" /\ b /\ n < TaskAttempts
               /\ g.pc = "call" /\ g.step = f.step /\ g.try = n + 1
            \/ /\ k # "ok" /\ ~(b /\ n < TaskAttempts)
               /\ ~(flow[f.step] = "lenient" /\ k \in TaskResult)
               /\ g.pc = "done" /\ g.kind = k
<1>1. CASE k = "ok"
  BY <1>1, SucceedFacts DEF AfterAttempt
<1>2. CASE k # "ok" /\ b /\ n < TaskAttempts
  <2>1. n + 1 \in 1 .. TaskAttempts /\ f.step \in DOMAIN flow
    BY <1>2, Numbers DEF FnState
  <2>2. AfterAttempt(f, k, n, b) = [NoFn EXCEPT !.pc = "call", !.step = f.step, !.try = n + 1]
    BY <1>2 DEF AfterAttempt
  <2> QED
    BY <1>2, <2>1, <2>2, NoFacts DEF FnState
<1>3. CASE k # "ok" /\ ~(b /\ n < TaskAttempts)
  <2>1. AfterAttempt(f, k, n, b) = Fail(f, k)
    BY <1>3 DEF AfterAttempt
  <2> QED
    BY <1>3, <2>1, FailFacts
<1> QED
  BY <1>1, <1>2, <1>3

LEMMA PassSound ==
  ASSUME TypeOK, Grows, NEW f \in FnState, NEW g \in FnState, InTask(f), FnSound(f),
         Passes(f, g),
         flow[f.step] \in {"local", "external"} =>
           \E p \in DOMAIN story' :
             story'[p].type = "task" /\ story'[p].step = f.step /\ story'[p].kind = "ok"
  PROVE  FnSound(g)'
<1>1. PICK s \in 1 .. Len(flow) : s = f.step
  BY Shapes DEF FnState
<1>2. flow' = flow /\ Len(flow) \in Nat /\ Earned(s)'
  BY <1>1, FoundStays, Shapes DEF FnSound, Grows
<1>3. PICK n : n = s + 1
  OBVIOUS
<1>4. Earned(n)'
  <2>1. \A t \in 1 .. n - 1 : t \in 1 .. s - 1 \/ t = s
    BY <1>3
  <2> QED
    BY <1>1, <1>2, <2>1 DEF Earned
<1>5. CASE g.pc = "call" /\ g.step = f.step + 1 /\ g.try = 1
  BY <1>1, <1>3, <1>4, <1>5 DEF FnSound, InTask, Tried
<1>6. CASE g.pc = "done" /\ g.kind = "ok" /\ f.step = Len(flow)
  <2>1. n = Len(flow) + 1
    BY <1>1, <1>3, <1>6
  <2> QED
    BY <1>2, <1>4, <1>6, <2>1 DEF FnSound, InTask, Earned
<1> QED
  BY <1>5, <1>6 DEF Passes

LEMMA FailSound ==
  ASSUME TypeOK, Grows, NEW f \in FnState, NEW k \in JobResult \ {"ok"}, InTask(f), FnSound(f)
  PROVE  \E g \in FnState : g = Fail(f, k) /\ FnSound(g)'
<1>1. PICK g \in FnState : g = Fail(f, k)
  BY FailFacts
<1>2. CASE flow[f.step] = "lenient" /\ Passes(f, g)
  BY <1>1, <1>2, PassSound
<1>3. CASE g.pc = "done" /\ g.kind = k
  BY <1>1, <1>3 DEF FnSound, InTask
<1> QED
  BY <1>1, <1>2, <1>3, FailFacts

LEMMA AfterSound ==
  ASSUME TypeOK, Grows, NEW f \in FnState, NEW k \in JobResult, NEW n \in Nat, NEW b \in BOOLEAN,
         InTask(f), FnSound(f),
         NEW p \in DOMAIN story', story'[p].type = "task", story'[p].step = f.step,
         story'[p].attempt = n, story'[p].kind = "ok" <=> k = "ok"
  PROVE  \E g \in FnState : g = AfterAttempt(f, k, n, b) /\ FnSound(g)'
<1>1. PICK g \in FnState :
        /\ g = AfterAttempt(f, k, n, b)
        /\ \/ Passes(f, g) /\ (k # "ok" => flow[f.step] = "lenient")
           \/ k # "ok" /\ g.pc = "call" /\ g.step = f.step /\ g.try = n + 1
           \/ k # "ok" /\ g.pc = "done" /\ g.kind = k
  BY AfterFacts
<1>2. CASE Passes(f, g) /\ (k # "ok" => flow[f.step] = "lenient")
  BY <1>1, <1>2, PassSound
<1>3. CASE k # "ok" /\ g.pc = "call" /\ g.step = f.step /\ g.try = n + 1
  <2>1. Earned(g.step)'
    <3>1. PICK s : s = f.step
      OBVIOUS
    <3>2. Earned(s)'
      BY <3>1, FoundStays DEF FnSound
    <3> QED
      BY <1>3, <3>1, <3>2
  <2>2. Tried(g.step, g.try)'
    BY <1>3 DEF Tried, Grows
  <2> QED
    BY <1>1, <1>3, <2>1, <2>2 DEF FnSound, InTask
<1>4. CASE k # "ok" /\ g.pc = "done" /\ g.kind = k
  BY <1>1, <1>4 DEF FnSound, InTask
<1> QED
  BY <1>1, <1>2, <1>3, <1>4

LEMMA KindFacts ==
  /\ \A k \in JobResult : /\ StoredKind(k) \in JobResult /\ (StoredKind(k) = "ok" <=> k = "ok")
                          /\ Retryable(k) \in BOOLEAN /\ StoredRetryable(k) \in BOOLEAN
                          /\ ~StoredRetryable(k) => ~Retryable(k)
                          /\ ~Retryable(k) /\ k \notin {"fatal", "prereq"} => ~StoredRetryable(k)
  /\ TaskResult \subseteq JobResult
  /\ {"ok", "app", "fatal", "total", "timeout", "system", "nondet", "prereq"} = JobResult
  BY DEF StoredKind, Retryable, StoredRetryable, JobResult, TaskResult

\* Steps that only move a goroutine within its task
LEMMA MoveHolds ==
  ASSUME IInv, NEW r \in Runner, NEW a \in Attempt, NEW f \in FnState,
         fn' = [fn EXCEPT ![r][a] = f], FnSound(f),
         UNCHANGED <<flow, traits, story, row, late, run, mishaps>>
  PROVE  IInv' /\ Grows
<1>1. TypeOK /\ late \in BOOLEAN /\ mishaps \in 0 .. MaxMishaps
  BY DEF IInv, TypeOK
<1> QED
  BY <1>1, FnOne, RunSame, StepHolds DEF StoryMoves

LEMMA CallHolds ==
  ASSUME IInv, NEW r \in Runner, NEW a \in Attempt, CallTask(r, a)
  PROVE  IInv' /\ Grows
<1> DEFINE f == [fn[r][a] EXCEPT !.pc = "look", !.at = run[r].counter]
<1>1. TypeOK /\ fn[r][a] \in FnState /\ FnSound(fn[r][a]) /\ run[r].counter \in Ordinal
        /\ fn \in [Runner -> [Attempt -> FnState]] /\ fn[r][a].pc = "call"
  BY Places, Shapes DEF RunState, CallTask
<1>2. fn' = [fn EXCEPT ![r][a] = f]
  BY <1>1 DEF CallTask
<1>3. f \in FnState /\ f.pc = "look" /\ f.step = fn[r][a].step /\ f.try = fn[r][a].try
  BY <1>1 DEF FnState
<1> HIDE DEF f
<1>4. FnSound(f)
  BY <1>1, <1>3 DEF FnSound, InTask
<1> QED
  BY <1>2, <1>3, <1>4, MoveHolds DEF CallTask

LEMMA ExecuteHolds ==
  ASSUME IInv, NEW r \in Runner, NEW a \in Attempt, ExecuteTask(r, a)
  PROVE  IInv' /\ Grows
<1> DEFINE f == [fn[r][a] EXCEPT !.pc = "work"]
<1>1. TypeOK /\ fn[r][a] \in FnState /\ FnSound(fn[r][a])
        /\ fn \in [Runner -> [Attempt -> FnState]] /\ fn[r][a].pc = "look"
  BY Places, Shapes DEF ExecuteTask
<1>2. fn' = [fn EXCEPT ![r][a] = f]
  BY <1>1 DEF ExecuteTask
<1>3. f \in FnState /\ f.pc = "work" /\ f.step = fn[r][a].step /\ f.try = fn[r][a].try
  BY <1>1 DEF FnState
<1> HIDE DEF f
<1>4. FnSound(f)
  BY <1>1, <1>3 DEF FnSound, InTask
<1> QED
  BY <1>2, <1>3, <1>4, MoveHolds DEF ExecuteTask

LEMMA PutTaskHolds ==
  ASSUME IInv, NEW r \in Runner, NEW a \in Attempt, NEW k \in TaskResult, PutTask(r, a, k)
  PROVE  IInv' /\ Grows
<1> DEFINE f == [fn[r][a] EXCEPT !.pc = "put", !.kind = k]
<1>1. TypeOK /\ fn[r][a] \in FnState /\ FnSound(fn[r][a])
        /\ fn \in [Runner -> [Attempt -> FnState]] /\ fn[r][a].pc = "work"
  BY Places, Shapes DEF PutTask
<1>2. fn' = [fn EXCEPT ![r][a] = f]
  BY <1>1 DEF PutTask
<1>3. f \in FnState /\ f.pc = "put" /\ f.step = fn[r][a].step /\ f.try = fn[r][a].try
  BY <1>1, KindFacts DEF FnState
<1> HIDE DEF f
<1>4. FnSound(f)
  BY <1>1, <1>3 DEF FnSound, InTask
<1> QED
  BY <1>2, <1>3, <1>4, MoveHolds DEF PutTask

\* Steps by which a goroutine gets the result of a task
LEMMA ResultHolds ==
  ASSUME IInv, NEW r \in Runner, NEW a \in Attempt, NEW f \in FnState, Goes(r, a, f),
         FnSound(f) \/ FnSound(f)', StoryMoves, RunMoves,
         mishaps' \in 0 .. MaxMishaps, UNCHANGED <<flow, traits, row, late>>
  PROVE  IInv' /\ Grows
<1>1. TypeOK /\ late \in BOOLEAN
  BY DEF IInv, TypeOK
<1> QED
  BY <1>1, GoesFacts, StepHolds

LEMMA SameGrows ==
  ASSUME UNCHANGED <<flow, traits, story>>
  PROVE  Grows /\ StoryMoves
  BY DEF Grows, StoryMoves

LEMMA ReplayHolds ==
  ASSUME IInv, NEW r \in Runner, NEW a \in Attempt, ReplayTask(r, a)
  PROVE  IInv' /\ Grows
<1>1. PICK f \in FnState : f = fn[r][a]
  BY Places
<1>2. PICK c : c = story[f.at]
  OBVIOUS
<1>3. /\ TypeOK /\ FnSound(f) /\ f.pc = "look" /\ InTask(f) /\ f.at \in DOMAIN story
      /\ run' = [run EXCEPT ![r].counter = Past(@, f.at)]
      /\ Goes(r, a, IF c.type # "task" \/ c.step # f.step THEN Fail(f, "nondet")
                    ELSE AfterAttempt(f, StoredKind(c.kind), c.attempt, StoredRetryable(c.kind)))
      /\ UNCHANGED <<flow, traits, story, row, late, mishaps>>
  BY <1>1, <1>2, Places DEF ReplayTask, Present, InTask
<1>4. /\ f.at \in 1 .. MaxStory /\ c \in ChapterSet /\ mishaps \in 0 .. MaxMishaps
      /\ c.kind \in JobResult /\ c.attempt \in Nat
  <2>1. mishaps \in 0 .. MaxMishaps /\ Len(story) <= MaxStory
    BY DEF IInv, TypeOK
  <2>2. f.at \in 1 .. Len(story) /\ Len(story) \in Nat /\ MaxStory \in Nat
    BY <1>3, Shapes, Numbers
  <2>3. c \in ChapterSet
    BY <1>2, <1>3, Shapes
  <2> QED
    BY <2>1, <2>2, <2>3 DEF ChapterSet
<1>5. RunMoves
  BY <1>3, <1>4, Places, CounterFacts
<1>6. Grows /\ StoryMoves
  BY <1>3, SameGrows
<1>7. CASE c.type # "task" \/ c.step # f.step
  <2>1. PICK g \in FnState : g = Fail(f, "nondet") /\ FnSound(g)'
    BY <1>3, <1>6, FailSound, KindFacts
  <2> QED
    BY <1>3, <1>4, <1>5, <1>6, <1>7, <2>1, ResultHolds
<1>8. CASE c.type = "task" /\ c.step = f.step
  <2>1. PICK g \in FnState :
          /\ g = AfterAttempt(f, StoredKind(c.kind), c.attempt, StoredRetryable(c.kind))
          /\ FnSound(g)'
    BY <1>2, <1>3, <1>4, <1>6, <1>8, AfterSound, KindFacts
  <2> QED
    BY <1>3, <1>4, <1>5, <1>6, <1>8, <2>1, ResultHolds
<1> QED
  BY <1>7, <1>8

LEMMA RowFacts ==
  ASSUME IInv
  PROVE  row \in RowType /\ RowSound(row) /\ late \in BOOLEAN /\ mishaps \in 0 .. MaxMishaps
  BY DEF IInv, TypeOK, RowSound, EndHasFinal, Ended, RowType

\* The holder gives the row back, or the row asks for something else.
LEMMA RowGoes ==
  ASSUME IInv, NEW w \in {row, [row EXCEPT !.holder = NoRunner]}
  PROVE  RowSound(w)
<1>1. row \in RowType /\ RowSound(row)
  BY RowFacts
<1>2. [row EXCEPT !.holder = NoRunner] \in RowType
  BY <1>1 DEF RowType
<1>3. /\ [row EXCEPT !.holder = NoRunner].need = row.need
      /\ [row EXCEPT !.holder = NoRunner].step = row.step
      /\ [row EXCEPT !.holder = NoRunner].status = row.status
  BY <1>1 DEF RowType
<1> QED
  BY <1>1, <1>2, <1>3 DEF RowSound

\* Steps by which a goroutine ends without a result
LEMMA QuitHolds ==
  ASSUME IInv, NEW r \in Runner, NEW a \in Attempt, Quit(r, a), RowSound(row'),
         UNCHANGED <<flow, traits, story, late, mishaps>>
  PROVE  IInv' /\ Grows
<1>1. TypeOK /\ late \in BOOLEAN /\ mishaps \in 0 .. MaxMishaps
  BY RowFacts DEF IInv
<1> QED
  BY <1>1, QuitFacts, SameGrows, StepHolds

LEMMA AwaitHolds ==
  ASSUME IInv, NEW r \in Runner, NEW a \in Attempt, AwaitTask(r, a)
  PROVE  IInv' /\ Grows
<1>1. PICK f \in FnState : f = fn[r][a]
  BY Places
<1>2. f.at \in Ordinal /\ f.step \in DOMAIN flow /\ f.step \in Nat /\ flow[f.step] = "external"
  BY <1>1, Shapes DEF FnState, AwaitTask, IInv
<1> DEFINE w == [row EXCEPT !.need = "task", !.slot = f.at, !.step = f.step, !.holder = NoRunner]
<1>3. row \in RowType /\ RowSound(row)
  BY RowFacts
<1>4. w \in RowType
  BY <1>2, <1>3 DEF RowType
<1>5. w.step = f.step /\ w.status = row.status
  BY <1>3 DEF RowType
<1>6. row' = IF Leased(r) THEN w ELSE row
  BY <1>1 DEF AwaitTask
<1> HIDE DEF w
<1>7. RowSound(w)
  BY <1>2, <1>3, <1>4, <1>5 DEF RowSound
<1> QED
  BY <1>3, <1>6, <1>7, QuitHolds DEF AwaitTask

LEMMA RecycleHolds ==
  ASSUME IInv, NEW r \in Runner, NEW a \in Attempt, Recycle(r, a)
  PROVE  IInv' /\ Grows
  BY RowGoes, QuitHolds DEF Recycle

LEMMA SleepHolds ==
  ASSUME IInv, NEW r \in Runner, NEW a \in Attempt, Sleep(r, a)
  PROVE  IInv' /\ Grows
<1>1. PICK f \in FnState : f = fn[r][a]
  BY Places
<1>2. /\ TypeOK /\ FnSound(f) /\ InTask(f) /\ flow[f.step] = "pause" /\ Goes(r, a, Succeed(f))
      /\ UNCHANGED <<flow, traits, story, row, late, run, mishaps>>
      /\ mishaps \in 0 .. MaxMishaps
  BY <1>1, Places, RowFacts DEF Sleep, InTask
<1>3. PICK g \in FnState : g = Succeed(f) /\ Passes(f, g)
  BY <1>2, SucceedFacts
<1>4. FnSound(g)'
  BY <1>2, <1>3, SameGrows, PassSound
<1> QED
  BY <1>2, <1>3, <1>4, SameGrows, RunSame, ResultHolds

\* A SystemError is the result of the task.
LEMMA RefusedHolds ==
  ASSUME IInv, NEW r \in Runner, NEW a \in Attempt, fn[r][a].pc \in {"work", "put"},
         Goes(r, a, Fail(fn[r][a], "system")), StoryMoves, mishaps' \in 0 .. MaxMishaps,
         UNCHANGED <<flow, traits, row, late, run>>
  PROVE  IInv' /\ Grows
<1>1. PICK f \in FnState : f = fn[r][a]
  BY Places
<1>2. TypeOK /\ FnSound(f) /\ InTask(f)
  BY <1>1, Places DEF InTask
<1>3. Grows
  BY StoryHolds
<1>4. PICK g \in FnState : g = Fail(f, "system") /\ FnSound(g)'
  BY <1>2, <1>3, FailSound, KindFacts
<1> QED
  BY <1>1, <1>2, <1>4, RunSame, ResultHolds

LEMMA MishapFacts ==
  ASSUME IInv
  PROVE  /\ Mishap => mishaps' \in 0 .. MaxMishaps
         /\ UNCHANGED mishaps => mishaps' \in 0 .. MaxMishaps
  BY RowFacts, RunnerAssumption DEF Mishap

LEMMA TaskRefusedHolds ==
  ASSUME IInv, NEW r \in Runner, NEW a \in Attempt, TaskRefused(r, a)
  PROVE  IInv' /\ Grows
  BY RefusedHolds, MishapFacts, SameGrows DEF TaskRefused

LEMMA TaskWriteFailsHolds ==
  ASSUME IInv, NEW r \in Runner, NEW a \in Attempt, TaskWriteFails(r, a)
  PROVE  IInv' /\ Grows
  BY RefusedHolds, MishapFacts, SameGrows DEF TaskWriteFails

\* The chapter of a goroutine's task
LEMMA TaskChapterFits ==
  ASSUME IInv, NEW f \in FnState, FnSound(f), InTask(f)
  PROVE  /\ TaskChapter(f.step, f.try, f.kind) \in ChapterSet
         /\ Fits(TaskChapter(f.step, f.try, f.kind))
<1>1. f.step \in DOMAIN flow /\ f.step \in Nat /\ f.try \in Nat /\ f.kind \in JobResult
  BY Shapes, Numbers DEF FnState, IInv
<1>2. Tried(f.step, f.try)
  BY DEF FnSound
<1>3. TaskChapter(f.step, f.try, f.kind) \in ChapterSet
  BY <1>1 DEF TaskChapter, ChapterSet
<1>4. Fits(TaskChapter(f.step, f.try, f.kind))
  BY <1>1, <1>2 DEF TaskChapter, Fits
<1> QED
  BY <1>3, <1>4

LEMMA RecordTaskHolds ==
  ASSUME IInv, NEW r \in Runner, NEW a \in Attempt, RecordTask(r, a)
  PROVE  IInv' /\ Grows
<1>1. PICK f \in FnState : f = fn[r][a]
  BY Places
<1>2. PICK c : c = TaskChapter(f.step, f.try, f.kind)
  OBVIOUS
<1>3. /\ TypeOK /\ FnSound(f) /\ InTask(f) /\ f.at = NextOrdinal /\ Append1(c)
      /\ run' = [run EXCEPT ![r].counter = Past(@, f.at)]
      /\ Goes(r, a, AfterAttempt(f, f.kind, f.try, Retryable(f.kind)))
      /\ UNCHANGED <<flow, traits, row, late, mishaps>>
  BY <1>1, <1>2, Places DEF RecordTask, InTask
<1>4. c \in ChapterSet /\ Fits(c) /\ StoryMoves
  BY <1>2, <1>3, TaskChapterFits DEF StoryMoves
<1>5. /\ NextOrdinal \in 1 .. MaxStory /\ NextOrdinal \in DOMAIN story'
      /\ story'[NextOrdinal] = c
  BY <1>3, <1>4, AppendFacts
<1>6. Grows
  BY <1>3, <1>4, StoryHolds
<1>7. RunMoves
  BY <1>3, <1>5, Places, CounterFacts
<1>8. f.kind \in JobResult /\ f.try \in Nat /\ Retryable(f.kind) \in BOOLEAN
  BY KindFacts, Numbers DEF FnState
<1>9. c.type = "task" /\ c.step = f.step /\ c.attempt = f.try /\ c.kind = f.kind
  BY <1>2 DEF TaskChapter
<1>10. PICK g \in FnState :
         g = AfterAttempt(f, f.kind, f.try, Retryable(f.kind)) /\ FnSound(g)'
  BY <1>3, <1>5, <1>6, <1>8, <1>9, AfterSound
<1> QED
  BY <1>3, <1>4, <1>7, <1>10, ResultHolds, MishapFacts

LEMMA AnswerLostHolds ==
  ASSUME IInv, NEW r \in Runner, NEW a \in Attempt, TaskAnswerLost(r, a)
  PROVE  IInv' /\ Grows
<1>1. FnSound(fn[r][a]) /\ fn[r][a] \in FnState /\ InTask(fn[r][a])
  BY Places DEF InTask, TaskAnswerLost
<1>2. StoryMoves
  BY <1>1, TaskChapterFits DEF StoryMoves, TaskAnswerLost
<1> QED
  BY <1>2, RefusedHolds, MishapFacts DEF TaskAnswerLost

-----------------------------------------------------------------------------
(* DoJob                                                                   *)

\* Steps of DoJob that only move the run
LEMMA RunHolds ==
  ASSUME IInv, NEW r \in Runner, NEW x \in RunState, run' = [run EXCEPT ![r] = x],
         RunSound(x), FnMoves, UNCHANGED <<flow, traits, story, row, late>>,
         mishaps' \in 0 .. MaxMishaps
  PROVE  IInv' /\ Grows
<1>1. TypeOK /\ late \in BOOLEAN
  BY RowFacts DEF IInv
<1> QED
  BY <1>1, RunOne, SameGrows, StepHolds

LEMMA StoppedHolds ==
  ASSUME IInv, NEW r \in Runner, NEW a, run' = [run EXCEPT ![r] = Stopped(r, a)],
         UNCHANGED <<flow, traits, story, row, late, fn, mishaps>>
  PROVE  IInv' /\ Grows
<1>1. TypeOK
  BY DEF IInv
<1> QED
  BY <1>1, StoppedFacts, RunHolds, FnSame, MishapFacts

LEMMA ToRecordFacts ==
  ASSUME IInv, NEW x \in RunState, NEW k \in JobResult,
         k = "ok" => x.pc = "check" /\ x.kind = "ok" /\ RunSound(x)
  PROVE  ToRecord(x, k) \in RunState /\ RunSound(ToRecord(x, k))
<1>1. ToRecord(x, k) = [x EXCEPT !.pc = "record", !.at = x.counter, !.kind = k]
  BY DEF ToRecord
<1>2. ToRecord(x, k) \in RunState
  BY <1>1 DEF RunState
<1>3. ToRecord(x, k).pc = "record" /\ ToRecord(x, k).kind = k
  BY <1>1 DEF RunState
<1> QED
  BY <1>2, <1>3 DEF RunSound

LEMMA PollHolds ==
  ASSUME IInv, NEW r \in Runner, Poll(r)
  PROVE  IInv' /\ Grows
<1>1. TypeOK /\ row \in RowType /\ RowSound(row) /\ late \in BOOLEAN
  BY RowFacts DEF IInv
<1>2. row' = [row EXCEPT !.holder = r]
  BY DEF Poll
<1>3. row' \in RowType
  BY <1>1, <1>2 DEF RowType
<1>4. row'.need = row.need /\ row'.step = row.step /\ row'.status = row.status
  BY <1>1, <1>2 DEF RowType
<1>5. RowSound(row')
  BY <1>1, <1>3, <1>4 DEF RowSound
<1> DEFINE x == [NoRun EXCEPT !.pc = "begin"]
<1>6. x \in RunState /\ x.pc = "begin"
  BY <1>1, NoFacts DEF RunState
<1>7. run' = [run EXCEPT ![r] = x]
  BY DEF Poll
<1> HIDE DEF x
<1>8. RunMoves
  BY <1>1, <1>6, <1>7, RunOne DEF RunSound
<1>9. FnMoves
  BY <1>1, FnReset DEF Poll
<1> QED
  BY <1>1, <1>5, <1>8, <1>9, SameGrows, StepHolds, MishapFacts DEF Poll

LEMMA PrerequisitesHolds ==
  ASSUME IInv, NEW r \in Runner, CheckPrerequisites(r)
  PROVE  IInv' /\ Grows
<1>1. TypeOK /\ run[r] \in RunState
  BY Shapes DEF IInv
<1> DEFINE y == [run[r] EXCEPT !.pc = "top"]
<1>2. y \in RunState /\ y.pc = "top"
  BY <1>1 DEF RunState
<1>3. PICK x \in {ToRecord(run[r], "prereq"), y} : run' = [run EXCEPT ![r] = x]
  BY DEF CheckPrerequisites
<1> HIDE DEF y
<1>4. x \in RunState /\ RunSound(x)
  BY <1>1, <1>2, <1>3, ToRecordFacts, KindFacts DEF RunSound
<1> QED
  BY <1>1, <1>3, <1>4, RunHolds, FnSame, MishapFacts DEF CheckPrerequisites

LEMMA TooLateHolds ==
  ASSUME IInv, NEW r \in Runner, TooLate(r)
  PROVE  IInv' /\ Grows
<1>1. TypeOK /\ run[r] \in RunState
  BY Shapes DEF IInv
<1>2. PICK x \in RunState : x = ToRecord(run[r], "total") /\ RunSound(x)
  BY <1>1, ToRecordFacts, KindFacts
<1>3. run' = [run EXCEPT ![r] = x]
  BY <1>2 DEF TooLate
<1> QED
  BY <1>1, <1>2, <1>3, RunHolds, FnSame, MishapFacts DEF TooLate

LEMMA WaitedHolds ==
  ASSUME IInv, NEW r \in Runner, WaitedTooLong(r)
  PROVE  IInv' /\ Grows
  BY StoppedHolds DEF WaitedTooLong

LEMMA OutcomeRefusedHolds ==
  ASSUME IInv, NEW r \in Runner, OutcomeRefused(r)
  PROVE  IInv' /\ Grows
  BY StoppedHolds DEF OutcomeRefused

LEMMA ReplayOutcomeHolds ==
  ASSUME IInv, NEW r \in Runner, ReplayOutcome(r)
  PROVE  IInv' /\ Grows
<1>1. PICK x \in RunState : x = run[r]
  BY Shapes DEF IInv
<1>2. PICK c : c = story[x.counter]
  OBVIOUS
<1> DEFINE ok == ~late /\ c.kind = "ok"
           retry == ~late /\ StoredRetryable(c.kind) /\ c.attempt < JobAttempts
           y == [x EXCEPT !.pc = "top", !.counter = @ + 1, !.attempt = c.attempt + 1,
                          !.kind = "ok"]
           z == [x EXCEPT !.pc = "archive", !.kind = "ok"]
<1>3. /\ TypeOK /\ x.counter \in DOMAIN story /\ c.type = "job"
      /\ run' = [run EXCEPT ![r] = CASE ok -> z [] retry -> y [] OTHER -> Stopped(r, 0)]
      /\ UNCHANGED <<flow, traits, story, row, late, fn, mishaps>>
  BY <1>1, <1>2 DEF ReplayOutcome, Present, IInv
<1>4. c \in ChapterSet /\ c.attempt \in Attempt /\ c.kind \in JobResult
  BY <1>2, <1>3, Shapes DEF IInv, ChapterSet
<1>5. CASE ~ok /\ ~retry
  BY <1>3, <1>5, StoppedHolds
<1>6. CASE retry /\ ~ok
  <2>1. x.counter \in 1 .. MaxStory
    <3>1. x.counter \in 1 .. Len(story) /\ Len(story) \in Nat /\ MaxStory \in Nat
      BY <1>3, Shapes, Numbers
    <3> QED
      BY <3>1 DEF IInv
  <2>2. x.counter + 1 \in Ordinal /\ c.attempt + 1 \in Attempt /\ "ok" \in JobResult
    BY <1>4, <1>6, <2>1, Numbers, KindFacts DEF Attempt
  <2>3. y \in RunState /\ y.pc = "top"
    BY <2>2 DEF RunState
  <2>4. run' = [run EXCEPT ![r] = y]
    BY <1>3, <1>6
  <2> HIDE DEF y
  <2>5. RunSound(y)
    BY <2>3 DEF RunSound
  <2> QED
    BY <1>3, <2>3, <2>4, <2>5, RunHolds, FnSame, MishapFacts
<1>7. CASE ok
  <2>1. z \in RunState /\ z.pc = "archive" /\ z.kind = "ok"
    BY KindFacts DEF RunState
  <2>2. ~retry
    BY <1>7 DEF StoredRetryable, StoredKind, Retryable
  <2>3. run' = [run EXCEPT ![r] = z]
    BY <1>3, <1>7, <2>2
  <2> HIDE DEF z
  <2>4. Final(c)
    BY <1>3, <1>7 DEF Final, Retryable
  <2>5. Ended(z.kind = "ok")
    BY <1>2, <1>3, <1>7, <2>1, <2>4 DEF Ended
  <2>6. RunSound(z)
    BY <2>1, <2>5 DEF RunSound
  <2> QED
    BY <1>3, <2>1, <2>3, <2>6, RunHolds, FnSame, MishapFacts
<1> QED
  BY <1>5, <1>6, <1>7

LEMMA StartHolds ==
  ASSUME IInv, NEW r \in Runner, StartAttempt(r)
  PROVE  IInv' /\ Grows
<1>1. PICK x \in RunState : x = run[r]
  BY Shapes DEF IInv
<1> DEFINE y == [x EXCEPT !.pc = "wait"]
           f == [NoFn EXCEPT !.pc = "call"]
<1>2. /\ TypeOK /\ run \in [Runner -> RunState]
      /\ fn' = [fn EXCEPT ![r][x.attempt] = f]
      /\ UNCHANGED <<flow, traits, story, row, late, mishaps>>
  BY <1>1, Shapes DEF StartAttempt, IInv
<1>3. run' = [run EXCEPT ![r] = y]
  BY <1>1, <1>2 DEF StartAttempt
<1>4. y \in RunState /\ y.pc = "wait"
  BY DEF RunState
<1>5. f \in FnState /\ f.pc = "call" /\ f.step = 1 /\ f.try = 1
  <2>1. NoFn \in FnState
    BY <1>2, NoFacts
  <2>2. f.step = NoFn.step /\ f.try = NoFn.try
    BY <2>1 DEF FnState
  <2> QED
    BY <2>1, <2>2 DEF FnState, NoFn
<1> HIDE DEF y, f
<1>6. FnSound(f)
  BY <1>5 DEF FnSound, Tried, Earned, InTask
<1>7. FnMoves
  BY <1>2, <1>5, <1>6, FnOne DEF RunState
<1> QED
  BY <1>2, <1>3, <1>4, <1>7, RunHolds, MishapFacts DEF RunSound

LEMMA ReturnsHolds ==
  ASSUME IInv, NEW r \in Runner, AttemptReturns(r)
  PROVE  IInv' /\ Grows
<1>1. PICK x \in RunState : x = run[r]
  BY Shapes DEF IInv
<1>2. x.attempt \in Attempt
  BY DEF RunState
<1>3. PICK f \in FnState : f = fn[r][x.attempt]
  BY <1>2, Places
<1>4. PICK k : k = IF f.kind = "ok" /\ late THEN "total" ELSE f.kind
  OBVIOUS
<1> DEFINE y == [x EXCEPT !.pc = "check", !.kind = k]
<1>5. /\ TypeOK /\ run \in [Runner -> RunState] /\ f.pc = "done"
      /\ fn' = [fn EXCEPT ![r][x.attempt] = NoFn]
      /\ UNCHANGED <<flow, traits, story, row, late, mishaps>>
      /\ run' = [run EXCEPT ![r].pc = "check", ![r].kind = k]
  BY <1>1, <1>3, <1>4, Shapes DEF AttemptReturns, IInv
<1>6. run' = [run EXCEPT ![r] = y]
  BY <1>1, <1>5
<1>7. k \in JobResult /\ (k = "ok" => f.kind = "ok")
  BY <1>4, KindFacts DEF FnState
<1>8. y \in RunState /\ y.pc = "check" /\ y.kind = k
  BY <1>7 DEF RunState
<1> HIDE DEF y
<1>9. FnSound(f)
  BY <1>2, <1>3, Places
<1>10. RunSound(y)
  BY <1>5, <1>7, <1>8, <1>9 DEF RunSound, FnSound
<1>11. FnMoves
  BY <1>2, <1>5, NoFacts, FnOne
<1> QED
  BY <1>5, <1>6, <1>8, <1>10, <1>11, RunHolds, MishapFacts

LEMMA TimesOutHolds ==
  ASSUME IInv, NEW r \in Runner, NEW k \in {"timeout", "total"}, AttemptTimesOut(r, k)
  PROVE  IInv' /\ Grows
<1>1. PICK x \in RunState : x = run[r]
  BY Shapes DEF IInv
<1> DEFINE y == [x EXCEPT !.pc = "check", !.kind = k]
<1>2. /\ TypeOK /\ run \in [Runner -> RunState] /\ fn \in [Runner -> [Attempt -> FnState]]
      /\ UNCHANGED <<flow, traits, story, row, late>>
      /\ run' = [run EXCEPT ![r].pc = "check", ![r].kind = k]
      /\ mishaps' \in 0 .. MaxMishaps
  BY Shapes, MishapFacts DEF AttemptTimesOut, IInv
<1>3. run' = [run EXCEPT ![r] = y]
  BY <1>1, <1>2
<1>4. y \in RunState /\ y.pc = "check" /\ y.kind = k
  BY KindFacts DEF RunState
<1> HIDE DEF y
<1>5. FnMoves
  <2> DEFINE row2 == [a \in Attempt |-> IF fn[r][a].pc = "done" THEN NoFn ELSE fn[r][a]]
  <2>1. fn' = [fn EXCEPT ![r] = row2]
    BY DEF AttemptTimesOut
  <2>2. NoFn \in FnState /\ FnSound(NoFn)
    BY <1>2, NoFacts
  <2>3. row2 \in [Attempt -> FnState]
    BY <1>2, <2>2
  <2>4. \A a \in Attempt : row2[a] \in {NoFn, fn[r][a]}
    OBVIOUS
  <2> HIDE DEF row2
  <2>5. fn' \in [Runner -> [Attempt -> FnState]]
    BY <1>2, <2>1, <2>3
  <2>6. \A q \in Runner, a \in Attempt : fn'[q][a] \in {NoFn, fn[q][a]}
    BY <1>2, <2>1, <2>4
  <2> QED
    BY <2>2, <2>5, <2>6 DEF FnMoves
<1> QED
  BY <1>2, <1>3, <1>4, <1>5, RunHolds DEF RunSound

LEMMA CheckHolds ==
  ASSUME IInv, NEW r \in Runner, CheckOutcome(r)
  PROVE  IInv' /\ Grows
<1>1. PICK x \in RunState : x = run[r] /\ RunSound(x)
  BY Shapes DEF IInv
<1>2. /\ x.pc = "check" /\ x.kind \in JobResult /\ TypeOK
      /\ UNCHANGED <<flow, traits, story, row, late, fn, mishaps>>
      /\ run' = [run EXCEPT ![r] =
                   IF Present(x.counter) THEN Stopped(r, 0) ELSE ToRecord(x, x.kind)]
  BY <1>1 DEF CheckOutcome, RunState, IInv
<1>3. PICK y : y = ToRecord(x, x.kind)
  OBVIOUS
<1>4. y \in RunState /\ RunSound(y)
  BY <1>1, <1>2, <1>3, ToRecordFacts
<1>5. CASE Present(x.counter)
  BY <1>2, <1>5, StoppedHolds
<1>6. CASE ~Present(x.counter)
  BY <1>2, <1>3, <1>4, <1>6, RunHolds, FnSame, MishapFacts
<1> QED
  BY <1>5, <1>6

LEMMA PutOutcomeHolds ==
  ASSUME IInv, NEW r \in Runner, PutOutcome(r)
  PROVE  IInv' /\ Grows
<1>1. PICK x \in RunState : x = run[r] /\ RunSound(x)
  BY Shapes DEF IInv
<1> DEFINE y == [x EXCEPT !.pc = "put"]
<1>2. /\ TypeOK /\ run \in [Runner -> RunState] /\ x.pc = "record"
      /\ UNCHANGED <<flow, traits, story, row, late, fn, mishaps>>
      /\ run' = [run EXCEPT ![r].pc = "put"]
  BY <1>1, Shapes DEF PutOutcome, IInv
<1>3. run' = [run EXCEPT ![r] = y]
  BY <1>1, <1>2
<1>4. y \in RunState /\ y.pc = "put" /\ y.kind = x.kind
  BY DEF RunState
<1> HIDE DEF y
<1>5. RunSound(y)
  BY <1>1, <1>2, <1>4 DEF RunSound
<1> QED
  BY <1>2, <1>3, <1>4, <1>5, RunHolds, FnSame, MishapFacts

LEMMA RecordOutcomeHolds ==
  ASSUME IInv, NEW r \in Runner, RecordOutcome(r)
  PROVE  IInv' /\ Grows
<1>1. PICK x \in RunState : x = run[r] /\ RunSound(x)
  BY Shapes DEF IInv
<1>2. PICK c : c = JobChapter(x.attempt, x.kind)
  OBVIOUS
<1> DEFINE y == [x EXCEPT !.pc = "archive", !.at = 0]
           z == [x EXCEPT !.pc = "top", !.counter = Past(@, x.at), !.attempt = @ + 1,
                          !.at = 0, !.kind = "ok"]
<1>3. /\ TypeOK /\ late \in BOOLEAN /\ x.pc = "put" /\ x.at = NextOrdinal /\ Append1(c)
      /\ UNCHANGED <<flow, traits, row, late, fn, mishaps>>
      /\ run' = [run EXCEPT ![r] = IF EndsJob(x) THEN y ELSE z]
  BY <1>1, <1>2, RowFacts DEF RecordOutcome, IInv
<1>4. /\ c.type = "job" /\ c.attempt = x.attempt /\ c.kind = x.kind
      /\ x.attempt \in Attempt /\ x.attempt \in Nat /\ x.kind \in JobResult
      /\ x.counter \in Ordinal
  BY <1>2 DEF JobChapter, RunState, Attempt
<1>5. c \in ChapterSet /\ Fits(c)
  <2>1. c \in ChapterSet
    BY <1>2, <1>4 DEF JobChapter, ChapterSet
  <2>2. c.kind = "ok" => Earned(Len(flow) + 1)
    BY <1>1, <1>3, <1>4 DEF RunSound
  <2> QED
    BY <1>4, <2>1, <2>2 DEF Fits
<1>6. StoryMoves
  BY <1>3, <1>5 DEF StoryMoves
<1>7. /\ NextOrdinal \in 1 .. MaxStory /\ NextOrdinal \in DOMAIN story'
      /\ story'[NextOrdinal] = c
  BY <1>3, <1>5, AppendFacts
<1>8. RunMoves
  <2>1. CASE EndsJob(x)
    <3>1. y \in RunState /\ y.pc = "archive" /\ y.kind = x.kind
      BY Numbers DEF RunState
    <3>2. run' = [run EXCEPT ![r] = y]
      BY <1>3, <2>1
    <3> HIDE DEF y
    <3>3. Final(c)
      BY <1>4, <2>1, Numbers DEF Final, EndsJob, Attempt
    <3>4. PICK b \in BOOLEAN : b = (y.kind = "ok")
      OBVIOUS
    <3>5. Ended(b)'
      BY <1>4, <1>7, <3>1, <3>3, <3>4 DEF Ended, Final
    <3>6. RunSound(y)'
      BY <3>1, <3>4, <3>5 DEF RunSound, Ended
    <3> QED
      BY <1>3, <3>1, <3>2, <3>6, RunOne
  <2>2. CASE ~EndsJob(x)
    <3>1. x.attempt + 1 \in Attempt
      BY <1>4, <2>2, Numbers DEF EndsJob, Attempt
    <3>2. Past(x.counter, x.at) \in Ordinal
      BY <1>3, <1>4, <1>7, Numbers DEF Past
    <3>3. z \in RunState /\ z.pc = "top"
      BY <3>1, <3>2, Numbers, KindFacts DEF RunState
    <3>4. run' = [run EXCEPT ![r] = z]
      BY <1>3, <2>2
    <3> HIDE DEF z
    <3> QED
      BY <1>3, <3>3, <3>4, RunOne DEF RunSound
  <2> QED
    BY <2>1, <2>2
<1> QED
  BY <1>3, <1>6, <1>8, FnSame, MishapFacts, StepHolds

LEMMA ArchiveHolds ==
  ASSUME IInv, NEW r \in Runner, Archive(r)
  PROVE  IInv' /\ Grows
<1>1. PICK x \in RunState : x = run[r] /\ RunSound(x)
  BY Shapes DEF IInv
<1>2. /\ TypeOK /\ late \in BOOLEAN /\ row \in RowType /\ RowSound(row) /\ x.pc = "archive"
  BY <1>1, RowFacts DEF Archive, IInv
<1>3. PICK s \in {"success", "failed"} : s = IF x.kind = "ok" THEN "success" ELSE "failed"
  OBVIOUS
<1> DEFINE w == [row EXCEPT !.holder = NoRunner, !.status = s]
<1>4. row' = IF Leased(r) THEN w ELSE row
  BY <1>1, <1>3 DEF Archive
<1>5. w \in RowType /\ w.need = row.need /\ w.step = row.step /\ w.status = s
  BY <1>2 DEF RowType
<1> HIDE DEF w
<1>6. Ended(w.status = "success")
  <2>1. (w.status = "success") = (x.kind = "ok")
    BY <1>3, <1>5
  <2>2. Ended(x.kind = "ok")
    BY <1>1, <1>2 DEF RunSound
  <2> QED
    BY <2>1, <2>2 DEF Ended
<1>7. RowSound(w)
  BY <1>2, <1>5, <1>6 DEF RowSound
<1> QED
  BY <1>2, <1>4, <1>7, StopHolds, FnSame, SameGrows, StepHolds, MishapFacts DEF Archive

-----------------------------------------------------------------------------
(* The surroundings                                                        *)

LEMMA CrashHolds ==
  ASSUME IInv, NEW r \in Runner, Crash(r)
  PROVE  IInv' /\ Grows
  BY NoFacts, FnReset, RunHolds, MishapFacts DEF Crash, IInv

\* Steps that only touch the row and the deadline
LEMMA RowHolds ==
  ASSUME IInv, RowSound(row'), late' \in BOOLEAN, mishaps' \in 0 .. MaxMishaps, StoryMoves,
         UNCHANGED <<flow, traits, run, fn>>
  PROVE  IInv' /\ Grows
<1>1. TypeOK
  BY DEF IInv
<1> QED
  BY <1>1, FnSame, RunSame, StepHolds

LEMMA ExpireHolds ==
  ASSUME IInv, NEW r \in Runner, Expire(r)
  PROVE  IInv' /\ Grows
  BY RowFacts, RowGoes, RowHolds, MishapFacts, SameGrows DEF Expire

LEMMA NeedsJob ==
  ASSUME IInv, row' = [row EXCEPT !.need = "job", !.slot = 0, !.step = 0]
  PROVE  RowSound(row')
<1>1. row \in RowType /\ RowSound(row)
  BY RowFacts
<1>2. row' \in RowType /\ row'.need = "job" /\ row'.status = row.status
  BY <1>1, Numbers DEF RowType
<1> QED
  BY <1>1, <1>2 DEF RowSound

LEMMA AlternateHolds ==
  ASSUME IInv, AlternateNeed
  PROVE  IInv' /\ Grows
  BY RowFacts, NeedsJob, RowHolds, MishapFacts, SameGrows DEF AlternateNeed

LEMMA DeadlineHolds ==
  ASSUME IInv, DeadlinePasses
  PROVE  IInv' /\ Grows
<1>1. RowSound(row')
  BY RowFacts DEF DeadlinePasses
<1> QED
  BY <1>1, RowHolds, MishapFacts, SameGrows DEF DeadlinePasses

LEMMA FinishHolds ==
  ASSUME IInv, FinishTask
  PROVE  IInv' /\ Grows
<1> DEFINE n == IF story = <<>> THEN 1 ELSE story[Len(story)].attempt
           c == TaskChapter(row.step, n, "ok")
<1>1. row.step \in DOMAIN flow /\ flow[row.step] = "external" /\ TypeOK /\ row \in RowType
  BY RowFacts DEF FinishTask, IInv
<1>2. n \in Nat
  <2>1. CASE story = <<>>
    BY <2>1
  <2>2. CASE story # <<>>
    <3>1. Len(story) \in DOMAIN story
      BY <1>1, <2>2, Shapes, EmptySeq
    <3>2. story[Len(story)] \in ChapterSet
      BY <1>1, <3>1, Shapes
    <3> QED
      BY <2>2, <3>2 DEF ChapterSet
  <2> QED
    BY <2>1, <2>2
<1> HIDE DEF n
<1>3. c \in ChapterSet /\ c.type = "task" /\ c.step = row.step
  BY <1>1, <1>2, KindFacts DEF TaskChapter, ChapterSet, RowType
<1>4. Append1(c)
  BY DEF FinishTask, n
<1> HIDE DEF c
<1>5. StoryMoves
  BY <1>1, <1>3, <1>4 DEF StoryMoves, Fits, Tried
<1> QED
  BY <1>5, RowFacts, NeedsJob, RowHolds, MishapFacts DEF FinishTask

-----------------------------------------------------------------------------
(* The theorems                                                            *)

LEMMA InitHolds ==
  ASSUME Init
  PROVE  IInv
<1>1. PICK c \in Cases : flow = c.flow /\ traits = c.traits
  BY DEF Init
<1>2. [flow |-> flow, traits |-> traits] \in Cases
  <2>1. c \in [flow : Seq(StepKind) \ {<<>>}, traits : SUBSET Trait]
    BY RunnerAssumption
  <2>2. c = [flow |-> c.flow, traits |-> c.traits]
    BY <2>1
  <2> QED
    BY <1>1, <2>2
<1>3. /\ story = <<>> /\ late = FALSE /\ mishaps = 0
      /\ row = [need |-> "job", slot |-> 0, step |-> 0, holder |-> NoRunner, status |-> "open"]
      /\ run = [r \in Runner |-> NoRun]
      /\ fn = [r \in Runner |-> [a \in Attempt |-> NoFn]]
  BY DEF Init
<1>4. 1 \in DOMAIN flow
  <2>1. flow \in Seq(StepKind) /\ flow # <<>>
    <3>1. c \in [flow : Seq(StepKind) \ {<<>>}, traits : SUBSET Trait]
      BY RunnerAssumption
    <3> QED
      BY <1>1, <3>1
  <2> QED
    BY <2>1, LenProperties, EmptySeq
<1>5. NoFn \in FnState /\ NoRun \in RunState
  BY <1>4, Numbers, KindFacts DEF NoFn, NoRun, FnState, RunState
<1>6. fn \in [Runner -> [Attempt -> FnState]] /\ run \in [Runner -> RunState]
  BY <1>3, <1>5
<1>7. row \in RowType /\ mishaps \in 0 .. MaxMishaps /\ story \in Seq(ChapterSet)
        /\ late \in BOOLEAN
  <2>1. row \in RowType
    BY <1>3, Numbers DEF RowType
  <2>2. mishaps \in 0 .. MaxMishaps
    BY <1>3, RunnerAssumption
  <2>4. late \in BOOLEAN
    BY <1>3
  <2>3. story \in Seq(ChapterSet)
    BY <1>3, EmptySeq
  <2> QED
    BY <2>1, <2>2, <2>3, <2>4
<1>8. TypeOK
  BY <1>2, <1>6, <1>7 DEF TypeOK, FnState, RunState, RowType
<1>9. Len(story) = 0 /\ DOMAIN story = {}
  BY <1>3
<1>10. AttemptsFollow /\ SuccessIsEarned /\ EndHasFinal
  BY <1>3, <1>9 DEF AttemptsFollow, SuccessIsEarned, EndHasFinal
<1>11. \A r \in Runner, a \in Attempt, f \in FnState : fn[r][a] = f => FnSound(f)
  BY <1>3, <1>8, NoFacts
<1>12. \A r \in Runner, x \in RunState : run[r] = x => RunSound(x)
  BY <1>3, <1>8, NoFacts
<1>13. Len(story) <= MaxStory
  BY <1>9, Numbers
<1>14. row.need = "task" => row.step \in DOMAIN flow /\ flow[row.step] = "external"
  BY <1>3
<1> QED
  BY <1>8, <1>9, <1>10, <1>11, <1>12, <1>13, <1>14 DEF IInv

LEMMA TaskStepHolds ==
  ASSUME IInv, NEW r \in Runner, NEW a \in Attempt, TaskStep(r, a)
  PROVE  IInv' /\ Grows
  BY CallHolds, ReplayHolds, AwaitHolds, ExecuteHolds, RecordTaskHolds, TaskRefusedHolds,
     SleepHolds, RecycleHolds, PutTaskHolds DEF TaskStep

LEMMA JobStepHolds ==
  ASSUME IInv, NEW r \in Runner, JobStep(r)
  PROVE  IInv' /\ Grows
  BY PrerequisitesHolds, TooLateHolds, WaitedHolds, ReplayOutcomeHolds, StartHolds,
     ReturnsHolds, CheckHolds, PutOutcomeHolds, RecordOutcomeHolds, OutcomeRefusedHolds,
     ArchiveHolds, TimesOutHolds DEF JobStep

LEMMA StepKeeps ==
  ASSUME IInv, [Next]_vars
  PROVE  IInv' /\ Grows
<1>1. CASE Next
  BY <1>1, TaskStepHolds, TaskWriteFailsHolds, AnswerLostHolds, PollHolds, JobStepHolds,
     CrashHolds, ExpireHolds, FinishHolds, AlternateHolds, DeadlineHolds DEF Next
<1>2. CASE UNCHANGED vars
  <2>1. RowSound(row')
    BY <1>2, RowFacts DEF vars
  <2> QED
    BY <1>2, <2>1, RowHolds, RowFacts, SameGrows DEF vars
<1> QED
  BY <1>1, <1>2

\* The invariant above holds in every state of every application, under every
\* circumstance, with any number of workers.
THEOREM Inductive == Spec => []IInv
<1>1. Init => IInv
  BY InitHolds
<1>2. IInv /\ [Next]_vars => IInv'
  BY StepKeeps
<1> QED
  BY <1>1, <1>2, PTL DEF Spec

\* The variables keep their types: DoJob, DoTask and the row hold what the code
\* puts into them.
THEOREM TypeCorrect == Spec => []TypeOK
<1>1. IInv => TypeOK
  BY DEF IInv
<1> QED
  BY <1>1, Inductive, PTL

\* Behind every numbered attempt of a task stands the failed attempt before it
\* (DoTask takes the number over from the chapter it replays).
THEOREM AttemptsChain == Spec => []AttemptsFollow
<1>1. IInv => AttemptsFollow
  BY DEF IInv
<1> QED
  BY <1>1, Inductive, PTL

\* A job only succeeds when each of its steps that is not lenient has a stored
\* success, whatever crashes, timeouts and lost answers it saw.
THEOREM SuccessEarned == Spec => []SuccessIsEarned
<1>1. IInv => SuccessIsEarned
  BY DEF IInv
<1> QED
  BY <1>1, Inductive, PTL

\* A job that ended has a final chapter that says how (completeJobOutcome writes the
\* chapter before the row).
THEOREM FinalIsThere == Spec => []EndHasFinal
<1>1. IInv => EndHasFinal
  BY DEF IInv
<1> QED
  BY <1>1, Inductive, PTL

\* The story only grows, and the application is fixed: PutChapter never replaces a
\* chapter.
THEOREM StoryGrows == Spec => [][Grows]_vars
<1>1. IInv /\ [Next]_vars => Grows
  BY StepKeeps
<1> QED
  BY <1>1, Inductive, PTL DEF Spec
=============================================================================
