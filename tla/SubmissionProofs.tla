-------------------------- MODULE SubmissionProofs --------------------------
(***************************************************************************)
(* Proofs about Submission, for any number of requests in flight, inputs,  *)
(* metadata and times, any source job and any length of the job.  They     *)
(* rest on what a request has seen or made by the time it comes to the row *)
(* (CallSound), which no later step can undo, since the story only grows.  *)
(***************************************************************************)
EXTENDS Submission, TLAPS

-----------------------------------------------------------------------------
(* The inductive invariant                                                 *)

\* What the position of a request says of the story.
CallSound(r) ==
  /\ r.pc # "idle" => made /\ r.req \in Request
  /\ r.repeat => r.req \in acked
  /\ r.pc = "append" => r.req.body # NoBody /\ r.ord = 0
  /\ r.pc = "append" /\ r.req.kind = "restart" => Kept(r.req)
  /\ r.pc = "load" => r.req.kind = "submit"
  /\ r.pc = "prefix" => r.req.kind = "restart" /\ r.ord <= r.req.keep + 1
                          /\ Len(story) >= r.ord
                          /\ \A i \in 1 .. r.ord : i <= r.req.keep + 1 =>
                               story[i] = Prefix(r.req.keep)[i]
  /\ r.pc \in {"insert", "compare"} => Described(r.req)
  /\ r.pc = "compare" => row.exists

Unmade == ~made => story = <<>> /\ ~row.exists /\ acked = {}

\* A job that workers can see has its start chapter, whichever of the requests
\* that meet on the identifier inserted the row, and after any crash.
RowHasStart == row.exists => Len(story) > 0 /\ story[1].kind = "start"

IInv ==
  /\ TypeOK
  /\ Unmade
  /\ \A c \in Call : CallSound(call[c])
  /\ RowHasStart
  /\ AckedIsDurable
  /\ ExtraFollowsPrefix
  /\ RepeatConverges

\* The story and the set of acknowledged requests only grow, and the metadata
\* of the row stays.
Grows ==
  /\ made => made'
  /\ Len(story) <= Len(story')
  /\ \A i \in 1 .. Len(story) : story'[i] = story[i]
  /\ row.exists => row'.exists /\ row'.meta = row.meta
  /\ acked \subseteq acked'

-----------------------------------------------------------------------------
(* Facts about requests and chapters                                       *)

LEMMA RequestType ==
  ASSUME NEW q \in Request
  PROVE  /\ q.kind \in {"submit", "restart"}
         /\ q.keep \in 0 .. SourceLast - 1
         /\ q.body \in Body \cup {NoBody}
         /\ q.meta \in Meta \cup {NoMeta}
         /\ q.avail \in Time \cup {NoTime}
         /\ q.kind = "submit" => q.body \in Body /\ q.keep = 0
         /\ q.kind = "restart" => q.meta = NoMeta /\ q.avail = NoTime
BY SubmissionAssumption
   DEF SubmissionAssumption, Request, SubmitRequest, RestartRequest

LEMMA PrefixShape ==
  ASSUME NEW n \in 0 .. SourceLast - 1
  PROVE  /\ Prefix(n) \in Seq(Chapter)
         /\ Len(Prefix(n)) = n + 1
         /\ \A i \in 1 .. n + 1 : /\ Prefix(n)[i].by = "source"
                                  /\ Prefix(n)[i].kind # "extra"
         /\ Prefix(n)[1].kind = "start"
<1> USE SubmissionAssumption DEF SubmissionAssumption
<1>1. \A i \in 1 .. n + 1 : Prefix(n)[i] \in Chapter
  BY DEF Prefix, StartChapter, WorkChapter, Chapter
<1>2. \A i \in 1 .. n + 1 : /\ Prefix(n)[i].by = "source"
                            /\ Prefix(n)[i].kind # "extra"
  BY DEF Prefix, StartChapter, WorkChapter
<1>3. Prefix(n) \in [1 .. n + 1 -> Chapter] /\ n + 1 \in Nat
  BY <1>1 DEF Prefix
<1>4. Prefix(n) \in Seq(Chapter) /\ Len(Prefix(n)) = n + 1
  BY <1>3
<1>5. Prefix(n)[1].kind = "start"
  BY DEF Prefix, StartChapter
<1>6. QED
  BY <1>2, <1>4, <1>5

LEMMA OwnChapterShape ==
  ASSUME NEW q \in Request
  PROVE  /\ OwnChapter(q) \in Chapter
         /\ OwnOrdinal(q) \in Nat
<1> USE SubmissionAssumption DEF SubmissionAssumption
<1>1. CASE q.kind = "submit"
  BY <1>1, RequestType DEF OwnChapter, OwnOrdinal, StartChapter, Chapter
<1>2. CASE q.kind # "submit"
  BY <1>2, RequestType DEF OwnChapter, OwnOrdinal, ExtraChapter, Chapter
<1>3. QED
  BY <1>1, <1>2

\* What a request describes stays described while the story grows.
LEMMA DescribedStable ==
  ASSUME TypeOK, TypeOK', Grows, NEW q \in Request
  PROVE  /\ Kept(q) => Kept(q)'
         /\ Described(q) => Described(q)'
<1> USE RequestType
<1>1. Len(story) \in Nat /\ Len(story') \in Nat
  BY DEF TypeOK
<1>2. Kept(q) => Kept(q)'
  BY <1>1 DEF Kept, Grows
<1>3. Described(q) => Described(q)'
  BY <1>1, <1>2 DEF Described, Grows
<1>4. QED
  BY <1>2, <1>3

\* A request that is not moved stays sound while the story grows.
LEMMA SoundStable ==
  ASSUME TypeOK, TypeOK', Grows, NEW r \in CallState, CallSound(r)
  PROVE  CallSound(r)'
<1> USE RequestType
<1>1. Len(story) \in Nat /\ Len(story') \in Nat /\ r.ord \in Nat
  BY SubmissionAssumption DEF TypeOK, CallState, SubmissionAssumption
<1>2. CASE r.pc = "idle"
  BY <1>2 DEF CallSound, Grows
<1>3. CASE r.pc # "idle"
  <2>1. r.req \in Request /\ r.req.keep \in Int
    BY <1>3, SubmissionAssumption DEF CallSound, SubmissionAssumption
  <2>2. r.pc = "prefix" =>
          /\ Len(story') >= r.ord
          /\ \A i \in 1 .. r.ord : i <= r.req.keep + 1 =>
               story'[i] = Prefix(r.req.keep)[i]
    BY <1>1, <2>1 DEF CallSound, Grows
  <2>3. QED
    BY <2>1, <2>2, DescribedStable DEF CallSound, Grows
<1>4. QED
  BY <1>2, <1>3

-----------------------------------------------------------------------------
(* Initial states                                                          *)

LEMMA IdleType == Idle \in CallState
BY SubmissionAssumption
   DEF Idle, CallState, PC, SubmissionAssumption

LEMMA InitIInv == Init => IInv
<1> SUFFICES ASSUME Init PROVE IInv
  OBVIOUS
<1>1. TypeOK
  <2>1. call \in [Call -> CallState]
    BY IdleType DEF Init
  <2>2. story \in Seq(Chapter)
    BY DEF Init
  <2>3. row \in JobRow
    BY DEF Init, NoRow, JobRow
  <2>4. QED
    BY <2>1, <2>2, <2>3 DEF Init, TypeOK
<1>2. \A c \in Call : CallSound(call[c])
  BY DEF Init, Idle, CallSound
<1>3. Unmade /\ RowHasStart /\ AckedIsDurable /\ ExtraFollowsPrefix
  BY DEF Init, NoRow, Unmade, RowHasStart, AckedIsDurable, ExtraFollowsPrefix
<1>4. RepeatConverges
  BY DEF Init, Idle, RepeatConverges
<1>5. QED
  BY <1>1, <1>2, <1>3, <1>4 DEF IInv

-----------------------------------------------------------------------------
(* What carries over a step                                                *)

\* Requests that RepeatConverges does not speak of.
Excused(r) ==
  \/ ~r.repeat
  \/ r.req.avail # NoTime
  \/ r.req.kind = "restart" /\ r.req.body = NoBody

LEMMA CarryCalls ==
  ASSUME IInv, TypeOK', Grows, NEW c \in Call, NEW r \in CallState,
         call' = [call EXCEPT ![c] = r], CallSound(r)',
         r.pc = "mismatch" => Excused(r)
  PROVE  (\A d \in Call : CallSound(call[d]))' /\ RepeatConverges'
<1>1. call \in [Call -> CallState] /\ TypeOK
  BY DEF IInv, TypeOK
<1>2. call'[c] = r /\ \A d \in Call \ {c} : call'[d] = call[d]
  BY <1>1
<1>3. ASSUME NEW d \in Call
      PROVE  /\ CallSound(call[d])'
             /\ call'[d].pc = "mismatch" => Excused(call'[d])
  <2>1. CASE d = c
    <3>1. call'[d] = r
      BY <1>2, <2>1
    <3>2. QED
      BY <3>1 DEF CallSound, Described, Kept
  <2>2. CASE d # c
    <3>1. call'[d] = call[d] /\ call[d] \in CallState /\ CallSound(call[d])
      BY <1>1, <1>2, <2>2 DEF IInv
    <3>2. PICK e \in CallState : e = call[d]
      BY <3>1
    <3>3. CallSound(e)
      BY <3>1, <3>2
    <3>4. CallSound(e)'
      BY <1>1, <3>3, SoundStable
    <3>5. CallSound(call[d])'
      BY <3>1, <3>2, <3>4 DEF CallSound, Described, Kept
    <3>6. call[d].pc = "mismatch" => Excused(call[d])
      BY DEF IInv, RepeatConverges, Excused
    <3>7. QED
      BY <3>1, <3>5, <3>6 DEF Excused
  <2>3. QED
    BY <2>1, <2>2
<1>4. RepeatConverges'
  BY <1>3 DEF RepeatConverges, Excused
<1>5. (\A d \in Call : CallSound(call[d]))'
  BY <1>3
<1>6. QED
  BY <1>4, <1>5

LEMMA CarryRow ==
  ASSUME IInv, TypeOK', Grows, row'.exists => row.exists, acked' = acked
  PROVE  RowHasStart' /\ AckedIsDurable'
<1>1. TypeOK /\ Len(story) \in Nat /\ Len(story') \in Nat
  BY DEF IInv, TypeOK
<1>2. RowHasStart'
  BY <1>1 DEF IInv, RowHasStart, Grows
<1>3. ASSUME NEW q \in acked
      PROVE  row'.exists /\ row'.meta = q.meta /\ Described(q)'
  <2>1. row.exists /\ row.meta = q.meta /\ Described(q) /\ q \in Request
    BY DEF IInv, AckedIsDurable, TypeOK
  <2>2. QED
    BY <1>1, <2>1, DescribedStable DEF Grows
<1>4. QED
  BY <1>2, <1>3 DEF AckedIsDurable

\* A step that only moves one request.
LEMMA CallOnly ==
  ASSUME IInv, NEW c \in Call, NEW r \in CallState,
         call' = [call EXCEPT ![c] = r], CallSound(r),
         r.pc = "mismatch" => Excused(r),
         UNCHANGED <<made, story, row, maker, acked>>
  PROVE  IInv'
<1>1. TypeOK'
  BY DEF IInv, TypeOK
<1>2. Grows
  BY DEF Grows, IInv, TypeOK
<1>3. CallSound(r)'
  BY DEF CallSound, Described, Kept
<1>4. (\A d \in Call : CallSound(call[d]))' /\ RepeatConverges'
  BY <1>1, <1>2, <1>3, CarryCalls
<1>5. RowHasStart' /\ AckedIsDurable'
  BY <1>1, <1>2, CarryRow
<1>6. Unmade' /\ ExtraFollowsPrefix'
  BY DEF IInv, Unmade, ExtraFollowsPrefix
<1>7. QED
  BY <1>1, <1>4, <1>5, <1>6 DEF IInv

-----------------------------------------------------------------------------
(* Requests that move on                                                   *)

\* The fields of a request that goes to another position.
LEMMA GotoShape ==
  ASSUME TypeOK, NEW c \in Call, NEW pc \in PC, Goto(c, pc)
  PROVE  \E r \in CallState :
           /\ call' = [call EXCEPT ![c] = r]
           /\ r.pc = pc /\ r.req = call[c].req /\ r.ord = call[c].ord
           /\ r.repeat = call[c].repeat
<1> DEFINE r == [call[c] EXCEPT !.pc = pc]
<1>1. /\ r \in CallState
      /\ r.pc = pc /\ r.req = call[c].req /\ r.ord = call[c].ord
      /\ r.repeat = call[c].repeat
  BY DEF TypeOK, CallState
<1>2. call' = [call EXCEPT ![c] = r]
  BY DEF TypeOK, Goto
<1> HIDE DEF r
<1>3. QED
  BY <1>1, <1>2

LEMMA LeaveInv ==
  ASSUME IInv, NEW c \in Call, Return(c) \/ Crash(c)
  PROVE  IInv'
<1>1. CallSound(Idle) /\ Idle.pc # "mismatch"
  BY DEF Idle, CallSound
<1>2. QED
  BY <1>1, IdleType, CallOnly DEF Return, Crash

LEMMA LoadInv ==
  ASSUME IInv, NEW c \in Call, LoadStart(c)
  PROVE  IInv'
<1> DEFINE q == call[c].req
<1>1. /\ TypeOK /\ CallSound(call[c]) /\ made /\ q \in Request
      /\ q.kind = "submit"
  BY DEF IInv, CallSound, LoadStart
<1>2. Len(story) \in Nat
  BY <1>1 DEF TypeOK
<1>3. CASE story # <<>> /\ SameStart(q, story[1])
  <2>1. Goto(c, "insert")
    BY <1>3 DEF LoadStart
  <2>2. PICK r \in CallState :
          /\ call' = [call EXCEPT ![c] = r]
          /\ r.pc = "insert" /\ r.req = q /\ r.repeat = call[c].repeat
    BY <1>1, <2>1, GotoShape DEF PC
  <2>3. Len(story) > 0
    BY <1>1, <1>3 DEF TypeOK
  <2>4. Described(q)
    BY <1>1, <1>3, <2>3 DEF Described, SameStart
  <2>5. CallSound(r)
    BY <1>1, <2>2, <2>4 DEF CallSound
  <2>6. QED
    BY <2>2, <2>5, CallOnly DEF LoadStart
<1>4. CASE ~(story # <<>> /\ SameStart(q, story[1]))
  <2>1. Goto(c, "mismatch")
    BY <1>4 DEF LoadStart
  <2>2. PICK r \in CallState :
          /\ call' = [call EXCEPT ![c] = r]
          /\ r.pc = "mismatch" /\ r.req = q /\ r.repeat = call[c].repeat
    BY <1>1, <2>1, GotoShape DEF PC
  <2>3. ~Described(q)
    BY <1>1, <1>2, <1>4 DEF Described, SameStart, TypeOK
  <2>4. ~r.repeat
    BY <1>1, <2>2, <2>3 DEF CallSound, IInv, AckedIsDurable
  <2>5. CallSound(r)
    BY <1>1, <2>2 DEF CallSound
  <2>6. QED
    BY <2>2, <2>4, <2>5, CallOnly DEF LoadStart, Excused
<1>5. QED
  BY <1>3, <1>4

LEMMA PrefixInv ==
  ASSUME IInv, NEW c \in Call, ComparePrefix(c)
  PROVE  IInv'
<1> DEFINE q == call[c].req
           o == call[c].ord
<1>1. /\ TypeOK /\ CallSound(call[c]) /\ made /\ q \in Request
      /\ q.kind = "restart" /\ o <= q.keep + 1 /\ Len(story) >= o
      /\ \A i \in 1 .. o : i <= q.keep + 1 => story[i] = Prefix(q.keep)[i]
  BY DEF IInv, CallSound, ComparePrefix
<1>2. /\ Len(story) \in Nat /\ o \in 0 .. SourceLast /\ q.keep \in 0 .. SourceLast - 1
      /\ SourceLast \in Nat
  BY <1>1, RequestType, SubmissionAssumption
     DEF TypeOK, CallState, SubmissionAssumption
<1>3. call[c].repeat => Described(q)
  BY <1>1 DEF CallSound, IInv, AckedIsDurable
<1>4. CASE o <= q.keep /\ o < Len(story) /\ story[o + 1] = Prefix(q.keep)[o + 1]
  <2> DEFINE r == [call[c] EXCEPT !.ord = o + 1]
  <2>1. o + 1 \in 0 .. SourceLast
    BY <1>2, <1>4
  <2>2. r \in CallState /\ r.pc = "prefix" /\ r.req = q /\ r.ord = o + 1
          /\ r.repeat = call[c].repeat
    BY <1>1, <2>1 DEF TypeOK, CallState, ComparePrefix
  <2>3. call' = [call EXCEPT ![c] = r]
    BY <1>4 DEF ComparePrefix, TypeOK
  <2> HIDE DEF r
  <2>4. \A i \in 1 .. o + 1 : i <= q.keep + 1 => story[i] = Prefix(q.keep)[i]
    <3> SUFFICES ASSUME NEW i \in 1 .. o + 1, i <= q.keep + 1
                 PROVE  story[i] = Prefix(q.keep)[i]
      OBVIOUS
    <3>1. CASE i = o + 1
      BY <1>4, <3>1
    <3>2. CASE i # o + 1
      <4>1. i \in 1 .. o
        BY <1>2, <3>2
      <4>2. QED
        BY <1>1, <4>1
    <3>3. QED
      BY <3>1, <3>2
  <2>5. CallSound(r)
    BY <1>1, <1>2, <1>4, <2>2, <2>4 DEF CallSound
  <2>6. QED
    BY <2>2, <2>3, <2>5, CallOnly DEF ComparePrefix
<1>5. CASE o <= q.keep
             /\ ~(o < Len(story) /\ story[o + 1] = Prefix(q.keep)[o + 1])
  <2>1. Goto(c, "mismatch")
    BY <1>5 DEF ComparePrefix
  <2>2. PICK r \in CallState :
          /\ call' = [call EXCEPT ![c] = r]
          /\ r.pc = "mismatch" /\ r.req = q /\ r.repeat = call[c].repeat
    BY <1>1, <2>1, GotoShape DEF PC
  <2>3. ~Kept(q)
    <3> DEFINE len == Len(story)
               keep == q.keep
    <3>a. len \in Nat /\ o \in Nat /\ keep \in Nat /\ o <= keep
      BY <1>2, <1>5
    <3> HIDE DEF len, keep, o
    <3>b. o + 1 \in 1 .. keep + 1 /\ (len > keep => o < len)
      BY ONLY <3>a
    <3> USE DEF len, keep, o
    <3>1. o + 1 \in 1 .. q.keep + 1
      BY ONLY <3>b
    <3>2. Len(story) > q.keep => o < Len(story)
      BY ONLY <3>b
    <3>3. Len(story) > q.keep => story[o + 1] # Prefix(q.keep)[o + 1]
      BY <1>5, <3>2
    <3>4. QED
      BY ONLY <3>1, <3>3 DEF Kept
  <2>4. ~r.repeat
    BY <1>1, <1>3, <2>2, <2>3 DEF Described
  <2>5. CallSound(r)
    BY <1>1, <2>2 DEF CallSound
  <2>6. QED
    BY <2>2, <2>4, <2>5, CallOnly DEF ComparePrefix, Excused
<1>6. CASE o > q.keep
  <2>1. o = q.keep + 1
    BY <1>1, <1>2, <1>6
  <2>2. Kept(q)
    BY <1>1, <1>2, <2>1 DEF Kept
  <2>3. CASE SameNext(q, o)
    <3>1. Goto(c, "insert")
      BY <1>2, <1>6, <2>3 DEF ComparePrefix
    <3>2. PICK r \in CallState :
            /\ call' = [call EXCEPT ![c] = r]
            /\ r.pc = "insert" /\ r.req = q /\ r.repeat = call[c].repeat
      BY <1>1, <3>1, GotoShape DEF PC
    <3>3. q.body # NoBody =>
            Len(story) > q.keep + 1 /\ story[q.keep + 2] = ExtraChapter(q.body)
      BY <1>2, <2>1, <2>3 DEF SameNext
    <3>4. Described(q)
      BY <1>1, <2>2, <3>3 DEF Described
    <3>5. CallSound(r)
      BY <1>1, <3>2, <3>4 DEF CallSound
    <3>6. QED
      BY <3>2, <3>5, CallOnly DEF ComparePrefix
  <2>4. CASE ~SameNext(q, o)
    <3>1. Goto(c, "mismatch")
      BY <1>2, <1>6, <2>4 DEF ComparePrefix
    <3>2. PICK r \in CallState :
            /\ call' = [call EXCEPT ![c] = r]
            /\ r.pc = "mismatch" /\ r.req = q /\ r.repeat = call[c].repeat
      BY <1>1, <3>1, GotoShape DEF PC
    <3>3. q.body # NoBody => ~Described(q)
      <4>1. q.body # NoBody =>
              ~(Len(story) > o /\ story[o + 1] = ExtraChapter(q.body))
        BY <1>2, <2>4 DEF SameNext
      <4>2. Described(q) /\ q.body # NoBody =>
              Len(story) > q.keep + 1 /\ story[q.keep + 2] = ExtraChapter(q.body)
        BY <1>1 DEF Described
      <4>3. q.keep + 2 = o + 1
        BY <1>2, <2>1
      <4>4. QED
        BY ONLY <2>1, <4>1, <4>2, <4>3
    <3>4. Excused(r)
      BY <1>1, <1>3, <3>2, <3>3 DEF Excused
    <3>5. CallSound(r)
      BY <1>1, <3>2 DEF CallSound
    <3>6. QED
      BY <3>2, <3>4, <3>5, CallOnly DEF ComparePrefix
  <2>5. QED
    BY <2>3, <2>4
<1>7. QED
  BY <1>2, <1>4, <1>5, <1>6

-----------------------------------------------------------------------------
(* Requests that arrive                                                    *)

LEMMA ServeShape ==
  ASSUME TypeOK, NEW c \in Call, NEW q \in Request, NEW pc \in PC, Serve(c, q, pc)
  PROVE  \E r \in CallState :
           /\ call' = [call EXCEPT ![c] = r]
           /\ r.pc = pc /\ r.req = q /\ r.ord = 0
           /\ r.repeat => q \in acked
<1> DEFINE r == [pc |-> pc, req |-> q, ord |-> 0, repeat |-> q \in acked]
<1>1. r \in CallState
  BY SubmissionAssumption DEF CallState, SubmissionAssumption
<1>2. /\ r.pc = pc /\ r.req = q /\ r.ord = 0
      /\ r.repeat => q \in acked
  OBVIOUS
<1>3. call' = [call EXCEPT ![c] = r]
  BY DEF Serve
<1> HIDE DEF r
<1>4. QED
  BY <1>1, <1>2, <1>3

\* A request that makes the story.
LEMMA MakeInv ==
  ASSUME IInv, NEW c \in Call, NEW q \in Request, NEW r \in CallState,
         ~made, made', maker' = q, call' = [call EXCEPT ![c] = r],
         CallSound(r)', r.pc # "mismatch",
         story' = <<>> \/ story' = Prefix(q.keep),
         UNCHANGED <<row, acked>>
  PROVE  IInv'
<1> USE RequestType
<1>1. TypeOK /\ story = <<>> /\ ~row.exists /\ acked = {}
  BY DEF IInv, Unmade
<1>2. q.keep \in 0 .. SourceLast - 1
  OBVIOUS
<1>3. story' \in Seq(Chapter)
  <2>1. CASE story' = <<>>
    BY <2>1
  <2>2. CASE story' = Prefix(q.keep)
    BY <1>2, <2>2, PrefixShape
  <2>3. QED
    BY <2>1, <2>2
<1>4. TypeOK'
  BY <1>1, <1>3 DEF TypeOK
<1>5. Len(story') \in Nat
  BY <1>3
<1>6. Grows
  BY <1>1, <1>5 DEF Grows
<1>7. (\A d \in Call : CallSound(call[d]))' /\ RepeatConverges'
  BY <1>4, <1>6, CarryCalls
<1>8. RowHasStart' /\ AckedIsDurable'
  BY <1>4, <1>6, CarryRow
<1>9. ExtraFollowsPrefix'
  <2>1. CASE story' = <<>>
    BY <2>1 DEF ExtraFollowsPrefix
  <2>2. CASE story' = Prefix(q.keep)
    <3>1. /\ Len(story') = q.keep + 1
          /\ \A i \in 1 .. q.keep + 1 : story'[i].kind # "extra"
      BY <1>2, <2>2, PrefixShape
    <3>2. QED
      BY <3>1 DEF ExtraFollowsPrefix
  <2>3. QED
    BY <2>1, <2>2
<1>10. Unmade'
  BY DEF Unmade
<1>11. QED
  BY <1>4, <1>7, <1>8, <1>9, <1>10 DEF IInv

LEMMA SubmitInv ==
  ASSUME IInv, NEW c \in Call, NEW q \in SubmitRequest, SubmitJob(c, q)
  PROVE  IInv'
<1> USE RequestType, SubmissionAssumption DEF SubmissionAssumption
<1>1. TypeOK /\ q \in Request /\ q.kind = "submit" /\ q.body # NoBody
  BY DEF IInv, Request, SubmitJob
<1>2. CASE made
  <2>1. Serve(c, q, "load") /\ UNCHANGED <<made, maker, story, row, acked>>
    BY <1>2 DEF SubmitJob
  <2>2. PICK r \in CallState :
          /\ call' = [call EXCEPT ![c] = r]
          /\ r.pc = "load" /\ r.req = q
          /\ r.repeat => q \in acked
    BY <1>1, <2>1, ServeShape DEF PC
  <2>3. CallSound(r)
    BY <1>1, <1>2, <2>2 DEF CallSound
  <2>4. QED
    BY <2>1, <2>2, <2>3, CallOnly
<1>3. CASE ~made
  <2>1. /\ Serve(c, q, "append") /\ made' /\ maker' = q
        /\ UNCHANGED <<story, row, acked>>
    BY <1>3 DEF SubmitJob
  <2>2. PICK r \in CallState :
          /\ call' = [call EXCEPT ![c] = r]
          /\ r.pc = "append" /\ r.req = q /\ r.ord = 0
          /\ r.repeat => q \in acked
    BY <1>1, <2>1, ServeShape DEF PC
  <2>3. CallSound(r)'
    BY <1>1, <2>1, <2>2 DEF CallSound
  <2>4. story' = <<>>
    BY <1>3, <2>1 DEF IInv, Unmade
  <2>5. QED
    BY <1>1, <1>3, <2>1, <2>2, <2>3, <2>4, MakeInv
<1>4. QED
  BY <1>2, <1>3

LEMMA RestartInv ==
  ASSUME IInv, NEW c \in Call, NEW q \in RestartRequest, SubmitRestartJob(c, q)
  PROVE  IInv'
<1> USE RequestType
<1>1. TypeOK /\ q \in Request /\ q.kind = "restart" /\ q.keep \in 0 .. SourceLast - 1
  BY DEF IInv, Request, SubmitRestartJob
<1>2. q.keep \in Nat /\ SourceLast \in Nat
  BY <1>1, SubmissionAssumption DEF SubmissionAssumption
<1>3. CASE made
  <2>1. Serve(c, q, "prefix") /\ UNCHANGED <<made, maker, story, row, acked>>
    BY <1>3 DEF SubmitRestartJob
  <2>2. PICK r \in CallState :
          /\ call' = [call EXCEPT ![c] = r]
          /\ r.pc = "prefix" /\ r.req = q /\ r.ord = 0
          /\ r.repeat => q \in acked
    BY <1>1, <2>1, ServeShape DEF PC
  <2>3. Len(story) \in Nat
    BY <1>1 DEF TypeOK
  <2>4. CallSound(r)
    BY <1>1, <1>2, <1>3, <2>2, <2>3 DEF CallSound
  <2>5. QED
    BY <2>1, <2>2, <2>4, CallOnly
<1>4. CASE ~made
  <2>1. /\ made' /\ maker' = q /\ story' = Prefix(q.keep)
        /\ UNCHANGED <<row, acked>>
    BY <1>4 DEF SubmitRestartJob
  <2>2. PICK pc \in {"insert", "append"} :
          Serve(c, q, pc) /\ (pc = "insert" <=> q.body = NoBody)
    BY <1>4 DEF SubmitRestartJob
  <2>3. PICK r \in CallState :
          /\ call' = [call EXCEPT ![c] = r]
          /\ r.pc = pc /\ r.req = q /\ r.ord = 0
          /\ r.repeat => q \in acked
    BY <1>1, <2>2, ServeShape DEF PC
  <2>4. Kept(q)'
    BY <1>1, <1>2, <2>1, PrefixShape DEF Kept
  <2>5. CallSound(r)'
    BY <1>1, <2>1, <2>2, <2>3, <2>4 DEF CallSound, Described
  <2>6. QED
    BY <1>1, <1>4, <2>1, <2>3, <2>5, MakeInv
<1>5. QED
  BY <1>3, <1>4

-----------------------------------------------------------------------------
(* Chapters that are appended                                              *)

LEMMA AppendGrows ==
  ASSUME TypeOK, NEW ch \in Chapter, story' = Append(story, ch),
         UNCHANGED <<made, row, acked>>
  PROVE  /\ Grows
         /\ story' \in Seq(Chapter)
         /\ Len(story') = Len(story) + 1
         /\ story'[Len(story) + 1] = ch
         /\ \A i \in 1 .. Len(story) : story'[i] = story[i]
         /\ Len(story) \in Nat
<1>1. story \in Seq(Chapter) /\ Len(story) \in Nat
  BY DEF TypeOK
<1>2. /\ story' \in Seq(Chapter)
      /\ Len(story') = Len(story) + 1
      /\ story'[Len(story) + 1] = ch
      /\ \A i \in 1 .. Len(story) : story'[i] = story[i]
  BY <1>1
<1>3. Grows
  BY <1>1, <1>2 DEF Grows
<1>4. QED
  BY <1>1, <1>2, <1>3

\* An appended chapter that is not an extra one, or directly follows the prefix.
LEMMA AppendExtra ==
  ASSUME IInv, NEW ch \in Chapter, story' = Append(story, ch),
         UNCHANGED <<made, row, acked>>,
         ch.kind = "extra" =>
           Len(story) > 0 /\ \A k \in 1 .. Len(story) : story[k].by = "source"
  PROVE  ExtraFollowsPrefix'
<1>1. TypeOK
  BY DEF IInv
<1>2. /\ Len(story') = Len(story) + 1 /\ story'[Len(story) + 1] = ch
      /\ \A i \in 1 .. Len(story) : story'[i] = story[i]
      /\ Len(story) \in Nat
  BY <1>1, AppendGrows
<1>3. ASSUME NEW i \in 1 .. Len(story'), story'[i].kind = "extra"
      PROVE  i > 1 /\ \A k \in 1 .. i - 1 : story'[k].by = "source"
  <2>1. CASE i = Len(story) + 1
    BY <1>2, <1>3, <2>1
  <2>2. CASE i # Len(story) + 1
    <3>1. i \in 1 .. Len(story) /\ story[i].kind = "extra"
      BY <1>2, <1>3, <2>2
    <3>2. i > 1 /\ \A k \in 1 .. i - 1 : story[k].by = "source"
      BY <3>1 DEF IInv, ExtraFollowsPrefix
    <3>3. QED
      BY <1>2, <3>1, <3>2
  <2>3. QED
    BY <2>1, <2>2
<1>4. QED
  BY <1>3 DEF ExtraFollowsPrefix

LEMMA WorkInv ==
  ASSUME IInv, Work
  PROVE  IInv'
<1> DEFINE ch == WorkChapter("own")
<1>1. TypeOK /\ ch \in Chapter /\ ch.kind # "extra"
  BY DEF IInv, WorkChapter, Chapter
<1>2. story' = Append(story, ch) /\ UNCHANGED <<made, row, call, maker, acked>>
  BY DEF Work
<1>3. Grows /\ story' \in Seq(Chapter)
  BY <1>1, <1>2, AppendGrows
<1>4. TypeOK'
  BY <1>1, <1>2, <1>3 DEF TypeOK
<1>5. ExtraFollowsPrefix'
  BY <1>1, <1>2, AppendExtra
<1>6. RowHasStart' /\ AckedIsDurable'
  BY <1>2, <1>3, <1>4, CarryRow
<1>7. made
  BY DEF IInv, Unmade, Work
<1>8. Unmade'
  BY <1>2, <1>7 DEF Unmade
<1>9. ASSUME NEW d \in Call
      PROVE  CallSound(call[d])'
  <2>1. PICK e \in CallState : e = call[d]
    BY <1>1 DEF TypeOK
  <2>2. CallSound(e)
    BY <2>1 DEF IInv
  <2>3. CallSound(e)'
    BY <1>1, <1>3, <1>4, <2>2, SoundStable
  <2>4. QED
    BY <1>2, <2>1, <2>3 DEF CallSound, Described, Kept
<1>10. RepeatConverges'
  BY <1>2 DEF IInv, RepeatConverges
<1>11. QED
  BY <1>4, <1>5, <1>6, <1>8, <1>9, <1>10 DEF IInv

LEMMA AppendInv ==
  ASSUME IInv, NEW c \in Call, AppendOwn(c)
  PROVE  IInv'
<1> USE RequestType
<1>0. PICK q \in Request : q = call[c].req
  BY DEF IInv, CallSound, AppendOwn
<1> DEFINE ch == OwnChapter(q)
<1>1. /\ TypeOK /\ CallSound(call[c]) /\ made
      /\ q.kind = "restart" => Kept(q)
      /\ q.body # NoBody /\ call[c].ord = 0
  BY <1>0 DEF IInv, CallSound, AppendOwn
<1>2. ch \in Chapter /\ q.kind \in {"submit", "restart"} /\ q.keep \in Int
        /\ q.keep >= 0
  BY <1>1, OwnChapterShape, SubmissionAssumption DEF SubmissionAssumption
<1>3. CASE OwnOrdinal(q) = Len(story)
  <2>1. /\ story' = Append(story, ch) /\ Goto(c, "insert")
        /\ UNCHANGED <<made, row, maker, acked>>
    BY <1>0, <1>3 DEF AppendOwn
  <2>2. PICK r \in CallState :
          /\ call' = [call EXCEPT ![c] = r]
          /\ r.pc = "insert" /\ r.req = q /\ r.repeat = call[c].repeat
    BY <1>0, <1>1, <2>1, GotoShape DEF PC
  <2>3. /\ Grows /\ story' \in Seq(Chapter)
        /\ Len(story') = Len(story) + 1 /\ story'[Len(story) + 1] = ch
        /\ Len(story) \in Nat
    BY <1>1, <1>2, <2>1, AppendGrows
  <2>4. TypeOK'
    BY <1>1, <2>1, <2>2, <2>3 DEF TypeOK
  <2>5. Described(q)'
    <3>1. CASE q.kind = "submit"
      <4>1. ch.kind = "start" /\ ch.body = q.body /\ ch.meta = q.meta
        BY <3>1 DEF OwnChapter, StartChapter
      <4>2. Len(story) = 0
        BY <1>3, <3>1 DEF OwnOrdinal
      <4>3. QED
        BY <2>3, <3>1, <4>1, <4>2 DEF Described
    <3>2. CASE q.kind = "restart"
      <4>1. ch = ExtraChapter(q.body)
        BY <3>2 DEF OwnChapter
      <4>2. Len(story) = q.keep + 1
        BY <1>3, <3>2 DEF OwnOrdinal
      <4>3. Kept(q)'
        BY <1>1, <2>3, <2>4, <3>2, DescribedStable
      <4>4. QED
        BY <1>2, <2>3, <3>2, <4>1, <4>2, <4>3 DEF Described
    <3>3. QED
      BY <1>2, <3>1, <3>2
  <2>6. CallSound(r)'
    BY <1>0, <1>1, <2>1, <2>2, <2>5 DEF CallSound
  <2>7. (\A d \in Call : CallSound(call[d]))' /\ RepeatConverges'
    BY <2>2, <2>3, <2>4, <2>6, CarryCalls
  <2>8. RowHasStart' /\ AckedIsDurable'
    BY <2>1, <2>3, <2>4, CarryRow
  <2>9. ch.kind = "extra" =>
          Len(story) > 0 /\ \A k \in 1 .. Len(story) : story[k].by = "source"
    <3>1. SUFFICES ASSUME ch.kind = "extra"
                   PROVE  Len(story) > 0
                            /\ \A k \in 1 .. Len(story) : story[k].by = "source"
      OBVIOUS
    <3>2. q.kind = "restart"
      BY <1>2, <3>1 DEF OwnChapter, StartChapter
    <3>3. Len(story) = q.keep + 1 /\ q.keep \in 0 .. SourceLast - 1
      BY <1>1, <1>3, <3>2 DEF OwnOrdinal
    <3>4. QED
      BY <1>1, <1>2, <3>2, <3>3, PrefixShape DEF Kept
  <2>10. ExtraFollowsPrefix'
    BY <1>2, <2>1, <2>9, AppendExtra
  <2>11. Unmade'
    BY <1>1, <2>1 DEF Unmade
  <2>12. QED
    BY <2>4, <2>7, <2>8, <2>10, <2>11 DEF IInv
<1>4. CASE OwnOrdinal(q) # Len(story)
  <2>1. PICK pc \in {"load", "prefix"} :
          Goto(c, pc) /\ (pc = "load" <=> q.kind = "submit")
    BY <1>0, <1>4 DEF AppendOwn
  <2>2. PICK r \in CallState :
          /\ call' = [call EXCEPT ![c] = r]
          /\ r.pc = pc /\ r.req = q /\ r.repeat = call[c].repeat
          /\ r.ord = 0
    <3>1. pc \in PC
      BY DEF PC
    <3>2. QED
      BY <1>0, <1>1, <2>1, <3>1, GotoShape
  <2>3. Len(story) \in Nat
    BY <1>1 DEF TypeOK
  <2>4. CallSound(r)
    BY <1>0, <1>1, <1>2, <2>1, <2>2, <2>3 DEF CallSound
  <2>5. QED
    BY <1>0, <1>4, <2>1, <2>2, <2>4, CallOnly DEF AppendOwn
<1>5. QED
  BY <1>3, <1>4

-----------------------------------------------------------------------------
(* The job row                                                             *)

\* A request that is answered with success joins those that were.
LEMMA AnswerInv ==
  ASSUME IInv, NEW c \in Call, call[c].pc # "idle", Answered(c),
         Described(call[c].req), row' \in JobRow, row'.exists,
         row'.meta = call[c].req.meta, row.exists => row'.meta = row.meta,
         UNCHANGED <<made, story, maker>>
  PROVE  IInv'
<1> USE RequestType
<1>0. PICK q \in Request : q = call[c].req
  BY DEF IInv, CallSound
<1>1. /\ TypeOK /\ CallSound(call[c]) /\ made /\ Described(q)
      /\ acked' = acked \cup {q}
  BY <1>0 DEF IInv, CallSound, Answered
<1>2. PICK r \in CallState :
        /\ call' = [call EXCEPT ![c] = r]
        /\ r.pc = "ok" /\ r.req = q /\ r.repeat = call[c].repeat
  BY <1>0, <1>1, GotoShape DEF PC, Answered
<1>3. TypeOK'
  BY <1>1, <1>2 DEF TypeOK
<1>4. Grows
  BY <1>1 DEF Grows, TypeOK
<1>5. CallSound(r)'
  BY <1>0, <1>1, <1>2 DEF CallSound
<1>6. (\A d \in Call : CallSound(call[d]))' /\ RepeatConverges'
  BY <1>2, <1>3, <1>4, <1>5, CarryCalls
<1>7. AckedIsDurable'
  <2>1. ASSUME NEW p \in acked'
        PROVE  row'.exists /\ row'.meta = p.meta /\ Described(p)'
    <3>1. CASE p \in acked
      <4>1. row.exists /\ row.meta = p.meta /\ Described(p) /\ p \in Request
        BY <1>1, <3>1 DEF IInv, AckedIsDurable, TypeOK
      <4>2. QED
        BY <1>1, <1>3, <1>4, <4>1, DescribedStable
    <3>2. CASE p = q
      <4>1. Described(q)'
        BY <1>1, <1>3, <1>4, DescribedStable
      <4>2. QED
        BY <1>0, <3>2, <4>1
    <3>3. QED
      BY <1>1, <3>1, <3>2
  <2>2. QED
    BY <2>1 DEF AckedIsDurable
<1>8. Len(story) > 0 /\ story[1].kind = "start"
  <2>1. CASE q.kind = "submit"
    BY <1>1, <2>1 DEF Described
  <2>2. CASE q.kind = "restart"
    <3>1. Kept(q) /\ q.keep \in 0 .. SourceLast - 1 /\ Len(story) \in Nat
      BY <1>1, <2>2 DEF Described, TypeOK
    <3>2. Len(story) > 0 /\ 1 \in 1 .. q.keep + 1
      BY <3>1, SubmissionAssumption DEF Kept, SubmissionAssumption
    <3>3. story[1] = Prefix(q.keep)[1]
      BY <3>1, <3>2 DEF Kept
    <3>4. QED
      BY <3>1, <3>2, <3>3, PrefixShape
  <2>3. QED
    BY <2>1, <2>2
<1>9. RowHasStart' /\ ExtraFollowsPrefix' /\ Unmade'
  BY <1>1, <1>8 DEF RowHasStart, ExtraFollowsPrefix, Unmade, IInv
<1>10. QED
  BY <1>3, <1>6, <1>7, <1>9 DEF IInv

LEMMA InsertInv ==
  ASSUME IInv, NEW c \in Call, InsertRow(c)
  PROVE  IInv'
<1> USE RequestType
<1>0. PICK q \in Request : q = call[c].req
  BY DEF IInv, CallSound, InsertRow
<1>1. TypeOK /\ CallSound(call[c]) /\ made /\ Described(q)
  BY <1>0 DEF IInv, CallSound, InsertRow
<1>2. CASE row.exists
  <2>1. Goto(c, "compare") /\ UNCHANGED <<made, story, row, maker, acked>>
    BY <1>2 DEF InsertRow
  <2>2. PICK r \in CallState :
          /\ call' = [call EXCEPT ![c] = r]
          /\ r.pc = "compare" /\ r.req = q /\ r.repeat = call[c].repeat
    BY <1>0, <1>1, <2>1, GotoShape DEF PC
  <2>3. CallSound(r)
    BY <1>0, <1>1, <1>2, <2>2 DEF CallSound
  <2>4. QED
    BY <2>1, <2>2, <2>3, CallOnly
<1>3. CASE ~row.exists
  <2>1. /\ row' = Inserted(q) /\ Answered(c) /\ UNCHANGED <<made, story, maker>>
        /\ call[c].pc # "idle"
    BY <1>0, <1>3 DEF InsertRow
  <2>2. row' \in JobRow /\ row'.exists /\ row'.meta = q.meta
    BY <2>1 DEF Inserted, JobRow
  <2>3. QED
    BY <1>0, <1>1, <1>3, <2>1, <2>2, AnswerInv
<1>4. QED
  BY <1>2, <1>3

LEMMA CompareInv ==
  ASSUME IInv, NEW c \in Call, CompareRow(c)
  PROVE  IInv'
<1> USE RequestType
<1>0. PICK q \in Request : q = call[c].req
  BY DEF IInv, CallSound, CompareRow
<1>1. TypeOK /\ CallSound(call[c]) /\ made /\ Described(q) /\ row.exists
        /\ call[c].pc # "idle" /\ row \in JobRow
  BY <1>0 DEF IInv, CallSound, CompareRow, TypeOK
<1>2. CASE SameRow(q)
  <2>1. row.meta = q.meta /\ Answered(c) /\ UNCHANGED <<made, story, row, maker>>
    BY <1>0, <1>2 DEF CompareRow, SameRow
  <2>2. QED
    BY <1>0, <1>1, <2>1, AnswerInv
<1>3. CASE ~SameRow(q)
  <2>1. Goto(c, "mismatch") /\ UNCHANGED <<made, story, row, maker, acked>>
    BY <1>0, <1>3 DEF CompareRow
  <2>2. PICK r \in CallState :
          /\ call' = [call EXCEPT ![c] = r]
          /\ r.pc = "mismatch" /\ r.req = q /\ r.repeat = call[c].repeat
    BY <1>0, <1>1, <2>1, GotoShape DEF PC
  <2>3. r.repeat => row.meta = q.meta
    BY <1>0, <1>1, <2>2 DEF CallSound, IInv, AckedIsDurable
  <2>4. Excused(r)
    BY <1>3, <2>2, <2>3 DEF Excused, SameRow
  <2>5. CallSound(r)
    BY <1>0, <1>1, <2>2 DEF CallSound
  <2>6. QED
    BY <2>1, <2>2, <2>4, <2>5, CallOnly
<1>4. QED
  BY <1>2, <1>3

LEMMA RescheduleInv ==
  ASSUME IInv, NEW t \in Time \cup {NoTime}, Reschedule(t)
  PROVE  IInv'
<1>1. /\ TypeOK /\ made /\ row.exists
      /\ row' = [row EXCEPT !.avail = t]
      /\ UNCHANGED <<made, story, call, maker, acked>>
  BY DEF IInv, Unmade, Reschedule
<1>2. row' \in JobRow /\ row'.exists /\ row'.meta = row.meta
  BY <1>1 DEF TypeOK, JobRow
<1>3. TypeOK' /\ Grows
  BY <1>1, <1>2 DEF TypeOK, Grows
<1>4. RowHasStart' /\ AckedIsDurable'
  BY <1>1, <1>3, CarryRow
<1>5. ASSUME NEW d \in Call
      PROVE  CallSound(call[d])'
  <2>1. PICK e \in CallState : e = call[d]
    BY <1>1 DEF TypeOK
  <2>2. CallSound(e)
    BY <2>1 DEF IInv
  <2>3. CallSound(e)'
    BY <1>1, <1>3, <2>2, SoundStable
  <2>4. QED
    BY <1>1, <2>1, <2>3 DEF CallSound, Described, Kept
<1>6. Unmade' /\ ExtraFollowsPrefix' /\ RepeatConverges'
  BY <1>1 DEF IInv, Unmade, ExtraFollowsPrefix, RepeatConverges
<1>7. QED
  BY <1>3, <1>4, <1>5, <1>6 DEF IInv

-----------------------------------------------------------------------------
(* The step, and the theorems                                              *)

LEMMA StepIInv == IInv /\ [Next]_vars => IInv'
<1> SUFFICES ASSUME IInv, [Next]_vars PROVE IInv'
  OBVIOUS
<1>1. CASE UNCHANGED vars
  BY <1>1 DEF vars, IInv, TypeOK, Unmade, CallSound, Kept, Described,
              RowHasStart, AckedIsDurable, ExtraFollowsPrefix, RepeatConverges
<1>2. ASSUME NEW c \in Call, NEW q \in SubmitRequest, SubmitJob(c, q)
      PROVE  IInv'
  BY <1>2, SubmitInv
<1>3. ASSUME NEW c \in Call, NEW q \in RestartRequest, SubmitRestartJob(c, q)
      PROVE  IInv'
  BY <1>3, RestartInv
<1>4. ASSUME NEW c \in Call, AppendOwn(c)
      PROVE  IInv'
  BY <1>4, AppendInv
<1>5. ASSUME NEW c \in Call, LoadStart(c) \/ ComparePrefix(c)
      PROVE  IInv'
  BY <1>5, LoadInv, PrefixInv
<1>6. ASSUME NEW c \in Call, InsertRow(c) \/ CompareRow(c)
      PROVE  IInv'
  BY <1>6, InsertInv, CompareInv
<1>7. ASSUME NEW c \in Call, Return(c) \/ Crash(c)
      PROVE  IInv'
  BY <1>7, LeaveInv
<1>8. CASE Work
  BY <1>8, WorkInv
<1>9. ASSUME NEW t \in Time \cup {NoTime}, Reschedule(t)
      PROVE  IInv'
  BY <1>9, RescheduleInv
<1>10. QED
  BY <1>1, <1>2, <1>3, <1>4, <1>5, <1>6, <1>7, <1>8, <1>9 DEF Next

\* The inductive invariant holds in every reachable state.
THEOREM Inductive == Spec => []IInv
BY InitIInv, StepIInv, PTL DEF Spec

\* Every variable keeps its type.
THEOREM TypeCorrect == Spec => []TypeOK
<1>1. IInv => TypeOK
  BY DEF IInv
<1>2. QED
  BY Inductive, <1>1, PTL

\* A job that workers can see has its start chapter, whoever inserted the row
\* (insertJobRecord) and whoever died before that.
THEOREM StartPresent == Spec => []RowHasStart
<1>1. IInv => RowHasStart
  BY DEF IInv
<1>2. QED
  BY Inductive, <1>1, PTL

\* A request that was answered with success finds its metadata and its history
\* in the job from then on (reconcileExistingSubmitJob and
\* reconcileExistingRestartJob acknowledge nothing else).
THEOREM AckedDurable == Spec => []AckedIsDurable
<1>1. IInv => AckedIsDurable
  BY DEF IInv
<1>2. QED
  BY Inductive, <1>1, PTL

\* The extra chapter of a restart directly follows the chapters that were linked
\* from the source job, however the requests and the workers interleave.
THEOREM ExtraInPlace == Spec => []ExtraFollowsPrefix
<1>1. IInv => ExtraFollowsPrefix
  BY DEF IInv
<1>2. QED
  BY Inductive, <1>1, PTL

\* A request that succeeded once is not refused later, but for the two kinds of
\* request that RepeatConverges names.
THEOREM RepeatsConverge == Spec => []RepeatConverges
<1>1. IInv => RepeatConverges
  BY DEF IInv
<1>2. QED
  BY Inductive, <1>1, PTL
=============================================================================
