----------------------------- MODULE Submission -----------------------------
(***************************************************************************)
(* Creating a job under an identifier the caller has chosen: SubmitJob and *)
(* SubmitRestartJob of the SQLite runtime (pkg/jobdb/runtime/sqlite).  The *)
(* job is a chapter story and a row in jobdb_jobs, made by separate        *)
(* transactions: the story first, then chapter 0 (or, for a restart, the   *)
(* extra chapter after the linked prefix), then the row.  A request that   *)
(* finds the story there reconciles with what it finds.                    *)
(*                                                                         *)
(* One identifier is modelled; requests for it arrive at any time, several *)
(* at once, and the process that serves one may die between transactions.  *)
(* The source of a restart is a story whose kept chapters never change     *)
(* (ChapterStore).  Workers append to the job and reschedule it once its   *)
(* row is there.                                                           *)
(*                                                                         *)
(* An operator marked "Slip" is not the code: it is a plausible mistake in *)
(* the definition that follows it, kept to show which property notices it. *)
(***************************************************************************)
EXTENDS Integers, Sequences

CONSTANTS
  Call,          \* requests being served at the same time (bound)
  Body,          \* inputs of a job, and outputs of an extra task
  NoBody,
  Meta,          \* metadata of a submit request
  NoMeta,        \* none, as for every restart
  Time,          \* availableAt of a submit request
  NoTime,        \* none; in the row, the moment of the insert
  SourceBody,    \* input of the source job of the restarts
  SourceMeta,    \* metadata of the source job
  SourceLast,    \* ordinal of its last chapter
  MaxLength      \* largest number of chapters of the job (bound)

ASSUME SubmissionAssumption ==
  /\ NoBody \notin Body
  /\ NoMeta \notin Meta
  /\ NoTime \notin Time
  /\ SourceBody \in Body
  /\ SourceMeta \in Meta \cup {NoMeta}
  /\ SourceLast \in Nat \ {0}
  /\ MaxLength \in Nat

VARIABLES
  made,     \* the row of the chapter story exists
  story,    \* its chapters
  row,      \* the jobdb_jobs row
  call,     \* the requests being served
  maker,    \* history: the request that made the story
  acked     \* history: requests that were answered with success

vars == <<made, story, row, call, maker, acked>>

\* The envelope of a chapter holds the time it was written: a chapter of this
\* job equals one of the source only if it was linked from there ("source").
Chapter == [kind : {"start", "work", "extra"}, body : Body \cup {NoBody},
            meta : Meta \cup {NoMeta}, by : {"source", "own"}]

StartChapter(b, m, by) == [kind |-> "start", body |-> b, meta |-> m, by |-> by]
WorkChapter(by) ==
  [kind |-> "work", body |-> NoBody, meta |-> NoMeta, by |-> by]
ExtraChapter(b) ==
  [kind |-> "extra", body |-> b, meta |-> NoMeta, by |-> "own"]

\* The chapters of the source job that a restart keeps.
Prefix(keep) ==
  [i \in 1 .. keep + 1 |->
     IF i = 1 THEN StartChapter(SourceBody, SourceMeta, "source")
              ELSE WorkChapter("source")]

NoRow == [exists |-> FALSE, meta |-> NoMeta, avail |-> NoTime]
JobRow == [exists : BOOLEAN, meta : Meta \cup {NoMeta},
           avail : Time \cup {NoTime}]

\* A restart keeps ordinals up to keep, of which the next one must exist, and
\* may add an extra chapter.  Prerequisites and run policy go with the body.
SubmitRequest ==
  [kind : {"submit"}, body : Body, meta : Meta \cup {NoMeta},
   avail : Time \cup {NoTime}, keep : {0}]
RestartRequest ==
  [kind : {"restart"}, body : Body \cup {NoBody}, meta : {NoMeta},
   avail : {NoTime}, keep : 0 .. SourceLast - 1]
Request == SubmitRequest \cup RestartRequest
NoRequest == [kind |-> "none", body |-> NoBody, meta |-> NoMeta,
              avail |-> NoTime, keep |-> 0]

PC == {"idle", "append", "load", "prefix", "insert", "compare", "ok",
       "mismatch"}

\* repeat: the same request had been answered with success before this one.
CallState == [pc : PC, req : Request \cup {NoRequest},
              ord : 0 .. SourceLast, repeat : BOOLEAN]

Idle == [pc |-> "idle", req |-> NoRequest, ord |-> 0, repeat |-> FALSE]

Init ==
  /\ made = FALSE
  /\ story = <<>>
  /\ row = NoRow
  /\ call = [c \in Call |-> Idle]
  /\ maker = NoRequest
  /\ acked = {}

-----------------------------------------------------------------------------
(* Helpers                                                                 *)

Goto(c, pc) == call' = [call EXCEPT ![c].pc = pc]

Serve(c, q, pc) ==
  call' = [call EXCEPT ![c] =
             [pc |-> pc, req |-> q, ord |-> 0, repeat |-> q \in acked]]

\* The chapter a request appends to the story it has made, and its ordinal.
OwnChapter(q) ==
  IF q.kind = "submit" THEN StartChapter(q.body, q.meta, "own")
                       ELSE ExtraChapter(q.body)
OwnOrdinal(q) == IF q.kind = "submit" THEN 0 ELSE q.keep + 1

-----------------------------------------------------------------------------
(* Making the story                                                        *)

\* CreateStory inserts an empty story, or meets the one that is there.
SubmitJob(c, q) ==
  /\ call[c].pc = "idle"
  /\ q.kind = "submit"
  /\ IF made
     THEN /\ Serve(c, q, "load")
          /\ UNCHANGED <<made, maker>>
     ELSE /\ Serve(c, q, "append")
          /\ made' = TRUE
          /\ maker' = q
  /\ UNCHANGED <<story, row, acked>>

\* CloneStory links the kept prefix of the source story.
SubmitRestartJob(c, q) ==
  /\ call[c].pc = "idle"
  /\ q.kind = "restart"
  /\ IF made
     THEN /\ Serve(c, q, "prefix")
          /\ UNCHANGED <<made, maker, story>>
     ELSE /\ Serve(c, q, IF q.body = NoBody THEN "insert" ELSE "append")
          /\ made' = TRUE
          /\ maker' = q
          /\ story' = Prefix(q.keep)
  /\ UNCHANGED <<row, acked>>

\* Slip: the chapter goes to the end of the story, wherever that is by now.
AppendOwnAnywhere(c) ==
  /\ call[c].pc = "append"
  /\ Len(story) < MaxLength
  /\ story' = Append(story, OwnChapter(call[c].req))
  /\ Goto(c, "insert")
  /\ UNCHANGED <<made, row, maker, acked>>

\* The append transaction takes the next ordinal only.  A conflict makes the
\* request reconcile, as if the story had been there before.
AppendOwn(c) ==
  LET q == call[c].req IN
  /\ call[c].pc = "append"
  /\ IF OwnOrdinal(q) = Len(story)
     THEN /\ story' = Append(story, OwnChapter(q))
          /\ Goto(c, "insert")
     ELSE /\ Goto(c, IF q.kind = "submit" THEN "load" ELSE "prefix")
          /\ UNCHANGED story
  /\ UNCHANGED <<made, row, maker, acked>>

-----------------------------------------------------------------------------
(* Reconciling with a story that is there                                  *)

\* compareSubmitStartChapter; metadataForStartChapter stores absent metadata as
\* an empty object, so it is compared like any other.
SameStart(q, ch) == ch.kind = "start" /\ ch.body = q.body /\ ch.meta = q.meta

\* loadExistingStartChapter: a story without chapter 0 is a mismatch.
LoadStart(c) ==
  /\ call[c].pc = "load"
  /\ Goto(c, IF story # <<>> /\ SameStart(call[c].req, story[1])
             THEN "insert" ELSE "mismatch")
  /\ UNCHANGED <<made, story, row, maker, acked>>

\* Slip: an extra chapter is not compared.
SameNextAny(q, o) == q.body # NoBody => o < Len(story)

\* The chapter after the prefix: the requested extra one if there is a request
\* for one, and otherwise none, or what a worker has written there.
SameNext(q, o) ==
  IF q.body = NoBody
  THEN o < Len(story) => story[o + 1].kind # "extra"
  ELSE o < Len(story) /\ story[o + 1] = ExtraChapter(q.body)

\* Slip: the loop runs one ordinal too far and only asks whether it is there.
ComparePrefixTooFar(c) ==
  LET q == call[c].req
      o == call[c].ord IN
  /\ call[c].pc = "prefix"
  /\ IF o <= q.keep + 1
     THEN IF o < Len(story)
          THEN call' = [call EXCEPT ![c].ord = o + 1]
          ELSE Goto(c, "mismatch")
     ELSE Goto(c, IF SameNext(q, o) THEN "insert" ELSE "mismatch")
  /\ UNCHANGED <<made, story, row, maker, acked>>

\* compareRestartStoryPrefix reads one ordinal after the other.
ComparePrefix(c) ==
  LET q == call[c].req
      o == call[c].ord IN
  /\ call[c].pc = "prefix"
  /\ IF o <= q.keep
     THEN IF o < Len(story) /\ story[o + 1] = Prefix(q.keep)[o + 1]
          THEN call' = [call EXCEPT ![c].ord = o + 1]
          ELSE Goto(c, "mismatch")
     ELSE Goto(c, IF SameNext(q, o) THEN "insert" ELSE "mismatch")
  /\ UNCHANGED <<made, story, row, maker, acked>>

-----------------------------------------------------------------------------
(* The job row                                                             *)

Inserted(q) == [exists |-> TRUE, meta |-> q.meta, avail |-> q.avail]

Answered(c) ==
  /\ Goto(c, "ok")
  /\ acked' = acked \cup {call[c].req}

\* insertJobRecord
InsertRow(c) ==
  /\ call[c].pc = "insert"
  /\ IF row.exists
     THEN Goto(c, "compare") /\ UNCHANGED <<row, acked>>
     ELSE row' = Inserted(call[c].req) /\ Answered(c)
  /\ UNCHANGED <<made, story, maker>>

\* Slip: a request without availableAt only fits a row made without one.
SameRowStrict(q) == row.meta = q.meta /\ row.avail = q.avail

\* A request without availableAt fits any row with its metadata.
SameRow(q) ==
  /\ row.meta = q.meta
  /\ q.avail = NoTime \/ row.avail = q.avail

\* The rest of ensureSubmittedJobRecord: the row is compared.
CompareRow(c) ==
  /\ call[c].pc = "compare"
  /\ IF SameRow(call[c].req)
     THEN Answered(c)
     ELSE Goto(c, "mismatch") /\ UNCHANGED acked
  /\ UNCHANGED <<made, story, row, maker>>

-----------------------------------------------------------------------------
(* The rest of the system                                                  *)

\* A worker that holds the lease of the job appends a chapter.
Work ==
  /\ row.exists
  /\ Len(story) < MaxLength
  /\ story' = Append(story, WorkChapter("own"))
  /\ UNCHANGED <<made, row, call, maker, acked>>

\* A reschedule or the end of a wait writes available_at.
Reschedule(t) ==
  /\ row.exists
  /\ row' = [row EXCEPT !.avail = t]
  /\ UNCHANGED <<made, story, call, maker, acked>>

Return(c) ==
  /\ call[c].pc \in {"ok", "mismatch"}
  /\ call' = [call EXCEPT ![c] = Idle]
  /\ UNCHANGED <<made, story, row, maker, acked>>

\* The process that serves the request dies between two transactions.
Crash(c) ==
  /\ call[c].pc \in PC \ {"idle", "ok", "mismatch"}
  /\ call' = [call EXCEPT ![c] = Idle]
  /\ UNCHANGED <<made, story, row, maker, acked>>

Next ==
  \/ \E c \in Call :
       \/ \E q \in SubmitRequest : SubmitJob(c, q)
       \/ \E q \in RestartRequest : SubmitRestartJob(c, q)
       \/ AppendOwn(c)
       \/ LoadStart(c)
       \/ ComparePrefix(c)
       \/ InsertRow(c)
       \/ CompareRow(c)
       \/ Return(c)
       \/ Crash(c)
  \/ Work
  \/ \E t \in Time \cup {NoTime} : Reschedule(t)

Spec == Init /\ [][Next]_vars

-----------------------------------------------------------------------------
(* Properties                                                              *)

\* Every variable keeps its shape (jobRow, story.Chapter, the request records).
TypeOK ==
  /\ made \in BOOLEAN
  /\ story \in Seq(Chapter)
  /\ row \in JobRow
  /\ call \in [Call -> CallState]
  /\ maker \in Request \cup {NoRequest}
  /\ acked \subseteq Request

\* The story begins with the prefix that q keeps.
Kept(q) ==
  /\ Len(story) > q.keep
  /\ \A i \in 1 .. q.keep + 1 : story[i] = Prefix(q.keep)[i]

\* The story begins the way q describes.
Described(q) ==
  /\ q.kind = "submit" =>
       /\ Len(story) > 0
       /\ story[1].kind = "start"
       /\ story[1].body = q.body
       /\ story[1].meta = q.meta
  /\ q.kind = "restart" =>
       /\ Kept(q)
       /\ q.body # NoBody =>
            Len(story) > q.keep + 1 /\ story[q.keep + 2] = ExtraChapter(q.body)

\* What was acknowledged is there and stays there: the row with the metadata of
\* the request and the history the request describes, also for a request that
\* has made neither (reconcileExistingSubmitJob, reconcileExistingRestartJob).
AckedIsDurable ==
  \A q \in acked : row.exists /\ row.meta = q.meta /\ Described(q)

\* Initial history comes before work: an extra chapter directly follows linked
\* chapters, although the row may be inserted, and the job worked on, by another
\* request before the one that adds the extra chapter gets to it.
ExtraFollowsPrefix ==
  \A i \in 1 .. Len(story) : story[i].kind = "extra" =>
    i > 1 /\ \A k \in 1 .. i - 1 : story[k].by = "source"

\* A request that succeeded once succeeds again, whatever workers did to the job
\* in between.  Left out are requests with availableAt, which a reschedule
\* overwrites, and restarts without an extra chapter, which mistake the story of
\* an unfinished restart with one for their own.
RepeatConverges ==
  \A c \in Call :
    call[c].pc = "mismatch" /\ call[c].repeat =>
      \/ call[c].req.avail # NoTime
      \/ call[c].req.kind = "restart" /\ call[c].req.body = NoBody

\* docs/SPEC-WorkflowRuntime-Guarantees.md:153: an equivalent repeat of the same
\* explicit-ID submit or restart request returns success for the existing job;
\* here a repeat of the request that made the story, whatever came of it.
RepeatOfMaker ==
  \A c \in Call :
    call[c].pc = "mismatch" /\ call[c].req.avail = NoTime
      => call[c].req # maker
=============================================================================
