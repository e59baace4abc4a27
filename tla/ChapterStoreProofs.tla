------------------------- MODULE ChapterStoreProofs -------------------------
(***************************************************************************)
(* Proofs about ChapterStore, for any number of clients, stories, bodies,  *)
(* ordinals and any link depth.  The safety invariants of the store are    *)
(* not inductive by themselves: they need to know what an operation that   *)
(* is under way may rely on (OpSound).                                     *)
(***************************************************************************)
EXTENDS ChapterStore, TLAPS

-----------------------------------------------------------------------------
(* Lemma invariants, which are of use to a reader as well                  *)

\* A linked clone always leans on a base row that is still there and reaches
\* at least its fork ordinal, whatever happened to the base after the read
\* of CloneStory.
LinkSound ==
  \A k \in Story : stories[k].base # NoStory =>
    /\ stories[k].exists
    /\ stories[k].base # k
    /\ stories[stories[k].base].exists
    /\ stories[k].fork \in 0 .. stories[k].latest
    /\ stories[k].fork <= stories[stories[k].base].latest

\* What the walk along the links adds up to: above the fork a story shows its
\* own rows, up to the fork it shows what its base shows.
TextIsStored ==
  \A k \in Story, o \in Ordinal :
    text[k][o] = IF stories[k].base # NoStory /\ o <= stories[k].fork
                 THEN text[stories[k].base][o]
                 ELSE chapters[k][o]

\* A committed chapter row never changes or disappears.
ChaptersImmutable ==
  [][\A k \in Story, o \in Ordinal :
       chapters[k][o] # NoBody => chapters'[k][o] = chapters[k][o]]_vars

-----------------------------------------------------------------------------
(* The inductive invariant                                                 *)

\* What the remaining steps of an operation rely on.
OpSound(o, rows, log, saved) ==
  /\ o.pc \in {"blob", "append"} =>
       o.key \in Story /\ o.ord \in Ordinal /\ o.body \in Body
  /\ o.pc = "blob" => o.body \in BigBody
  /\ o.pc = "append" /\ o.body \in BigBody => o.body \in saved
  /\ o.pc = "link" =>
       /\ o.key \in Story /\ o.cur \in Story
       /\ rows[o.cur].exists
       /\ o.ord \in 0 .. rows[o.cur].latest
       /\ o.body # NoBody => o.ord + 1 \in Ordinal
  /\ o.pc \in {"publish", "tombstone"} => o.key \in Story
  /\ o.pc \in {"hop", "fetch", "found"} =>
       /\ o.key \in Story
       /\ rows[o.key].exists
       /\ o.ord \in 0 .. rows[o.key].latest
  /\ o.pc \in {"hop", "fetch"} =>
       /\ o.cur \in Story
       /\ rows[o.cur].exists
       /\ o.ord <= rows[o.cur].latest
       /\ log[o.key][o.ord] = log[o.cur][o.ord]
  /\ o.pc = "hop" => o.depth < MaxLinkDepth
  /\ o.pc = "fetch" => rows[o.cur].fork < o.ord
  /\ o.pc = "found" => o.body # NoBody /\ o.body = log[o.key][o.ord]
  /\ o.pc # "lost"

\* A key without a row has nothing; a row without a link has no fork; only a
\* finalized story is deleted.
RowSound(k) ==
  /\ ~stories[k].exists => stories[k] = NoRow
  /\ stories[k].base = NoStory => stories[k].fork = -1
  /\ stories[k].deleted => stories[k].finalized

IInv ==
  /\ TypeOK
  /\ Contiguous
  /\ LinkSound
  /\ TextIsStored
  /\ BlobBeforeRow
  /\ \A k \in Story : RowSound(k)
  /\ \A c \in Client : OpSound(op[c], stories, text, blobs)

\* A step only adds to the store.
Grows ==
  /\ \A k \in Story : stories[k].exists =>
       /\ stories'[k].exists
       /\ stories'[k].base = stories[k].base
       /\ stories'[k].fork = stories[k].fork
       /\ stories'[k].latest >= stories[k].latest
       /\ \A o \in 0 .. stories[k].latest : text'[k][o] = text[k][o]
  /\ blobs \subseteq blobs'

-----------------------------------------------------------------------------
(* Initial states                                                          *)

LEMMA InitIInv == Init => IInv
<1> SUFFICES ASSUME Init PROVE IInv
  OBVIOUS
<1> USE StoreAssumption DEF StoreAssumption
<1>1. NoRow \in StoryRow
  BY DEF NoRow, StoryRow
<1>2. Idle \in Op
  BY DEF Idle, Doing, Op, PC
<1>3. TypeOK
  BY <1>1, <1>2 DEF Init, TypeOK
<1>4. Contiguous /\ LinkSound /\ TextIsStored /\ BlobBeforeRow
  BY DEF Init, Contiguous, LinkSound, TextIsStored, BlobBeforeRow, NoRow,
         Ordinal
<1>5. \A k \in Story : RowSound(k)
  BY DEF Init, RowSound, NoRow
<1>6. \A c \in Client : OpSound(op[c], stories, text, blobs)
  BY DEF Init, OpSound, Idle, Doing
<1>7. QED
  BY <1>3, <1>4, <1>5, <1>6 DEF IInv

-----------------------------------------------------------------------------
(* Operations under way survive the steps of other clients                 *)

LEMMA OpSoundStable ==
  ASSUME NEW o \in Op, OpSound(o, stories, text, blobs),
         Grows, TypeOK, TypeOK'
  PROVE  OpSound(o, stories', text', blobs')
<1> USE StoreAssumption DEF StoreAssumption
<1>1. \A k \in Story : stories[k] \in StoryRow /\ stories'[k] \in StoryRow
  BY DEF TypeOK
<1>2. \A k \in Story : stories[k].latest \in Int /\ stories'[k].latest \in Int
  BY <1>1 DEF StoryRow
<1>3. o.ord \in Int
  BY DEF Op
<1>4. QED
  BY <1>1, <1>2, <1>3 DEF OpSound, Grows, Ordinal

\* One iteration of the link walk, started on a story that shows the wanted
\* ordinal, neither loses the chapter nor moves to a story showing another.
LEMMA ResolveSound ==
  ASSUME IInv, NEW o \in Op, NEW k \in Story,
         o.key \in Story, stories[o.key].exists,
         o.ord \in 0 .. stories[o.key].latest,
         stories[k].exists, o.ord <= stories[k].latest,
         o.depth < MaxLinkDepth, o.pc \in {"idle", "hop"},
         text[o.key][o.ord] = text[k][o.ord]
  PROVE  Resolve(o, k) \in Op /\ OpSound(Resolve(o, k), stories, text, blobs)
<1> USE StoreAssumption DEF StoreAssumption
<1>1. stories[k] \in StoryRow /\ stories[o.key] \in StoryRow
  BY DEF IInv, TypeOK
<1>2. /\ o.ord \in Int /\ stories[k].latest \in Int /\ stories[k].fork \in Int
      /\ o.ord \in Ordinal
      /\ o.depth \in 0 .. MaxLinkDepth
  BY <1>1 DEF Op, StoryRow, Ordinal
<1>3. CASE stories[k].base = NoStory \/ o.ord > stories[k].fork
  <2>1. Resolve(o, k) = [o EXCEPT !.pc = "fetch", !.cur = k]
    BY <1>2, <1>3 DEF Resolve
  <2>2. stories[k].fork < o.ord
    BY <1>2, <1>3 DEF IInv, RowSound
  <2>3. QED
    BY <2>1, <2>2, <1>2 DEF Op, PC, OpSound
<1>4. CASE stories[k].base # NoStory /\ o.ord <= stories[k].fork
  <2>1. /\ stories[k].base \in Story
        /\ stories[stories[k].base].exists
        /\ stories[k].fork <= stories[stories[k].base].latest
    BY <1>1, <1>4 DEF IInv, LinkSound, StoryRow
  <2>2. stories[stories[k].base].latest \in Int
    BY <2>1 DEF IInv, TypeOK, StoryRow
  <2>3. text[k][o.ord] = text[stories[k].base][o.ord]
    BY <1>2, <1>4 DEF IInv, TextIsStored
  <2>4. CASE o.depth + 1 = MaxLinkDepth
    <3>1. Resolve(o, k) = [o EXCEPT !.pc = "toodeep"]
      BY <1>2, <1>4, <2>4 DEF Resolve
    <3>2. QED
      BY <3>1 DEF Op, PC, OpSound
  <2>5. CASE o.depth + 1 # MaxLinkDepth
    <3>1. Resolve(o, k) = [o EXCEPT !.pc = "hop", !.cur = stories[k].base,
                                    !.depth = @ + 1]
      BY <1>2, <1>4, <2>5 DEF Resolve
    <3> DEFINE b == stories[k].base
               r == [o EXCEPT !.pc = "hop", !.cur = b, !.depth = @ + 1]
    <3>2. /\ r.pc = "hop" /\ r.key = o.key /\ r.cur = b
          /\ r.ord = o.ord /\ r.body = o.body /\ r.depth = o.depth + 1
      BY DEF Op
    <3>3. r.depth \in 0 .. MaxLinkDepth /\ r.depth < MaxLinkDepth
      BY <3>2, <1>2, <2>5
    <3>4. r \in Op
      BY <3>3, <2>1 DEF Op, PC
    <3>5. o.ord <= stories[b].latest
      BY <1>2, <1>4, <2>1, <2>2
    <3>6. text[o.key][o.ord] = text[b][o.ord]
      BY <2>3
    <3> HIDE DEF r
    <3>7. OpSound(r, stories, text, blobs)
      BY <3>2, <3>3, <3>5, <3>6, <2>1 DEF OpSound
    <3>8. QED
      BY <3>1, <3>4, <3>7 DEF r
  <2>6. QED
    BY <2>4, <2>5
<1>5. QED
  BY <1>2, <1>3, <1>4

-----------------------------------------------------------------------------
(* Steps                                                                   *)

\* A step that leaves the rows, chapters, blobs and text alone only has to
\* justify the new operation of its client.
LEMMA OpOnlyStep ==
  ASSUME IInv, NEW c \in Client, NEW r \in Op,
         OpSound(r, stories, text, blobs), Become(c, r),
         UNCHANGED <<stories, chapters, blobs, text>>
  PROVE  IInv' /\ Grows
<1>1. TypeOK'
  BY DEF IInv, TypeOK, Become
<1>2. \A d \in Client : op'[d] = IF d = c THEN r ELSE op[d]
  BY DEF IInv, TypeOK, Become
<1>3. \A d \in Client : OpSound(op'[d], stories', text', blobs')
  BY <1>2 DEF IInv
<1>4. (Contiguous /\ LinkSound /\ TextIsStored /\ BlobBeforeRow)'
  BY DEF IInv, Contiguous, LinkSound, TextIsStored, BlobBeforeRow
<1>5. \A k \in Story : RowSound(k)'
  BY DEF IInv, RowSound
<1>6. Grows
  BY DEF Grows, IInv, TypeOK, StoryRow
<1>7. QED
  BY <1>1, <1>3, <1>4, <1>5, <1>6 DEF IInv

\* The operations of all clients stay sound when the store grows and client c
\* turns to a sound operation.
LEMMA OpsAfterGrowth ==
  ASSUME IInv, TypeOK', Grows, NEW c \in Client, NEW r \in Op,
         Become(c, r), OpSound(r, stories', text', blobs')
  PROVE  \A d \in Client : OpSound(op'[d], stories', text', blobs')
<1>1. \A d \in Client : op[d] \in Op /\ op'[d] = IF d = c THEN r ELSE op[d]
  BY DEF IInv, TypeOK, Become
<1>2. \A d \in Client : OpSound(op[d], stories, text, blobs)
  BY DEF IInv
<1>3. \A d \in Client : OpSound(op[d], stories', text', blobs')
  BY <1>1, <1>2, OpSoundStable DEF IInv
<1>4. QED
  BY <1>1, <1>3

LEMMA IdleSound ==
  Idle \in Op /\ \A rows, log, saved : OpSound(Idle, rows, log, saved)
  BY StoreAssumption DEF Idle, Doing, Op, PC, OpSound, StoreAssumption

LEMMA WritingSound ==
  ASSUME NEW k \in Story, NEW o \in Ordinal, NEW b \in Body,
         NEW rows, NEW log, NEW saved
  PROVE  Writing(k, o, b) \in Op /\ OpSound(Writing(k, o, b), rows, log, saved)
<1> DEFINE w == Writing(k, o, b)
           step == IF b \in BigBody THEN "blob" ELSE "append"
<1>1. w = [pc |-> step, key |-> k, cur |-> NoStory, ord |-> o, body |-> b,
           depth |-> 0]
  BY DEF Writing, Doing
<1>2. w \in Op
  <2>1. step \in PC
    BY DEF PC
  <2>2. o \in -1 .. MaxOrdinal /\ 0 \in 0 .. MaxLinkDepth
    BY StoreAssumption DEF StoreAssumption, Ordinal
  <2> HIDE DEF step
  <2>3. QED
    BY <1>1, <2>1, <2>2 DEF Op
<1> HIDE DEF w
<1>3. OpSound(w, rows, log, saved)
  BY <1>1 DEF OpSound
<1>4. QED
  BY <1>2, <1>3 DEF w

-----------------------------------------------------------------------------
(* Actions that only change the operation of their client                  *)

LEMMA SaveChapterStep ==
  ASSUME IInv, NEW c \in Client, NEW k \in Story, NEW sel \in -1 .. MaxOrdinal,
         NEW b \in Body, SaveChapter(c, k, sel, b)
  PROVE  IInv' /\ Grows
<1> DEFINE o == IF sel < 0 THEN stories[k].count ELSE sel
<1>1. o \in Ordinal /\ Become(c, Writing(k, o, b))
      /\ UNCHANGED <<stories, chapters, blobs, text>>
  BY DEF SaveChapter
<1> HIDE DEF o
<1>2. QED
  BY <1>1, WritingSound, OpOnlyStep

LEMMA CloneStoryStep ==
  ASSUME IInv, NEW c \in Client, NEW src \in Story, NEW dest \in Story,
         NEW sel \in -1 .. MaxOrdinal, NEW b \in Body \cup {NoBody},
         CloneStory(c, src, dest, sel, b)
  PROVE  IInv' /\ Grows
<1> DEFINE last == IF sel < 0 THEN stories[src].latest ELSE sel
           r == Doing("link", dest, src, last, b)
<1>1. /\ last \in 0 .. stories[src].latest
      /\ stories[src].exists
      /\ b # NoBody => last + 1 \in Ordinal
      /\ Become(c, r)
      /\ UNCHANGED <<stories, chapters, blobs, text>>
  BY DEF CloneStory, Live
<1>2. stories[src].latest \in -1 .. MaxOrdinal
  BY DEF IInv, TypeOK, StoryRow
<1>3. last \in -1 .. MaxOrdinal
  BY <1>1, <1>2, StoreAssumption DEF StoreAssumption
<1> HIDE DEF last
<1>4. r = [pc |-> "link", key |-> dest, cur |-> src, ord |-> last, body |-> b,
           depth |-> 0]
  BY DEF Doing
<1>5. r \in Op
  BY <1>3, <1>4, StoreAssumption DEF Op, PC, StoreAssumption
<1>6. OpSound(r, stories, text, blobs)
  BY <1>1, <1>4 DEF OpSound
<1>7. QED
  BY <1>1, <1>5, <1>6, OpOnlyStep

LEMMA MarkStoryDeletedStep ==
  ASSUME IInv, NEW c \in Client, NEW k \in Story, MarkStoryDeleted(c, k)
  PROVE  IInv' /\ Grows
<1> DEFINE step == IF stories[k].finalized THEN "tombstone" ELSE "publish"
           r == Doing(step, k, NoStory, -1, NoBody)
<1>1. Become(c, r) /\ UNCHANGED <<stories, chapters, blobs, text>>
  BY DEF MarkStoryDeleted
<1>2. step \in {"tombstone", "publish"}
  OBVIOUS
<1> HIDE DEF step
<1>3. r = [pc |-> step, key |-> k, cur |-> NoStory, ord |-> -1,
           body |-> NoBody, depth |-> 0]
  BY DEF Doing
<1>4. r \in Op
  BY <1>2, <1>3, StoreAssumption DEF Op, PC, StoreAssumption
<1>5. OpSound(r, stories, text, blobs)
  BY <1>2, <1>3 DEF OpSound
<1>6. QED
  BY <1>1, <1>4, <1>5, OpOnlyStep

LEMMA ReadChapterStep ==
  ASSUME IInv, NEW c \in Client, NEW k \in Story, NEW sel \in -2 .. MaxOrdinal,
         ReadChapter(c, k, sel)
  PROVE  IInv' /\ Grows
<1> DEFINE o == IF sel < 0 THEN stories[k].latest + sel + 1 ELSE sel
           r == Doing("idle", k, NoStory, o, NoBody)
<1>1. /\ stories[k].exists
      /\ o \in 0 .. stories[k].latest
      /\ Become(c, Resolve(r, k))
      /\ UNCHANGED <<stories, chapters, blobs, text>>
  BY DEF ReadChapter, Live
<1>2. stories[k].latest \in -1 .. MaxOrdinal
  BY DEF IInv, TypeOK, StoryRow
<1> HIDE DEF o
<1>3. r = [pc |-> "idle", key |-> k, cur |-> NoStory, ord |-> o,
           body |-> NoBody, depth |-> 0]
  BY DEF Doing
<1>4. o \in -1 .. MaxOrdinal /\ o <= stories[k].latest
  BY <1>1, <1>2, StoreAssumption DEF StoreAssumption
<1>5. r \in Op
  BY <1>3, <1>4, StoreAssumption DEF Op, PC, StoreAssumption
<1>6. r.depth < MaxLinkDepth /\ r.pc = "idle" /\ r.key = k /\ r.ord = o
  BY <1>3, StoreAssumption DEF StoreAssumption
<1> HIDE DEF r
<1>7. Resolve(r, k) \in Op /\ OpSound(Resolve(r, k), stories, text, blobs)
  BY <1>1, <1>4, <1>5, <1>6, ResolveSound
<1>8. QED
  BY <1>1, <1>7, OpOnlyStep

LEMMA FollowLinkStep ==
  ASSUME IInv, NEW c \in Client, FollowLink(c)
  PROVE  IInv' /\ Grows
<1> DEFINE r == op[c]
           k == op[c].cur
<1>1. r \in Op /\ OpSound(r, stories, text, blobs) /\ r.pc = "hop"
  BY DEF IInv, TypeOK, FollowLink
<1>2. /\ k \in Story /\ stories[k].exists /\ r.ord <= stories[k].latest
      /\ r.key \in Story /\ stories[r.key].exists
      /\ r.ord \in 0 .. stories[r.key].latest
      /\ text[r.key][r.ord] = text[k][r.ord]
      /\ r.depth < MaxLinkDepth
  BY <1>1 DEF OpSound
<1>3. Become(c, Resolve(r, k)) /\ UNCHANGED <<stories, chapters, blobs, text>>
  BY <1>2 DEF FollowLink
<1> HIDE DEF r, k
<1>4. Resolve(r, k) \in Op /\ OpSound(Resolve(r, k), stories, text, blobs)
  BY <1>1, <1>2, ResolveSound
<1>5. QED
  BY <1>3, <1>4, OpOnlyStep

LEMMA FetchChapterStep ==
  ASSUME IInv, NEW c \in Client, FetchChapter(c)
  PROVE  IInv' /\ Grows
<1> DEFINE r == op[c]
           b == chapters[op[c].cur][op[c].ord]
<1>1. r \in Op /\ OpSound(r, stories, text, blobs) /\ r.pc = "fetch"
  BY DEF IInv, TypeOK, FetchChapter
<1>2. /\ r.cur \in Story /\ stories[r.cur].exists
      /\ r.ord <= stories[r.cur].latest /\ stories[r.cur].fork < r.ord
      /\ r.key \in Story /\ stories[r.key].exists
      /\ r.ord \in 0 .. stories[r.key].latest
      /\ text[r.key][r.ord] = text[r.cur][r.ord]
  BY <1>1 DEF OpSound
<1>3. stories[r.key] \in StoryRow /\ stories[r.cur] \in StoryRow
  BY <1>2 DEF IInv, TypeOK
<1>4. r.ord \in Ordinal
  BY <1>2, <1>3, StoreAssumption DEF StoryRow, Ordinal, StoreAssumption
<1>5. b # NoBody
  BY <1>2, <1>4 DEF IInv, Contiguous
<1>6. text[r.cur][r.ord] = b
  BY <1>2, <1>3, <1>4 DEF IInv, TextIsStored, StoryRow, Ordinal
<1>7. b \in Body
  BY <1>2, <1>4, <1>5 DEF IInv, TypeOK
<1>8. /\ Become(c, [r EXCEPT !.pc = "found", !.body = b])
      /\ UNCHANGED <<stories, chapters, blobs, text>>
  BY <1>5 DEF FetchChapter
<1> HIDE DEF r, b
<1>9. [r EXCEPT !.pc = "found", !.body = b] \in Op
  BY <1>1, <1>7 DEF Op, PC
<1>10. OpSound([r EXCEPT !.pc = "found", !.body = b], stories, text, blobs)
  BY <1>1, <1>2, <1>5, <1>6, <1>7 DEF OpSound, Op
<1>11. QED
  BY <1>8, <1>9, <1>10, OpOnlyStep

LEMMA EndOperationStep ==
  ASSUME IInv, NEW c \in Client,
         RejectAppend(c) \/ RejectLink(c) \/ Return(c) \/ Crash(c)
  PROVE  IInv' /\ Grows
<1>1. Become(c, Idle) /\ UNCHANGED <<stories, chapters, blobs, text>>
  BY DEF RejectAppend, RejectLink, Return, Crash
<1>2. QED
  BY <1>1, IdleSound, OpOnlyStep

-----------------------------------------------------------------------------
(* Actions that change the store                                           *)

LEMMA RowTypes ==
  ASSUME TypeOK, NEW k \in Story
  PROVE  /\ stories[k] \in StoryRow
         /\ stories[k].exists \in BOOLEAN
         /\ stories[k].latest \in -1 .. MaxOrdinal
         /\ stories[k].count \in 0 .. MaxOrdinal + 1
         /\ stories[k].base \in Story \cup {NoStory}
         /\ stories[k].fork \in -1 .. MaxOrdinal
  BY DEF TypeOK, StoryRow

\* A step that only raises the finalized or deleted flag of a story.
FlagsOnly ==
  /\ UNCHANGED <<chapters, blobs, text>>
  /\ \A k \in Story :
       /\ stories'[k].exists = stories[k].exists
       /\ stories'[k].latest = stories[k].latest
       /\ stories'[k].count = stories[k].count
       /\ stories'[k].base = stories[k].base
       /\ stories'[k].fork = stories[k].fork
       /\ stories[k].finalized => stories'[k].finalized
       /\ stories'[k].deleted => stories'[k].finalized
       /\ ~stories[k].exists => stories'[k] = stories[k]

LEMMA FlagsStep ==
  ASSUME IInv, TypeOK', FlagsOnly
  PROVE  /\ Grows
         /\ (Contiguous /\ LinkSound /\ TextIsStored /\ BlobBeforeRow)'
         /\ \A k \in Story : RowSound(k)'
<1>1. Grows
  BY RowTypes DEF FlagsOnly, Grows, IInv
<1>2. (Contiguous /\ LinkSound /\ TextIsStored /\ BlobBeforeRow)'
  BY RowTypes DEF FlagsOnly, IInv, Contiguous, LinkSound, TextIsStored,
                  BlobBeforeRow
<1>3. \A k \in Story : RowSound(k)'
  BY DEF FlagsOnly, IInv, RowSound
<1>4. QED
  BY <1>1, <1>2, <1>3

\* FinalizeStory, in a deletion or on its own, is such a step.
LEMMA FinalizedOnly ==
  ASSUME IInv, NEW k \in Story, Live(k),
         stories' = [stories EXCEPT ![k].finalized = TRUE],
         UNCHANGED <<chapters, blobs, text>>
  PROVE  stories' \in [Story -> StoryRow] /\ FlagsOnly
<1>1. TypeOK /\ stories[k] \in StoryRow
  BY DEF IInv, TypeOK
<1>2. [stories[k] EXCEPT !.finalized = TRUE] \in StoryRow
  BY ONLY <1>1 DEF StoryRow
<1>3. stories' \in [Story -> StoryRow]
  BY <1>1, <1>2 DEF TypeOK
<1>4. /\ stories'[k] = [stories[k] EXCEPT !.finalized = TRUE]
      /\ \A j \in Story \ {k} : stories'[j] = stories[j]
  BY <1>1 DEF TypeOK
<1>5. \A j \in Story : stories[j].deleted => stories[j].finalized
  BY DEF IInv, RowSound
<1>6. FlagsOnly
  BY <1>1, <1>4, <1>5 DEF FlagsOnly, Live, StoryRow
<1>7. QED
  BY <1>3, <1>6

LEMMA FinalizeStep ==
  ASSUME IInv, NEW k \in Story, Finalize(k)
  PROVE  IInv' /\ Grows
<1>1. stories' = [stories EXCEPT ![k].finalized = TRUE]
      /\ UNCHANGED <<chapters, blobs, op, text>>
  BY DEF Finalize
<1>2. stories' \in [Story -> StoryRow] /\ FlagsOnly
  BY <1>1, FinalizedOnly DEF Finalize
<1>3. TypeOK'
  BY <1>1, <1>2 DEF IInv, TypeOK
<1>4. \A d \in Client : OpSound(op'[d], stories', text', blobs')
  BY <1>1, <1>2, <1>3, FlagsStep, OpSoundStable DEF IInv, TypeOK
<1>5. QED
  BY <1>2, <1>3, <1>4, FlagsStep DEF IInv

LEMMA PublishForDeleteStep ==
  ASSUME IInv, NEW c \in Client, PublishForDelete(c)
  PROVE  IInv' /\ Grows
<1> DEFINE k == op[c].key
<1>1. /\ op[c] \in Op /\ OpSound(op[c], stories, text, blobs)
      /\ op[c].pc = "publish" /\ UNCHANGED <<chapters, blobs, text>>
  BY DEF IInv, TypeOK, PublishForDelete
<1>2. CASE ~Live(k)
  BY <1>1, <1>2, IdleSound, OpOnlyStep DEF PublishForDelete
<1>3. CASE Live(k)
  <2> DEFINE r == [op[c] EXCEPT !.pc = "tombstone"]
  <2>1. /\ stories' = [stories EXCEPT ![k].finalized = TRUE]
        /\ Become(c, r)
        /\ k \in Story
    BY <1>1, <1>3 DEF PublishForDelete, OpSound
  <2>2. r \in Op
    BY <1>1 DEF Op, PC
  <2>3. stories' \in [Story -> StoryRow] /\ FlagsOnly
    BY <1>1, <1>3, <2>1, FinalizedOnly
  <2>4. TypeOK'
    BY <1>1, <2>1, <2>2, <2>3 DEF IInv, TypeOK, Become
  <2>5. OpSound(r, stories', text', blobs')
    BY <1>1, <2>1 DEF OpSound, Op
  <2>6. \A d \in Client : OpSound(op'[d], stories', text', blobs')
    BY <2>1, <2>2, <2>3, <2>4, <2>5, FlagsStep, OpsAfterGrowth
  <2>7. QED
    BY <2>3, <2>4, <2>6, FlagsStep DEF IInv
<1>4. QED
  BY <1>2, <1>3

LEMMA TombstoneStoryStep ==
  ASSUME IInv, NEW c \in Client, TombstoneStory(c)
  PROVE  IInv' /\ Grows
<1> DEFINE k == op[c].key
<1>1. /\ OpSound(op[c], stories, text, blobs) /\ Become(c, Idle)
      /\ op[c].pc = "tombstone" /\ UNCHANGED <<chapters, blobs, text>>
  BY DEF IInv, TombstoneStory
<1>2. CASE ~(Live(k) /\ stories[k].finalized)
  BY <1>1, <1>2, IdleSound, OpOnlyStep DEF TombstoneStory
<1>3. CASE Live(k) /\ stories[k].finalized
  <2>1. stories' = [stories EXCEPT ![k].deleted = TRUE] /\ k \in Story
    BY <1>1, <1>3 DEF TombstoneStory, OpSound
  <2> HIDE DEF k
  <2>2. TypeOK'
    <3>1. TypeOK /\ stories[k] \in StoryRow
      BY <2>1 DEF IInv, TypeOK
    <3>2. [stories[k] EXCEPT !.deleted = TRUE] \in StoryRow
      BY ONLY <3>1 DEF StoryRow
    <3>3. stories' \in [Story -> StoryRow]
      BY <2>1, <3>1, <3>2 DEF TypeOK
    <3>4. op' \in [Client -> Op]
      BY <1>1, <3>1, IdleSound DEF TypeOK, Become
    <3>5. QED
      BY <1>1, <3>1, <3>3, <3>4 DEF TypeOK
  <2>3. FlagsOnly
    <3>1. TypeOK /\ stories[k] \in StoryRow
      BY <2>1 DEF IInv, TypeOK
    <3>2. /\ stories'[k] = [stories[k] EXCEPT !.deleted = TRUE]
          /\ \A j \in Story \ {k} : stories'[j] = stories[j]
      BY <2>1, <3>1 DEF TypeOK
    <3>3. \A j \in Story : stories[j].deleted => stories[j].finalized
      BY DEF IInv, RowSound
    <3>4. QED
      BY <1>1, <1>3, <3>1, <3>2, <3>3 DEF FlagsOnly, Live, StoryRow
  <2>4. \A d \in Client : OpSound(op'[d], stories', text', blobs')
    BY <1>1, <2>2, <2>3, IdleSound, FlagsStep, OpsAfterGrowth
  <2>5. QED
    BY <2>2, <2>3, <2>4, FlagsStep DEF IInv
<1>4. QED
  BY <1>2, <1>3

LEMMA SaveBlobStep ==
  ASSUME IInv, NEW c \in Client, SaveBlob(c)
  PROVE  IInv' /\ Grows
<1> DEFINE r == [op[c] EXCEPT !.pc = "append"]
<1>1. /\ op[c] \in Op /\ OpSound(op[c], stories, text, blobs)
      /\ op[c].pc = "blob" /\ Become(c, r)
      /\ blobs' = blobs \cup {op[c].body}
      /\ UNCHANGED <<stories, chapters, text>>
  BY DEF IInv, TypeOK, SaveBlob
<1>2. r \in Op
  BY <1>1 DEF Op, PC
<1>3. op[c].body \in BigBody
  BY <1>1 DEF OpSound
<1>4. TypeOK'
  BY <1>1, <1>2, <1>3 DEF IInv, TypeOK, Become
<1>5. Grows
  BY <1>1, RowTypes DEF Grows, IInv
<1>6. (Contiguous /\ LinkSound /\ TextIsStored /\ BlobBeforeRow)'
  BY <1>1 DEF IInv, Contiguous, LinkSound, TextIsStored, BlobBeforeRow
<1>7. \A k \in Story : RowSound(k)'
  BY <1>1 DEF IInv, RowSound
<1>8. OpSound(r, stories', text', blobs')
  BY <1>1 DEF OpSound, Op
<1>9. \A d \in Client : OpSound(op'[d], stories', text', blobs')
  BY <1>1, <1>2, <1>4, <1>5, <1>8, OpsAfterGrowth
<1>10. QED
  BY <1>4, <1>5, <1>6, <1>7, <1>9 DEF IInv

LEMMA CreateStoryStep ==
  ASSUME IInv, NEW c \in Client, NEW k \in Story, NEW b \in Body,
         CreateStory(c, k, b)
  PROVE  IInv' /\ Grows
<1> USE StoreAssumption DEF StoreAssumption
<1> DEFINE w == Writing(k, 0, b)
<1>1. /\ stories' = [stories EXCEPT ![k] = EmptyRow]
      /\ Become(c, w)
      /\ ~stories[k].exists
      /\ UNCHANGED <<chapters, blobs, text>>
  BY DEF CreateStory
<1>2. w \in Op /\ OpSound(w, stories', text', blobs')
  BY WritingSound DEF Ordinal
<1> HIDE DEF w
<1>3. EmptyRow \in StoryRow /\ EmptyRow.exists /\ EmptyRow.latest = -1
      /\ EmptyRow.count = 0 /\ EmptyRow.base = NoStory /\ EmptyRow.fork = -1
      /\ ~EmptyRow.deleted /\ EmptyRow.finalized = FALSE
  BY DEF EmptyRow, StoryRow
<1>4. stories[k].latest = -1 /\ stories[k].base = NoStory
      /\ stories[k].fork = -1 /\ ~stories[k].exists
  BY <1>1 DEF IInv, RowSound, NoRow
<1>5. TypeOK'
  BY <1>1, <1>2, <1>3 DEF IInv, TypeOK, Become
<1>6. \A j \in Story : stories'[j] = IF j = k THEN EmptyRow ELSE stories[j]
  BY <1>1 DEF IInv, TypeOK
<1> HIDE DEF StoreAssumption
<1>7. Grows
  BY <1>1, <1>6, RowTypes DEF Grows, IInv
<1>8. Contiguous'
  BY <1>1, <1>3, <1>4, <1>6 DEF IInv, Contiguous
<1>9. LinkSound'
  <2> SUFFICES ASSUME NEW j \in Story, stories'[j].base # NoStory
               PROVE  /\ stories'[j].exists
                      /\ stories'[j].base # j
                      /\ stories'[stories'[j].base].exists
                      /\ stories'[j].fork \in 0 .. stories'[j].latest
                      /\ stories'[j].fork <= stories'[stories'[j].base].latest
    BY DEF LinkSound
  <2>1. stories'[j] = stories[j] /\ stories[j].base \in Story
    BY <1>3, <1>6, RowTypes DEF IInv
  <2>2. stories[stories[j].base].exists
    BY <2>1 DEF IInv, LinkSound
  <2>3. stories[j].base # k
    BY <2>2, <1>4
  <2>4. QED
    BY <2>1, <2>3, <1>6 DEF IInv, LinkSound
<1>10. TextIsStored'
  BY <1>1, <1>3, <1>4, <1>6 DEF IInv, TextIsStored
<1>11. BlobBeforeRow'
  BY <1>1 DEF IInv, BlobBeforeRow
<1>12. \A j \in Story : RowSound(j)'
  BY <1>3, <1>6 DEF IInv, RowSound
<1>13. \A d \in Client : OpSound(op'[d], stories', text', blobs')
  BY <1>1, <1>2, <1>5, <1>7, OpsAfterGrowth
<1>14. QED
  BY <1>5, <1>7, <1>8, <1>9, <1>10, <1>11, <1>12, <1>13 DEF IInv

\* What the row read back after a link transaction says.
LEMMA LinkedRowFields ==
  ASSUME NEW src \in Story, NEW n \in Ordinal
  PROVE  /\ LinkedRow(src, n) \in StoryRow /\ LinkedRow(src, n).exists
         /\ LinkedRow(src, n).latest = n /\ LinkedRow(src, n).count = n + 1
         /\ LinkedRow(src, n).base = src /\ LinkedRow(src, n).fork = n
         /\ ~LinkedRow(src, n).deleted
  BY StoreAssumption DEF StoreAssumption, LinkedRow, StoryRow, Ordinal

LEMMA CreateLinkedStoryStep ==
  ASSUME IInv, NEW c \in Client, CreateLinkedStory(c)
  PROVE  IInv' /\ Grows
<1> USE StoreAssumption DEF StoreAssumption
<1> DEFINE dest == op[c].key
           src == op[c].cur
           fork == op[c].ord
           row == LinkedRow(src, fork)
           r == IF op[c].body = NoBody
                THEN Idle ELSE Writing(dest, fork + 1, op[c].body)
           copy == [o \in Ordinal |-> IF o <= fork THEN text[src][o] ELSE NoBody]
<1>1. /\ op[c] \in Op /\ OpSound(op[c], stories, text, blobs)
      /\ op[c].pc = "link"
      /\ dest # src /\ ~stories[dest].exists
      /\ stories' = [stories EXCEPT ![dest] = row]
      /\ text' = [text EXCEPT ![dest] = copy]
      /\ Become(c, r)
      /\ UNCHANGED <<chapters, blobs>>
  BY DEF IInv, TypeOK, CreateLinkedStory
<1>2. /\ dest \in Story /\ src \in Story /\ stories[src].exists
      /\ fork \in 0 .. stories[src].latest
      /\ op[c].body # NoBody => fork + 1 \in Ordinal
  BY <1>1 DEF OpSound
<1>3. fork \in Ordinal
  BY <1>2, RowTypes DEF IInv, Ordinal
<1>4. row \in StoryRow /\ row.exists /\ row.latest = fork
      /\ row.count = fork + 1 /\ row.base = src /\ row.fork = fork /\ ~row.deleted
  BY <1>2, <1>3, LinkedRowFields
<1>5. r \in Op /\ OpSound(r, stories', text', blobs')
  <2>1. CASE op[c].body = NoBody
    BY <2>1, IdleSound
  <2>2. CASE op[c].body # NoBody
    <3>1. op[c].body \in Body /\ fork + 1 \in Ordinal
      BY <1>1, <1>2, <2>2 DEF Op
    <3>2. QED
      BY <3>1, <1>2, <2>2, WritingSound
  <2>3. QED
    BY <2>1, <2>2
<1>6. copy \in [Ordinal -> Body \cup {NoBody}]
  BY <1>2 DEF IInv, TypeOK
<1>7. stories[dest].latest = -1 /\ stories[dest].base = NoStory
      /\ stories[dest].fork = -1 /\ ~stories[dest].exists
  BY <1>1, <1>2 DEF IInv, RowSound, NoRow
<1> HIDE DEF r, row, dest, src, fork, copy
<1>8. TypeOK'
  BY <1>1, <1>2, <1>4, <1>5, <1>6 DEF IInv, TypeOK, Become
<1>9. \A j \in Story : stories'[j] = IF j = dest THEN row ELSE stories[j]
  BY <1>1, <1>2 DEF IInv, TypeOK
<1>10. \A j \in Story : text'[j] = IF j = dest THEN copy ELSE text[j]
  BY <1>1, <1>2 DEF IInv, TypeOK
<1>11. \A o \in Ordinal : copy[o] = IF o <= fork THEN text[src][o] ELSE NoBody
  BY DEF copy
<1> HIDE DEF StoreAssumption
<1>12. Grows
  BY <1>1, <1>7, <1>9, <1>10, RowTypes DEF Grows, IInv
<1>13. Contiguous'
  <2>1. \A o \in Ordinal : chapters'[dest][o] = NoBody
    BY <1>1, <1>2, <1>3, <1>7 DEF IInv, Contiguous, Ordinal
  <2>2. QED
    BY <1>1, <1>3, <1>4, <1>9, <2>1 DEF IInv, Contiguous, Ordinal
<1>14. LinkSound'
  <2> SUFFICES ASSUME NEW j \in Story, stories'[j].base # NoStory
               PROVE  /\ stories'[j].exists
                      /\ stories'[j].base # j
                      /\ stories'[stories'[j].base].exists
                      /\ stories'[j].fork \in 0 .. stories'[j].latest
                      /\ stories'[j].fork <= stories'[stories'[j].base].latest
    BY DEF LinkSound
  <2>1. CASE j = dest
    BY <2>1, <1>1, <1>2, <1>3, <1>4, <1>9, RowTypes DEF Ordinal, IInv, dest, src, fork
  <2>2. CASE j # dest
    <3>1. stories'[j] = stories[j] /\ stories[j].base \in Story
      BY <2>2, <1>9, RowTypes DEF IInv
    <3>2. stories[stories[j].base].exists
      BY <3>1 DEF IInv, LinkSound
    <3>3. stories[j].base # dest
      BY <3>2, <1>7
    <3>4. QED
      BY <3>1, <3>3, <1>9 DEF IInv, LinkSound
  <2>3. QED
    BY <2>1, <2>2
<1>15. TextIsStored'
  <2> SUFFICES ASSUME NEW j \in Story, NEW o \in Ordinal
               PROVE  text'[j][o] =
                        IF stories'[j].base # NoStory /\ o <= stories'[j].fork
                        THEN text'[stories'[j].base][o] ELSE chapters'[j][o]
    BY DEF TextIsStored
  <2>1. CASE j = dest
    <3>1. chapters'[dest][o] = NoBody
      BY <1>1, <1>2, <1>3, <1>7 DEF IInv, Contiguous, Ordinal
    <3>2. src # NoStory /\ src # dest
      BY <1>1, <1>2, StoreAssumption DEF StoreAssumption, src, dest
    <3>3. QED
      BY <2>1, <3>1, <3>2, <1>2, <1>4, <1>9, <1>10, <1>11 DEF src, dest, fork
  <2>2. CASE j # dest
    <3>1. stories'[j] = stories[j] /\ text'[j] = text[j]
      BY <2>2, <1>9, <1>10
    <3>2. stories[j].base # NoStory => stories[j].base # dest
                                       /\ stories[j].base \in Story
      BY <1>7, RowTypes DEF IInv, LinkSound
    <3>3. QED
      BY <3>1, <3>2, <1>1, <1>10 DEF IInv, TextIsStored
  <2>3. QED
    BY <2>1, <2>2
<1>16. BlobBeforeRow'
  BY <1>1 DEF IInv, BlobBeforeRow
<1>17. \A j \in Story : RowSound(j)'
  BY <1>2, <1>4, <1>9, StoreAssumption DEF IInv, RowSound, StoreAssumption, src
<1>18. \A d \in Client : OpSound(op'[d], stories', text', blobs')
  BY <1>1, <1>5, <1>8, <1>12, OpsAfterGrowth
<1>19. QED
  BY <1>8, <1>12, <1>13, <1>14, <1>15, <1>16, <1>17, <1>18 DEF IInv

LEMMA AppendChapterStep ==
  ASSUME IInv, NEW c \in Client, AppendChapter(c)
  PROVE  IInv' /\ Grows
<1> USE StoreAssumption DEF StoreAssumption
<1> DEFINE k == op[c].key
           n == op[c].ord
           b == op[c].body
           row == [stories[k] EXCEPT !.latest = n, !.count = n + 1]
<1>1. /\ OpSound(op[c], stories, text, blobs) /\ op[c].pc = "append"
      /\ Appendable(k, n)
      /\ chapters' = [chapters EXCEPT ![k][n] = b]
      /\ stories' = [stories EXCEPT ![k] = row]
      /\ text' = [text EXCEPT ![k][n] = b]
      /\ Become(c, Idle)
      /\ blobs' = blobs
  BY DEF IInv, AppendChapter
<1>2. /\ k \in Story /\ n \in Ordinal /\ b \in Body
      /\ b \in BigBody => b \in blobs
  BY <1>1 DEF OpSound
<1>3. /\ stories[k].exists /\ ~stories[k].deleted /\ ~stories[k].finalized
      /\ n = stories[k].latest + 1
  BY <1>1 DEF Appendable, Live
<1> HIDE DEF k, n, b
<1>4. b # NoBody
  BY <1>2
<1> DEFINE counted == n + 1
<1>a. n \in -1 .. MaxOrdinal /\ counted \in 0 .. MaxOrdinal + 1
  BY <1>2 DEF Ordinal
<1>b. counted = n + 1
  OBVIOUS
<1> HIDE DEF counted
<1>c. /\ row.exists = stories[k].exists /\ row.latest = n /\ row.count = counted
      /\ row.base = stories[k].base /\ row.fork = stories[k].fork
      /\ row.deleted = stories[k].deleted /\ row.finalized = stories[k].finalized
      /\ row \in StoryRow
  BY <1>a, <1>b, <1>2 DEF IInv, TypeOK, StoryRow
<1> HIDE DEF row
<1>5. TypeOK'
  <2>1. stories' \in [Story -> StoryRow]
    BY <1>1, <1>2, <1>c DEF IInv, TypeOK
  <2>2. chapters' \in [Story -> [Ordinal -> Body \cup {NoBody}]]
        /\ text' \in [Story -> [Ordinal -> Body \cup {NoBody}]]
    BY <1>1, <1>2 DEF IInv, TypeOK
  <2>3. QED
    BY <2>1, <2>2, <1>1, IdleSound DEF IInv, TypeOK, Become
<1>6. \A j \in Story : j # k => stories'[j] = stories[j]
  BY <1>1, <1>2 DEF IInv, TypeOK
<1>7. /\ stories'[k].exists /\ stories'[k].latest = n
      /\ stories'[k].count = n + 1
      /\ stories'[k].base = stories[k].base
      /\ stories'[k].fork = stories[k].fork
      /\ ~stories'[k].deleted
  BY <1>1, <1>2, <1>3, <1>b, <1>c DEF IInv, TypeOK
<1>8. \A j \in Story, o \in Ordinal :
        /\ chapters'[j][o] = IF j = k /\ o = n THEN b ELSE chapters[j][o]
        /\ text'[j][o] = IF j = k /\ o = n THEN b ELSE text[j][o]
  BY <1>1, <1>2 DEF IInv, TypeOK
<1>9. stories[k].fork < n /\ n \in Int
  BY <1>2, <1>3, RowTypes DEF IInv, LinkSound, RowSound, Ordinal
<1> HIDE DEF StoreAssumption
<1>10. Grows
  <2> SUFFICES ASSUME NEW j \in Story, stories[j].exists
               PROVE  /\ stories'[j].exists
                      /\ stories'[j].base = stories[j].base
                      /\ stories'[j].fork = stories[j].fork
                      /\ stories'[j].latest >= stories[j].latest
                      /\ \A o \in 0 .. stories[j].latest : text'[j][o] = text[j][o]
    BY <1>1 DEF Grows
  <2>1. stories[j].latest \in -1 .. MaxOrdinal
        /\ 0 .. stories[j].latest \subseteq Ordinal
    BY RowTypes, StoreAssumption DEF IInv, Ordinal, StoreAssumption
  <2>2. CASE j = k
    BY <2>1, <2>2, <1>3, <1>7, <1>8, <1>9
  <2>3. CASE j # k
    BY <2>1, <2>3, <1>6, <1>8
  <2>4. QED
    BY <2>2, <2>3
<1>11. Contiguous'
  <2> SUFFICES ASSUME NEW j \in Story
               PROVE  /\ stories'[j].count = stories'[j].latest + 1
                      /\ \A o \in Ordinal :
                           (chapters'[j][o] # NoBody)
                             <=> (stories'[j].fork < o /\ o <= stories'[j].latest)
    BY DEF Contiguous
  <2>1. CASE j = k
    <3>1. stories[k].latest \in Int /\ stories[k].fork \in Int
      BY <1>2, RowTypes DEF IInv
    <3>2. \A o \in Ordinal : (chapters[k][o] # NoBody)
                               <=> (stories[k].fork < o /\ o <= n - 1)
      BY <1>2, <1>3, <3>1 DEF IInv, Contiguous
    <3>3. QED
      BY <2>1, <1>2, <1>4, <1>7, <1>8, <1>9, <3>1, <3>2 DEF Ordinal
  <2>2. CASE j # k
    BY <2>2, <1>6, <1>8 DEF IInv, Contiguous
  <2>3. QED
    BY <2>1, <2>2
<1>12. LinkSound'
  <2> SUFFICES ASSUME NEW j \in Story, stories'[j].base # NoStory
               PROVE  /\ stories'[j].exists
                      /\ stories'[j].base # j
                      /\ stories'[stories'[j].base].exists
                      /\ stories'[j].fork \in 0 .. stories'[j].latest
                      /\ stories'[j].fork <= stories'[stories'[j].base].latest
    BY DEF LinkSound
  <2>1. /\ stories'[j].base = stories[j].base /\ stories'[j].fork = stories[j].fork
        /\ stories[j].base \in Story
    BY <1>6, <1>7, RowTypes DEF IInv
  <2>2. stories[j].exists /\ stories[stories[j].base].exists
    BY <2>1 DEF IInv, LinkSound
  <2>3. \A i \in Story : stories[i].exists =>
          /\ stories'[i].exists /\ stories'[i].latest >= stories[i].latest
          /\ stories[i].latest \in Int /\ stories'[i].latest \in Int
    BY <1>5, <1>10, RowTypes DEF Grows, IInv, TypeOK, StoryRow
  <2>4. stories[j].fork \in Int
    BY RowTypes DEF IInv
  <2>5. QED
    BY <2>1, <2>2, <2>3, <2>4 DEF IInv, LinkSound
<1>13. TextIsStored'
  <2> SUFFICES ASSUME NEW j \in Story, NEW o \in Ordinal
               PROVE  text'[j][o] =
                        IF stories'[j].base # NoStory /\ o <= stories'[j].fork
                        THEN text'[stories'[j].base][o] ELSE chapters'[j][o]
    BY DEF TextIsStored
  <2>1. /\ stories'[j].base = stories[j].base /\ stories'[j].fork = stories[j].fork
        /\ stories[j].fork \in Int /\ o \in Int
    BY <1>6, <1>7, RowTypes DEF IInv, Ordinal
  <2>2. CASE stories[j].base # NoStory /\ o <= stories[j].fork
    <3>1. stories[j].base \in Story /\ stories[j].fork <= stories[stories[j].base].latest
      BY <2>2, RowTypes DEF IInv, LinkSound
    <3>2. stories[j].base = k => o # n
      BY <3>1, <2>1, <2>2, <1>2, <1>3, RowTypes DEF IInv
    <3>3. stories[j].exists /\ stories[j].fork <= stories[j].latest
      BY <2>2 DEF IInv, LinkSound
    <3>4. j = k => o # n
      BY <2>1, <2>2, <1>9
    <3>5. QED
      BY <3>1, <3>2, <3>4, <2>1, <2>2, <1>8 DEF IInv, TextIsStored
  <2>3. CASE ~(stories[j].base # NoStory /\ o <= stories[j].fork)
    BY <2>1, <2>3, <1>8 DEF IInv, TextIsStored
  <2>4. QED
    BY <2>2, <2>3
<1>14. BlobBeforeRow'
  BY <1>1, <1>2, <1>8 DEF IInv, BlobBeforeRow
<1>15. \A j \in Story : RowSound(j)'
  BY <1>6, <1>7, <1>2 DEF IInv, RowSound
<1>16. \A d \in Client : OpSound(op'[d], stories', text', blobs')
  BY <1>1, <1>5, <1>10, IdleSound, OpsAfterGrowth
<1>17. QED
  BY <1>5, <1>10, <1>11, <1>12, <1>13, <1>14, <1>15, <1>16 DEF IInv

-----------------------------------------------------------------------------
(* The invariant is inductive                                              *)

LEMMA StepIInv ==
  ASSUME IInv, [Next]_vars
  PROVE  IInv' /\ Grows
<1>1. CASE UNCHANGED vars
  <2>1. IInv'
    BY <1>1 DEF IInv, vars, TypeOK, Contiguous, LinkSound, TextIsStored,
                BlobBeforeRow, RowSound
  <2>2. Grows
    BY <1>1, RowTypes DEF vars, Grows, IInv
  <2>3. QED
    BY <2>1, <2>2
<1>2. CASE Next
  BY <1>2, FinalizeStep, CreateStoryStep, SaveChapterStep, SaveBlobStep,
     AppendChapterStep, CloneStoryStep, CreateLinkedStoryStep,
     MarkStoryDeletedStep, PublishForDeleteStep, TombstoneStoryStep,
     ReadChapterStep, FollowLinkStep, FetchChapterStep, EndOperationStep
     DEF Next
<1>3. QED
  BY <1>1, <1>2

\* The inductive invariant holds in every reachable state.
THEOREM Inductive == Spec => []IInv
<1>1. Init => IInv
  BY InitIInv
<1>2. IInv /\ [Next]_vars => IInv'
  BY StepIInv
<1>3. QED
  BY <1>1, <1>2, PTL DEF Spec

\* Rows, blobs and operations keep their types (stories rows as the SQL
\* schema declares them).
THEOREM TypeCorrect == Spec => []TypeOK
  BY Inductive, PTL DEF IInv

\* No interleaving of appends, clones, deletes and crashes leaves a gap in a
\* story or a counter that disagrees with its rows.
THEOREM NoGaps == Spec => []Contiguous
  BY Inductive, PTL DEF IInv

\* A linked clone never loses the base row it reads through.
THEOREM LinksStay == Spec => []LinkSound
  BY Inductive, PTL DEF IInv

\* A story shows its own rows above its fork and those of its base below.
THEOREM StoredText == Spec => []TextIsStored
  BY Inductive, PTL DEF IInv

\* No chapter row refers to a blob that was not saved before it.
THEOREM BlobsFirst == Spec => []BlobBeforeRow
  BY Inductive, PTL DEF IInv

\* A read spread over several queries finds the ordinal that it has seen, and
\* returns the chapter committed there.
THEOREM ReadsCorrect == Spec => []ReadReturnsText
<1>1. IInv => ReadReturnsText
  BY DEF IInv, OpSound, ReadReturnsText
<1>2. QED
  BY <1>1, Inductive, PTL

-----------------------------------------------------------------------------
(* Refinement                                                              *)

\* The steps that touch neither rows nor text, apart from those that do.
LEMMA WritersOnly ==
  ASSUME [Next]_vars
  PROVE  \/ UNCHANGED <<stories, chapters, text>>
         \/ \E k \in Story : Finalize(k)
         \/ \E c \in Client, k \in Story, b \in Body : CreateStory(c, k, b)
         \/ \E c \in Client : \/ AppendChapter(c)
                             \/ CreateLinkedStory(c)
                             \/ PublishForDelete(c)
                             \/ TombstoneStory(c)
<1> DEFINE Quiet == UNCHANGED <<stories, chapters, text>>
<1>1. ASSUME NEW c \in Client,
             \/ \E k \in Story, sel \in -1 .. MaxOrdinal, b \in Body :
                  SaveChapter(c, k, sel, b)
             \/ SaveBlob(c)
             \/ RejectAppend(c)
      PROVE  Quiet
  BY <1>1 DEF SaveChapter, SaveBlob, RejectAppend
<1>2. ASSUME NEW c \in Client,
             \/ \E src, dest \in Story, sel \in -1 .. MaxOrdinal,
                  b \in Body \cup {NoBody} : CloneStory(c, src, dest, sel, b)
             \/ RejectLink(c)
             \/ \E k \in Story : MarkStoryDeleted(c, k)
      PROVE  Quiet
  BY <1>2 DEF CloneStory, RejectLink, MarkStoryDeleted
<1>3. ASSUME NEW c \in Client,
             \/ \E k \in Story, sel \in -2 .. MaxOrdinal : ReadChapter(c, k, sel)
             \/ FollowLink(c)
             \/ FetchChapter(c)
      PROVE  Quiet
  BY <1>3 DEF ReadChapter, FollowLink, FetchChapter
<1>4. ASSUME NEW c \in Client, Return(c) \/ Crash(c)
      PROVE  Quiet
  BY <1>4 DEF Return, Crash
<1>5. UNCHANGED vars => Quiet
  BY DEF vars
<1>6. QED
  BY <1>1, <1>2, <1>3, <1>4, <1>5 DEF Next

\* Chapter rows are never changed, whoever writes.
THEOREM Immutable == Spec => ChaptersImmutable
<1> DEFINE Kept == \A k \in Story, o \in Ordinal :
                     chapters[k][o] # NoBody => chapters'[k][o] = chapters[k][o]
<1>1. IInv /\ [Next]_vars => [Kept]_vars
  <2> SUFFICES ASSUME IInv, [Next]_vars PROVE Kept
    OBVIOUS
  <2>1. CASE UNCHANGED chapters
    BY <2>1
  <2>2. CASE \E c \in Client : AppendChapter(c)
    BY <2>2 DEF AppendChapter, Appendable, IInv, TypeOK
  <2>3. CASE \E c \in Client, k \in Story, b \in Body : CreateStory(c, k, b)
    BY <2>3 DEF CreateStory
  <2>4. CASE \E c \in Client : \/ CreateLinkedStory(c)
                             \/ PublishForDelete(c)
                             \/ TombstoneStory(c)
    BY <2>4 DEF CreateLinkedStory, PublishForDelete, TombstoneStory
  <2>5. CASE \E k \in Story : Finalize(k)
    BY <2>5 DEF Finalize
  <2>6. QED
    BY <2>1, <2>2, <2>3, <2>4, <2>5, WritersOnly
<1>2. QED
  BY <1>1, Inductive, PTL DEF Spec, ChaptersImmutable

\* The state functions that the refinement mapping gives to StoryLog.
Known  == {k \in Story : stories[k].exists}
Size   == [k \in Story |-> stories[k].count]
Sealed == {k \in Story : stories[k].finalized}
Gone   == {k \in Story : stories[k].deleted}

\* A step that leaves these four and the text alone is a stuttering step.
LEMMA Stutters ==
  ASSUME UNCHANGED <<stories, text>>
  PROVE  UNCHANGED Log!logVars
  BY DEF Log!logVars

LEMMA FinalizeIsSeal ==
  ASSUME IInv, NEW k \in Story, Finalize(k)
  PROVE  Log!Seal(k)
<1>1. \A j \in Story :
        /\ stories'[j].exists = stories[j].exists
        /\ stories'[j].count = stories[j].count
        /\ stories'[j].deleted = stories[j].deleted
        /\ stories'[j].finalized = (j = k \/ stories[j].finalized)
  BY DEF IInv, TypeOK, StoryRow, Finalize
<1>2. Known' = Known /\ Size' = Size /\ Gone' = Gone
      /\ Sealed' = Sealed \cup {k}
  BY <1>1 DEF Known, Size, Gone, Sealed
<1>3. k \in Known \ (Sealed \cup Gone) /\ text' = text
  BY DEF Finalize, Live, Known, Sealed, Gone
<1>4. QED
  BY <1>2, <1>3 DEF Log!Seal, Known, Size, Sealed, Gone

LEMMA PublishIsSeal ==
  ASSUME IInv, NEW c \in Client, PublishForDelete(c)
  PROVE  (\E k \in Story : Log!Seal(k)) \/ UNCHANGED Log!logVars
<1>1. PICK k \in Story : op[c].key = k /\ text' = text
  BY DEF PublishForDelete, IInv, OpSound
<1>2. CASE ~Live(k)
  BY <1>1, <1>2, Stutters DEF PublishForDelete
<1>3. CASE Live(k)
  <2>1. stories' = [stories EXCEPT ![k].finalized = TRUE]
    BY <1>1, <1>3 DEF PublishForDelete
  <2>2. \A j \in Story :
          /\ stories'[j].exists = stories[j].exists
          /\ stories'[j].count = stories[j].count
          /\ stories'[j].deleted = stories[j].deleted
          /\ stories'[j].finalized = (j = k \/ stories[j].finalized)
    BY <1>1, <2>1 DEF IInv, TypeOK, StoryRow
  <2>3. Known' = Known /\ Size' = Size /\ Gone' = Gone
        /\ Sealed' = Sealed \cup {k}
    BY <2>2, <1>1 DEF Known, Size, Gone, Sealed
  <2>4. k \in Known \ Gone
    BY <1>1, <1>3 DEF Live, Known, Gone
  <2>5. CASE k \in Sealed
    <3>1. Sealed' = Sealed
      BY <2>3, <2>5
    <3>2. QED
      BY <1>1, <2>3, <3>1 DEF Log!logVars, Known, Size, Gone, Sealed
  <2>6. CASE k \notin Sealed
    <3>1. Log!Seal(k)
      BY <1>1, <2>3, <2>4, <2>6 DEF Log!Seal, Known, Size, Gone, Sealed
    <3>2. QED
      BY <3>1
  <2>7. QED
    BY <2>5, <2>6
<1>4. QED
  BY <1>2, <1>3

LEMMA TombstoneIsDelete ==
  ASSUME IInv, NEW c \in Client, TombstoneStory(c)
  PROVE  (\E k \in Story : Log!Delete(k)) \/ UNCHANGED Log!logVars
<1>1. PICK k \in Story : op[c].key = k /\ text' = text
  BY DEF TombstoneStory, IInv, OpSound
<1>2. CASE ~(Live(k) /\ stories[k].finalized)
  BY <1>1, <1>2, Stutters DEF TombstoneStory
<1>3. CASE Live(k) /\ stories[k].finalized
  <2>1. stories' = [stories EXCEPT ![k].deleted = TRUE]
    BY <1>1, <1>3 DEF TombstoneStory
  <2>2. \A j \in Story :
          /\ stories'[j].exists = stories[j].exists
          /\ stories'[j].count = stories[j].count
          /\ stories'[j].finalized = stories[j].finalized
          /\ stories'[j].deleted = (j = k \/ stories[j].deleted)
    BY <1>1, <2>1 DEF IInv, TypeOK, StoryRow
  <2>3. Known' = Known /\ Size' = Size /\ Sealed' = Sealed
        /\ Gone' = Gone \cup {k}
    BY <2>2, <1>1 DEF Known, Size, Gone, Sealed
  <2>4. k \in Sealed \ Gone
    BY <1>1, <1>3 DEF Live, Sealed, Gone
  <2>5. Log!Delete(k)
    BY <1>1, <2>3, <2>4 DEF Log!Delete, Known, Size, Gone, Sealed
  <2>6. QED
    BY <2>5
<1>4. QED
  BY <1>2, <1>3

LEMMA CreateIsCreate ==
  ASSUME IInv, NEW c \in Client, NEW k \in Story, NEW b \in Body,
         CreateStory(c, k, b)
  PROVE  Log!Create(k)
<1>1. stories' = [stories EXCEPT ![k] = EmptyRow] /\ ~stories[k].exists
      /\ text' = text
  BY DEF CreateStory
<1>2. stories[k].count = 0 /\ ~stories[k].finalized /\ ~stories[k].deleted
  BY <1>1 DEF IInv, RowSound, NoRow
<1>3. EmptyRow.exists /\ EmptyRow.count = 0 /\ ~EmptyRow.finalized
      /\ ~EmptyRow.deleted
  BY DEF EmptyRow
<1>4. \A j \in Story : stories'[j] = IF j = k THEN EmptyRow ELSE stories[j]
  BY <1>1 DEF IInv, TypeOK
<1>5. Known' = Known \cup {k} /\ Sealed' = Sealed /\ Gone' = Gone
  BY <1>2, <1>3, <1>4 DEF Known, Sealed, Gone
<1>6. Size' = Size
  BY <1>2, <1>3, <1>4 DEF Size
<1>7. k \notin Known
  BY <1>1 DEF Known
<1>8. QED
  BY <1>1, <1>5, <1>6, <1>7 DEF Log!Create, Known, Size, Sealed, Gone

LEMMA LinkIsFork ==
  ASSUME IInv, NEW c \in Client, CreateLinkedStory(c)
  PROVE  \E k, src \in Story, n \in 1 .. MaxOrdinal + 1 : Log!Fork(k, src, n)
<1>0. PICK dest \in Story, src \in Story, fork \in 0 .. stories[op[c].cur].latest :
        op[c].key = dest /\ op[c].cur = src /\ op[c].ord = fork
  BY DEF CreateLinkedStory, IInv, OpSound
<1> DEFINE row == LinkedRow(src, fork)
<1>1. /\ OpSound(op[c], stories, text, blobs) /\ op[c].pc = "link"
      /\ ~stories[dest].exists
      /\ stories' = [stories EXCEPT ![dest] = row]
      /\ text' = [text EXCEPT ![dest] =
           [o \in Ordinal |-> IF o <= fork THEN text[src][o] ELSE NoBody]]
  BY <1>0 DEF IInv, CreateLinkedStory
<1>2. stories[src].exists /\ fork \in 0 .. stories[src].latest
  BY <1>0, <1>1 DEF OpSound
<1>3. /\ stories[src].count = stories[src].latest + 1
      /\ stories[src].latest \in -1 .. MaxOrdinal
  BY RowTypes DEF IInv, Contiguous
<1>a. fork \in Ordinal /\ fork \in Int
  BY <1>2, <1>3, StoreAssumption DEF Ordinal, StoreAssumption
<1>4. fork + 1 \in 1 .. MaxOrdinal + 1 /\ fork + 1 \in 1 .. stories[src].count
  BY <1>2, <1>3, <1>a, StoreAssumption DEF StoreAssumption
<1>5. row.exists /\ row.count = fork + 1 /\ ~row.deleted /\ ~row.finalized
  BY DEF LinkedRow
<1>6. ~stories[dest].finalized /\ ~stories[dest].deleted
  BY <1>1, <1>2 DEF IInv, RowSound, NoRow
<1> HIDE DEF row
<1>7. \A j \in Story : stories'[j] = IF j = dest THEN row ELSE stories[j]
  BY <1>1, <1>2 DEF IInv, TypeOK
<1>8. Known' = Known \cup {dest} /\ Sealed' = Sealed /\ Gone' = Gone
  BY <1>2, <1>5, <1>6, <1>7 DEF Known, Sealed, Gone
<1>9. Size' = [Size EXCEPT ![dest] = fork + 1]
  BY <1>2, <1>5, <1>7 DEF Size
<1>10. dest \notin Known /\ src \in Known /\ fork + 1 \in 1 .. Size[src]
  BY <1>1, <1>2, <1>4 DEF Known, Size
<1>11. text' = [text EXCEPT ![dest] =
         [o \in Ordinal |-> IF o < fork + 1 THEN text[src][o] ELSE NoBody]]
  <2>1. \A o \in Ordinal : (o <= fork) <=> (o < fork + 1)
    BY <1>a DEF Ordinal
  <2>2. [o \in Ordinal |-> IF o <= fork THEN text[src][o] ELSE NoBody]
        = [o \in Ordinal |-> IF o < fork + 1 THEN text[src][o] ELSE NoBody]
    BY <2>1
  <2>3. QED
    BY <1>1, <2>2
<1>12. Log!Fork(dest, src, fork + 1)
  BY <1>8, <1>9, <1>10, <1>11
     DEF Log!Fork, Log!Ordinal, Ordinal, Known, Size, Sealed, Gone
<1>13. QED
  BY <1>4, <1>12

LEMMA AppendIsExtend ==
  ASSUME IInv, NEW c \in Client, AppendChapter(c)
  PROVE  \E k \in Story, b \in Body : Log!Extend(k, b)
<1>2. PICK k \in Story, n \in Ordinal, b \in Body :
        op[c].key = k /\ op[c].ord = n /\ op[c].body = b
  BY DEF AppendChapter, IInv, OpSound
<1>1. /\ OpSound(op[c], stories, text, blobs) /\ op[c].pc = "append"
      /\ Appendable(k, n)
      /\ stories' = [stories EXCEPT ![k] =
                       [stories[k] EXCEPT !.latest = n, !.count = n + 1]]
      /\ text' = [text EXCEPT ![k][n] = b]
  BY <1>2 DEF IInv, AppendChapter
<1>3. /\ stories[k].exists /\ ~stories[k].deleted /\ ~stories[k].finalized
      /\ n = stories[k].latest + 1
      /\ stories[k].count = stories[k].latest + 1
  BY <1>1, <1>2 DEF IInv, Contiguous, Appendable, Live
<1> DEFINE counted == n + 1
<1>4. counted = n + 1
  OBVIOUS
<1> HIDE DEF counted
<1>5. \A j \in Story :
        /\ stories'[j].exists = stories[j].exists
        /\ stories'[j].finalized = stories[j].finalized
        /\ stories'[j].deleted = stories[j].deleted
        /\ stories'[j].count = IF j = k THEN counted ELSE stories[j].count
  BY <1>1, <1>2, <1>4 DEF IInv, TypeOK, StoryRow
<1>6. Known' = Known /\ Sealed' = Sealed /\ Gone' = Gone
  BY <1>5 DEF Known, Sealed, Gone
<1>7. Size[k] = n
  BY <1>2, <1>3 DEF Size
<1>8. Size' = [Size EXCEPT ![k] = counted]
  BY <1>2, <1>5 DEF Size
<1>9. Size' = [Size EXCEPT ![k] = @ + 1]
  BY <1>2, <1>4, <1>7, <1>8
<1>10. k \in Known \ (Sealed \cup Gone)
  BY <1>2, <1>3 DEF Known, Sealed, Gone
<1>11. text' = [text EXCEPT ![k][Size[k]] = b] /\ Size[k] \in Ordinal
  BY <1>1, <1>2, <1>7
<1>12. Log!Extend(k, b)
  BY <1>6, <1>9, <1>10, <1>11
     DEF Log!Extend, Log!Ordinal, Ordinal, Known, Size, Sealed, Gone
<1>13. QED
  BY <1>12

\* Every step of the store is a step of the abstract log or leaves it alone.
LEMMA StepImplements ==
  ASSUME IInv, [Next]_vars
  PROVE  [Log!LogNext]_(Log!logVars)
<1>1. CASE UNCHANGED <<stories, text>>
  BY <1>1, Stutters
<1>2. CASE \E k \in Story : Finalize(k)
  BY <1>2, FinalizeIsSeal DEF Log!LogNext
<1>3. CASE \E c \in Client, k \in Story, b \in Body : CreateStory(c, k, b)
  BY <1>3, CreateIsCreate DEF Log!LogNext
<1>4. CASE \E c \in Client : AppendChapter(c)
  BY <1>4, AppendIsExtend DEF Log!LogNext
<1>5. CASE \E c \in Client : CreateLinkedStory(c)
  BY <1>5, LinkIsFork DEF Log!LogNext
<1>6. CASE \E c \in Client : PublishForDelete(c)
  BY <1>6, PublishIsSeal DEF Log!LogNext
<1>7. CASE \E c \in Client : TombstoneStory(c)
  BY <1>7, TombstoneIsDelete DEF Log!LogNext
<1>8. QED
  BY <1>1, <1>2, <1>3, <1>4, <1>5, <1>6, <1>7, WritersOnly

\* The chapter store, with its links, blobs, tombstones and multi-transaction
\* operations, behaves as a set of private append-only logs.
THEOREM Implements == Spec => ImplementsLog
<1>1. Init => Log!LogInit
  BY DEF Init, NoRow, Log!LogInit, Log!Ordinal, Ordinal
<1>2. IInv /\ [Next]_vars => [Log!LogNext]_(Log!logVars)
  BY StepImplements
<1>3. QED
  BY <1>1, <1>2, Inductive, PTL DEF Spec, ImplementsLog, Log!LogSpec

=============================================================================
