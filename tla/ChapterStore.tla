---------------------------- MODULE ChapterStore ----------------------------
(***************************************************************************)
(* The chapter store of jobdb (pkg/jobdb/internal/chapterstore): a row     *)
(* store with one metadata row per story and one row per chapter, and a    *)
(* blob store for artifacts too large to keep inline.                      *)
(*                                                                         *)
(* Every SQL transaction of the row store is one atomic action.  The Store *)
(* operations above it (CreateStory, CloneStory, SaveChapter, Chapter,     *)
(* MarkStoryDeleted) take several transactions: op[c] is what client c     *)
(* still has to do, so that the operations of several clients interleave   *)
(* and a client can crash between two transactions.                        *)
(*                                                                         *)
(* A linked clone stores no chapter up to its fork ordinal: a read walks   *)
(* from story to base story until it reaches the one that holds the row.   *)
(*                                                                         *)
(* An operator marked "Slip" is not the code: it is a plausible mistake in *)
(* the definition that follows it, kept to show which property notices it. *)
(***************************************************************************)
EXTENDS Integers

CONSTANTS
  Client,        \* concurrent callers
  Story,         \* story keys
  NoStory,       \* "no story" (an absent link, an unused field)
  Body,          \* chapter contents
  BigBody,       \* those whose artifacts go to the blob store
  NoBody,        \* "no chapter row"
  MaxOrdinal,    \* largest ordinal a caller writes (bound)
  MaxLinkDepth   \* maxLinkDepth of resolveLinkedOrdinal (1024 in the code)

ASSUME StoreAssumption ==
  /\ NoStory \notin Story
  /\ NoBody \notin Body
  /\ BigBody \subseteq Body
  /\ MaxOrdinal \in Nat
  /\ MaxLinkDepth \in Nat \ {0}

Ordinal == 0 .. MaxOrdinal

VARIABLES
  stories,    \* jobdb_chapter_stories: metadata row of each key
  chapters,   \* jobdb_chapter_chapters: chapters[k][o] is the row's body
  blobs,      \* contents saved in the blob store
  op,         \* the operation each client is in the middle of
  text        \* history: the logical content of each story, see StoryLog

vars == <<stories, chapters, blobs, op, text>>

StoryRow ==
  [exists : BOOLEAN, latest : -1 .. MaxOrdinal, count : 0 .. MaxOrdinal + 1,
   finalized : BOOLEAN, deleted : BOOLEAN,
   base : Story \cup {NoStory}, fork : -1 .. MaxOrdinal]

NoRow == [exists |-> FALSE, latest |-> -1, count |-> 0, finalized |-> FALSE,
          deleted |-> FALSE, base |-> NoStory, fork |-> -1]

PC == {"idle", "blob", "append", "link", "publish", "tombstone",
       "hop", "fetch", "found", "lost", "toodeep"}

Op == [pc : PC, key : Story \cup {NoStory}, cur : Story \cup {NoStory},
       ord : -1 .. MaxOrdinal, body : Body \cup {NoBody},
       depth : 0 .. MaxLinkDepth]

\* A client about to take step p of an operation on story k (and story j),
\* ordinal o and body b.
Doing(p, k, j, o, b) ==
  [pc |-> p, key |-> k, cur |-> j, ord |-> o, body |-> b, depth |-> 0]

Idle == Doing("idle", NoStory, NoStory, -1, NoBody)

\* The row of a new story, and of a new clone of src up to ordinal n.
EmptyRow == [exists |-> TRUE, latest |-> -1, count |-> 0, finalized |-> FALSE,
             deleted |-> FALSE, base |-> NoStory, fork |-> -1]

\* Slip: the chapter count is one too high.
LinkedRowMiscounted(src, n) ==
  [exists |-> TRUE, latest |-> n, count |-> n + 2, finalized |-> FALSE,
   deleted |-> FALSE, base |-> src, fork |-> n]

LinkedRow(src, n) ==
  [exists |-> TRUE, latest |-> n, count |-> n + 1, finalized |-> FALSE,
   deleted |-> FALSE, base |-> src, fork |-> n]

Init ==
  /\ stories = [k \in Story |-> NoRow]
  /\ chapters = [k \in Story |-> [o \in Ordinal |-> NoBody]]
  /\ blobs = {}
  /\ op = [c \in Client |-> Idle]
  /\ text = [k \in Story |-> [o \in Ordinal |-> NoBody]]

-----------------------------------------------------------------------------
(* Helpers                                                                 *)

\* A row that GetStory returns: tombstoned rows are invisible to it.
Live(k) == stories[k].exists /\ ~stories[k].deleted

Become(c, o) == op' = [op EXCEPT ![c] = o]

\* Slip: the row is committed without saving its blobs first.
WritingRowFirst(k, o, b) == Doing("append", k, NoStory, o, b)

\* What is left of a chapter write: artifacts above maxInline are saved as
\* blobs first, then the row transaction runs.
Writing(k, o, b) ==
  Doing(IF b \in BigBody THEN "blob" ELSE "append", k, NoStory, o, b)

\* Slip: the first ordinal after the fork is looked up in the base.
ResolveForkExclusive(o, k) ==
  IF stories[k].latest < o.ord THEN [o EXCEPT !.pc = "lost"]
  ELSE IF stories[k].base = NoStory \/ o.ord > stories[k].fork + 1
       THEN [o EXCEPT !.pc = "fetch", !.cur = k]
       ELSE [o EXCEPT !.pc = "hop", !.cur = stories[k].base, !.depth = @ + 1]

\* One iteration of the loop of resolveLinkedOrdinal, once the row of story
\* k is loaded: not found, held by k itself, or to be looked up in its base.
Resolve(o, k) ==
  IF stories[k].latest < o.ord THEN [o EXCEPT !.pc = "lost"]
  ELSE IF stories[k].base = NoStory \/ o.ord > stories[k].fork
       THEN [o EXCEPT !.pc = "fetch", !.cur = k]
       ELSE IF o.depth + 1 = MaxLinkDepth
            THEN [o EXCEPT !.pc = "toodeep"]
            ELSE [o EXCEPT !.pc = "hop", !.cur = stories[k].base,
                           !.depth = @ + 1]

-----------------------------------------------------------------------------
(* Writing                                                                 *)

\* Store.CreateStory, first transaction.  The second one appends chapter 0.
CreateStory(c, k, b) ==
  /\ op[c].pc = "idle"
  /\ ~stories[k].exists
  /\ stories' = [stories EXCEPT ![k] = EmptyRow]
  /\ Become(c, Writing(k, 0, b))
  /\ UNCHANGED <<chapters, blobs, text>>

\* Store.SaveChapter with the ordinal of the chapter, or with a negative one
\* that stands for the chapter count read here.
SaveChapter(c, k, sel, b) ==
  LET o == IF sel < 0 THEN stories[k].count ELSE sel IN
  /\ op[c].pc = "idle"
  /\ sel < 0 => Live(k)
  /\ o \in Ordinal
  /\ Become(c, Writing(k, o, b))
  /\ UNCHANGED <<stories, chapters, blobs, text>>

SaveBlob(c) ==
  /\ op[c].pc = "blob"
  /\ blobs' = blobs \cup {op[c].body}
  /\ Become(c, [op[c] EXCEPT !.pc = "append"])
  /\ UNCHANGED <<stories, chapters, text>>

\* Slip: the ordinal is not compared with the latest one.
AppendableAnywhere(k, o) ==
  Live(k) /\ ~stories[k].finalized /\ chapters[k][o] = NoBody

\* Slip: the finalized flag is not read again in the transaction.
AppendableFinalized(k, o) ==
  Live(k) /\ chapters[k][o] = NoBody /\ o = stories[k].latest + 1

\* The checks of the AppendChapter transaction: the story is live and not
\* finalized, the row is absent, and the ordinal is the next one.
Appendable(k, o) ==
  /\ Live(k)
  /\ ~stories[k].finalized
  /\ chapters[k][o] = NoBody
  /\ o = stories[k].latest + 1

AppendChapter(c) ==
  LET k == op[c].key
      o == op[c].ord IN
  /\ op[c].pc = "append"
  /\ Appendable(k, o)
  /\ chapters' = [chapters EXCEPT ![k][o] = op[c].body]
  /\ stories' = [stories EXCEPT ![k] = [@ EXCEPT !.latest = o, !.count = o + 1]]
  /\ text' = [text EXCEPT ![k][o] = op[c].body]
  /\ Become(c, Idle)
  /\ UNCHANGED blobs

\* The same transaction when a check fails: rolled back, conflict returned.
RejectAppend(c) ==
  /\ op[c].pc = "append"
  /\ ~Appendable(op[c].key, op[c].ord)
  /\ Become(c, Idle)
  /\ UNCHANGED <<stories, chapters, blobs, text>>

\* Store.CloneStory reads the source row and checks the last ordinal to keep
\* (a negative one stands for the latest).
CloneStory(c, src, dest, sel, b) ==
  LET last == IF sel < 0 THEN stories[src].latest ELSE sel IN
  /\ op[c].pc = "idle"
  /\ Live(src)
  /\ last \in 0 .. stories[src].latest
  /\ b # NoBody => last + 1 \in Ordinal
  /\ Become(c, Doing("link", dest, src, last, b))
  /\ UNCHANGED <<stories, chapters, blobs, text>>

\* The CreateLinkedStory transaction.  Its base may have been tombstoned
\* since.  The handle it returns then appends the extra chapter, if any.
CreateLinkedStory(c) ==
  LET dest == op[c].key
      src  == op[c].cur
      fork == op[c].ord IN
  /\ op[c].pc = "link"
  /\ dest # src
  /\ ~stories[dest].exists
  /\ stories[src].exists
  /\ fork <= stories[src].latest
  /\ stories' = [stories EXCEPT ![dest] = LinkedRow(src, fork)]
  /\ text' = [text EXCEPT ![dest] =
       [o \in Ordinal |-> IF o <= fork THEN text[src][o] ELSE NoBody]]
  /\ Become(c, IF op[c].body = NoBody
               THEN Idle ELSE Writing(dest, fork + 1, op[c].body))
  /\ UNCHANGED <<chapters, blobs>>

RejectLink(c) ==
  /\ op[c].pc = "link"
  /\ op[c].key = op[c].cur \/ stories[op[c].key].exists
  /\ Become(c, Idle)
  /\ UNCHANGED <<stories, chapters, blobs, text>>

-----------------------------------------------------------------------------
(* Finalizing and deleting                                                 *)

\* storyHandle.Finalize: the Publish transaction alone.
Finalize(k) ==
  /\ Live(k)
  /\ ~stories[k].finalized
  /\ stories' = [stories EXCEPT ![k].finalized = TRUE]
  /\ UNCHANGED <<chapters, blobs, op, text>>

\* storage.MarkStoryDeleted reads the row to know whether to publish first.
MarkStoryDeleted(c, k) ==
  /\ op[c].pc = "idle"
  /\ Live(k)
  /\ Become(c, Doing(IF stories[k].finalized THEN "tombstone" ELSE "publish",
                     k, NoStory, -1, NoBody))
  /\ UNCHANGED <<stories, chapters, blobs, text>>

\* Its Publish.  A story finalized meanwhile is fine, one deleted meanwhile
\* ends the operation with not-found.
PublishForDelete(c) ==
  LET k == op[c].key IN
  /\ op[c].pc = "publish"
  /\ \/ /\ Live(k)
        /\ stories' = [stories EXCEPT ![k].finalized = TRUE]
        /\ Become(c, [op[c] EXCEPT !.pc = "tombstone"])
     \/ /\ ~Live(k)
        /\ Become(c, Idle)
        /\ UNCHANGED stories
  /\ UNCHANGED <<chapters, blobs, text>>

\* The TombstoneStory transaction: only a live, finalized story.
TombstoneStory(c) ==
  LET k == op[c].key IN
  /\ op[c].pc = "tombstone"
  /\ stories' = IF Live(k) /\ stories[k].finalized
                THEN [stories EXCEPT ![k].deleted = TRUE] ELSE stories
  /\ Become(c, Idle)
  /\ UNCHANGED <<chapters, blobs, text>>

-----------------------------------------------------------------------------
(* Reading                                                                 *)

\* Store.Chapter loads the row of the story with GetStory; a negative
\* selector counts from the end.  An ordinal outside the story is an
\* ordinary not-found and leaves the client idle.
ReadChapter(c, k, sel) ==
  LET o == IF sel < 0 THEN stories[k].latest + sel + 1 ELSE sel IN
  /\ op[c].pc = "idle"
  /\ Live(k)
  /\ o \in 0 .. stories[k].latest
  /\ Become(c, Resolve(Doing("idle", k, NoStory, o, NoBody), k))
  /\ UNCHANGED <<stories, chapters, blobs, text>>

\* The base row is loaded with GetStoryIncludingDeleted.
FollowLink(c) ==
  LET k == op[c].cur IN
  /\ op[c].pc = "hop"
  /\ Become(c, IF stories[k].exists THEN Resolve(op[c], k)
               ELSE [op[c] EXCEPT !.pc = "lost"])
  /\ UNCHANGED <<stories, chapters, blobs, text>>

\* ReadChapterIncludingDeleted on the story that holds the row.
FetchChapter(c) ==
  LET b == chapters[op[c].cur][op[c].ord] IN
  /\ op[c].pc = "fetch"
  /\ Become(c, IF b = NoBody THEN [op[c] EXCEPT !.pc = "lost"]
               ELSE [op[c] EXCEPT !.pc = "found", !.body = b])
  /\ UNCHANGED <<stories, chapters, blobs, text>>

\* The caller takes the result (or the error) of its read.
Return(c) ==
  /\ op[c].pc \in {"found", "lost", "toodeep"}
  /\ Become(c, Idle)
  /\ UNCHANGED <<stories, chapters, blobs, text>>

\* The process of client c dies: only committed rows and blobs survive.
Crash(c) ==
  /\ op[c].pc # "idle"
  /\ Become(c, Idle)
  /\ UNCHANGED <<stories, chapters, blobs, text>>

-----------------------------------------------------------------------------
Next ==
  \/ \E k \in Story : Finalize(k)
  \/ \E c \in Client :
       \/ \E k \in Story, b \in Body : CreateStory(c, k, b)
       \/ \E k \in Story, sel \in -1 .. MaxOrdinal, b \in Body :
            SaveChapter(c, k, sel, b)
       \/ SaveBlob(c)
       \/ AppendChapter(c)
       \/ RejectAppend(c)
       \/ \E src, dest \in Story, sel \in -1 .. MaxOrdinal,
             b \in Body \cup {NoBody} : CloneStory(c, src, dest, sel, b)
       \/ CreateLinkedStory(c)
       \/ RejectLink(c)
       \/ \E k \in Story : MarkStoryDeleted(c, k)
       \/ PublishForDelete(c)
       \/ TombstoneStory(c)
       \/ \E k \in Story, sel \in -2 .. MaxOrdinal : ReadChapter(c, k, sel)
       \/ FollowLink(c)
       \/ FetchChapter(c)
       \/ Return(c)
       \/ Crash(c)

Spec == Init /\ [][Next]_vars

-----------------------------------------------------------------------------
(* Properties                                                              *)

\* Every variable keeps its shape (rows as scanStory reads them back).
TypeOK ==
  /\ stories \in [Story -> StoryRow]
  /\ chapters \in [Story -> [Ordinal -> Body \cup {NoBody}]]
  /\ blobs \subseteq BigBody
  /\ op \in [Client -> Op]
  /\ text \in [Story -> [Ordinal -> Body \cup {NoBody}]]

\* Racing appends, clones, deletes and crashes leave no gap and no stray row:
\* a story holds chapter rows exactly from the ordinal after its fork up to
\* its latest ordinal, and the two counters of its row agree.
Contiguous ==
  \A k \in Story :
    /\ stories[k].count = stories[k].latest + 1
    /\ \A o \in Ordinal :
         (chapters[k][o] # NoBody)
           <=> (stories[k].fork < o /\ o <= stories[k].latest)

\* A finished read returns the one body committed at that position, even
\* when its several queries ran between other clients' transactions.  Once the
\* first query of a read has seen the ordinal, no later query of it comes back
\* empty: not even when the story or one of its bases is finalized and deleted
\* halfway (GetStoryIncludingDeleted).
ReadReturnsText ==
  \A c \in Client :
    /\ op[c].pc # "lost"
    /\ op[c].pc = "found" =>
         op[c].body # NoBody /\ op[c].body = text[op[c].key][op[c].ord]

\* A chapter row that refers to a blob is only committed after the blob.
BlobBeforeRow ==
  \A k \in Story, o \in Ordinal : chapters[k][o] \in BigBody
                                    => chapters[k][o] \in blobs

\* The refinement mapping into the abstract specification.
Log == INSTANCE StoryLog WITH
  known  <- {k \in Story : stories[k].exists},
  size   <- [k \in Story |-> stories[k].count],
  sealed <- {k \in Story : stories[k].finalized},
  gone   <- {k \in Story : stories[k].deleted}

\* The store behaves as a set of private append-only logs.
ImplementsLog == Log!LogSpec
=============================================================================
