------------------------------ MODULE StoryLog ------------------------------
(***************************************************************************)
(* What the chapter store promises its callers, with every storage detail  *)
(* left out: each story owns one private sequence of chapter bodies that   *)
(* only ever grows at its end.  A clone starts as a copy of a prefix of    *)
(* another story.  A sealed story no longer grows, and only a sealed story *)
(* can be deleted.  ChapterStore is shown to implement this module.        *)
(***************************************************************************)
EXTENDS Integers

CONSTANTS
  Story,        \* story keys (one story per job)
  Body,         \* chapter contents
  NoBody,       \* filler of the positions past the end of a story
  MaxOrdinal    \* largest chapter ordinal (bound)

Ordinal == 0 .. MaxOrdinal

VARIABLES
  known,        \* stories that were created
  text,         \* text[k][o]: the body at ordinal o of story k
  size,         \* size[k]: number of chapters of story k
  sealed,       \* stories that accept no more chapters
  gone          \* stories that were deleted

logVars == <<known, text, size, sealed, gone>>

LogInit ==
  /\ known = {}
  /\ text = [k \in Story |-> [o \in Ordinal |-> NoBody]]
  /\ size = [k \in Story |-> 0]
  /\ sealed = {}
  /\ gone = {}

Create(k) ==
  /\ k \notin known
  /\ known' = known \cup {k}
  /\ UNCHANGED <<text, size, sealed, gone>>

\* The new story k starts with the first n chapters of src.  Nothing that
\* happens to src afterwards shows through k.
Fork(k, src, n) ==
  /\ k \notin known
  /\ src \in known
  /\ n \in 1 .. size[src]
  /\ known' = known \cup {k}
  /\ text' = [text EXCEPT ![k] =
                [o \in Ordinal |-> IF o < n THEN text[src][o] ELSE NoBody]]
  /\ size' = [size EXCEPT ![k] = n]
  /\ UNCHANGED <<sealed, gone>>

Extend(k, b) ==
  /\ k \in known \ (sealed \cup gone)
  /\ size[k] \in Ordinal
  /\ text' = [text EXCEPT ![k][size[k]] = b]
  /\ size' = [size EXCEPT ![k] = @ + 1]
  /\ UNCHANGED <<known, sealed, gone>>

Seal(k) ==
  /\ k \in known \ (sealed \cup gone)
  /\ sealed' = sealed \cup {k}
  /\ UNCHANGED <<known, text, size, gone>>

Delete(k) ==
  /\ k \in sealed \ gone
  /\ gone' = gone \cup {k}
  /\ UNCHANGED <<known, text, size, sealed>>

LogNext ==
  \E k \in Story :
    \/ Create(k)
    \/ \E src \in Story, n \in 1 .. MaxOrdinal + 1 : Fork(k, src, n)
    \/ \E b \in Body : Extend(k, b)
    \/ Seal(k)
    \/ Delete(k)

LogSpec == LogInit /\ [][LogNext]_logVars
=============================================================================
