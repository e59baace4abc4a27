--------------------------- MODULE MCChapterStore ---------------------------
(* Small instance of ChapterStore. *)
EXTENDS ChapterStore, TLC

\* Clients and story keys are only ever compared for equality.
Sym == Permutations(Client) \cup Permutations(Story)
=============================================================================
