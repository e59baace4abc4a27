---------------------------- MODULE MCSubmission ----------------------------
(* Small instances of Submission. *)
EXTENDS Submission, TLC

\* Requests in flight are only compared for equality.
Sym == Permutations(Call)
=============================================================================
