---------------------------- MODULE MCToyRuntime ----------------------------
(* Small instances of ToyRuntime. *)
EXTENDS ToyRuntime, TLC

\* These are only compared for equality.
Sym == Permutations(Job) \cup Permutations(Call) \cup Permutations(LeaseId)
=============================================================================
