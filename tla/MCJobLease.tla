----------------------------- MODULE MCJobLease -----------------------------
(* Small instances of JobLease: the workflow scripts of its runs, and who makes *)
(* which call.                                                               *)
EXTENDS JobLease, TLC

\* Calls and lease identifiers are only ever compared for equality.
Sym == Permutations(Call) \cup Permutations(LeaseId)

\* Any call is open to any caller.
Shared == [c \in Call |-> LeaseId \cup {NoLease}]

\* One call per lease holder; the remaining calls are those of committers.
OwnCalls == [c \in Call |-> IF c \in LeaseId THEN {c} ELSE {NoLease}]

\* Any client of the runtime: every kind of write is possible at any ordinal.
AnyScript == [o \in 0 .. 2 |-> {"work", "task", "final"}]

\* A workflow that does local work, waits for other jobs and times, and ends.
WaitScript == [o \in 0 .. 1 |-> {"work", "final"}]

\* A deterministic workflow with two external tasks of one type.
TwoTaskScript == [o \in 0 .. 2 |-> {"task"}]
=============================================================================
