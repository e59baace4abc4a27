-------------------------- MODULE MCScheduleControl --------------------------
(* Small instances of ScheduleControl. *)
EXTENDS ScheduleControl, TLC

\* Callers are only compared for equality.
Sym == Permutations(Worker)

\* Two workers and a schedule that is changed, without a window.
Raced == [triggers |-> {"interval"}, window |-> 0, failures |-> 1,
          requests |-> {}, end |-> 1, retries |-> TRUE, generations |-> 2,
          busy |-> 2]

\* A longer chain, with a policy and a window; the target is retried.
Judged == [triggers |-> {"cron"}, window |-> 2, failures |-> 2,
           requests |-> {}, end |-> 2, retries |-> TRUE, generations |-> 1,
           busy |-> 1]

\* Manual triggers beside a chain, each with a policy.
Manual == [triggers |-> {"cron"}, window |-> 2, failures |-> 1,
           requests |-> Request, end |-> 1, retries |-> FALSE, generations |-> 1,
           busy |-> 2]

\* The longer chain without a window.
Windowless == [Judged EXCEPT !.triggers = {"interval"}, !.window = 0,
                             !.retries = FALSE]

PassingCases == {Raced, Judged, Manual}
WindowlessCases == {Windowless}
=============================================================================
