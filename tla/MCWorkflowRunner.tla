-------------------------- MODULE MCWorkflowRunner --------------------------
EXTENDS WorkflowRunner
CONSTANTS r1, r2, none

Of(f, t) == [flow |-> f, traits |-> t]

\* Every circumstance on a workflow that meets it: waiting for others, tolerating a
\* failure, pausing, and a single task.
RaceCases ==
  {Of(<<"local", "external">>, t) : t \in {{}, {"flaky"}, {"fatal"}}} \cup
  {Of(<<"lenient", "pause">>, t) : t \in {{}, {"long"}, {"prereq"}}} \cup
  {Of(<<"local">>, t) : t \in {{"timeout"}, {"total"}}} \cup
  {Of(<<"external">>, {"timeout"})}

\* A task that may fail, and nothing else.
PlainCases == {Of(<<"local">>, {})}
=============================================================================
