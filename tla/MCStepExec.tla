----------------------------- MODULE MCStepExec -----------------------------
EXTENDS StepExec

\* A task of n steps whose first step has a timeout or has none.
A(n, timed, prints, may, fails) ==
  [steps |-> n, timeout |-> [s \in Step |-> s = 1 /\ timed], prints |-> prints, may |-> may,
   fails |-> fails]

\* A step that prints more than the log takes; one with a timeout, which may race with the
\* limit of the log.
Alone == {A(1, FALSE, MaxPrint, {"fork", "abort", "death", "wedge", "part"}, {}),
          A(1, TRUE, 2, {"abort", "death", "wedge", "part"}, {})}

\* Two steps that share the output file and the caller's signal: the first may leave a
\* process that goes on writing, or the file cannot always be emptied and read.
Shared == {A(2, FALSE, 0, {"fork", "death"}, {}), A(2, FALSE, 0, {"abort", "death"}, {}),
           A(2, FALSE, 0, {}, {"prepare", "read", "empty"})}

MCTasks == Alone \cup Shared

OrphanTasks == {A(1, timed, 0, {"fork", "death"}, {}) : timed \in BOOLEAN}

WedgedTasks == {A(1, timed, 0, {"fork", "death", "wedge"}, {}) : timed \in BOOLEAN}
=============================================================================
