---------------------------- MODULE MCScheduler ----------------------------
EXTENDS Scheduler

\* Every dependency graph over the tasks whose edges all point to tasks declared
\* earlier, and the same graphs declared backwards.
MCNeeds == {n \in [Task -> SUBSET Task] : \/ \A t \in Task : \A m \in n[t] : m < t
                                          \/ \A t \in Task : \A m \in n[t] : m > t}

\* All tasks in sandboxes; or the first job unsupported here and the second a publish
\* job; or a publish job other jobs may wait for.
MCKinds == {[t \in Task |-> "sandbox"],
            [t \in Task |-> CASE t = 1 -> "unsupported" [] t = 2 -> "publish" [] OTHER -> "sandbox"]}

\* One at a time (0 counts as 1) and two at a time.
MCPlans == [needs : MCNeeds, kind : MCKinds, concurrency : {0, 2}, failFast : BOOLEAN]
=============================================================================
