----------------------------- MODULE MCTaskRun -----------------------------
EXTENDS TaskRun

MCJob == [source : {TRUE}, prefetch : {TRUE}, if : [Step -> Condition],
          continueOnError : [Step -> BOOLEAN], out : [Out -> Policy]]

\* Every combination of conditions and of continue-on-error with two policies, and without
\* conditions every combination of policies.
MCJobs == {j \in MCJob : \/ \A o \in Out : j.out[o] = IF o = 1 THEN "error" ELSE "warn"
                         \/ \A s \in Step : j.if[s] = "unset"}
=============================================================================
