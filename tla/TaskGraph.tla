----------------------------- MODULE TaskGraph -----------------------------
(***************************************************************************)
(* What a caller of graph.schedule is promised, with no queue, counter or  *)
(* promise in sight: tasks start when everything they need has concluded   *)
(* well, a failure condemns everything downstream of it in the same step,  *)
(* and the rest is given up only when nothing is running any more.         *)
(* Scheduler.tla is shown to implement this specification.                 *)
(***************************************************************************)
EXTENDS TaskPlan

VARIABLES plan,       \* the workflow and the options of this run
          started,    \* tasks handed to runTask
          verdict     \* Task -> Verdict

vars == <<plan, started, verdict>>

\* Everything downstream of t, by the smallest set closed under "needs".
Downstream(t) ==
  {d \in Task : \A S \in SUBSET Task :
     (\A e \in Task : plan.needs[e] \cap (S \cup {t}) # {} => e \in S) => d \in S}

Running == {t \in started : verdict[t] = "none"}

Init == /\ plan \in Plans
        /\ started = {}
        /\ verdict = [t \in Task |-> "none"]

Start(t) == /\ t \notin started
            /\ verdict[t] = "none"
            /\ \A n \in plan.needs[t] : verdict[n] \in Good
            /\ ~(plan.failFast /\ \E u \in Task : verdict[u] = "failure")
            /\ started' = started \cup {t}
            /\ Cardinality(Running') <= Limit(plan)
            /\ UNCHANGED <<plan, verdict>>

Conclude(t) == /\ t \in Running
               /\ \E v \in Good : verdict' = [verdict EXCEPT ![t] = v]
               /\ UNCHANGED <<plan, started>>

Fail(t) == /\ t \in Running
           /\ verdict' = [d \in Task |-> IF d = t THEN "failure"
                                         ELSE IF d \in Downstream(t) THEN "depFailed"
                                         ELSE verdict[d]]
           /\ UNCHANGED <<plan, started>>

\* Fail-fast gave up: only after a failure, and only when nothing is running.
GiveUp == /\ plan.failFast
          /\ Running = {}
          /\ \E t \in Task : verdict[t] = "failure"
          /\ verdict' = [t \in Task |-> IF verdict[t] = "none" THEN "stopped" ELSE verdict[t]]
          /\ UNCHANGED <<plan, started>>

Next == \/ \E t \in Task : Start(t) \/ Conclude(t) \/ Fail(t)
        \/ GiveUp

Spec == Init /\ [][Next]_vars
=============================================================================
