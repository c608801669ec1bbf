----------------------------- MODULE Scheduler -----------------------------
(***************************************************************************)
(* graph.schedule (lib/graph.js) and the runTask callback that             *)
(* `bare-workflow run` gives it (bin.js): the ready queue, the pending     *)
(* counts, the set of promises in flight, and what a finished task leaves  *)
(* behind (job results for its dependents, an attestation).                *)
(*                                                                         *)
(* JavaScript runs one callback at a time, so every action below is a      *)
(* stretch of code between two awaits.  `loop' says where the main loop    *)
(* of schedule stands, `phase' where each launch(id) stands; the steps of  *)
(* different launches, and the loop's own resumption, interleave freely.   *)
(*                                                                         *)
(* An operator that no action uses (freedAtOnce, CanLaunchUncapped, ...)   *)
(* is the following definition with a bug in it, kept to show that the     *)
(* properties notice.                                                      *)
(***************************************************************************)
EXTENDS TaskPlan, Sequences

VARIABLES plan,        \* the tasks' needs and kinds, and the options of the call
          pending,     \* Task -> how many needs are still to be counted down
          ready,       \* FIFO of task ids that may start
          results,     \* Task -> Verdict: the `results' map and, for a skip, its reason
          failed,      \* the `failed' flag
          phase,       \* Task -> where launch(id) stands
          answer,      \* Task -> what runTask returned
          inflight,    \* promises of launches not yet removed from `inflight'
          woken,       \* one of the raced promises has resolved
          loop,        \* filling: the inner loop runs; racing: awaits; finished
          jobResults,  \* Task -> what bin.js recorded for needsScope
          attested,    \* tasks with an attestation on disk
          exitCode     \* what the process reports, none until the run is over

vars == <<plan, pending, ready, results, failed, phase, answer, inflight, woken, loop,
          jobResults, attested, exitCode>>

Graph == INSTANCE TaskGraph WITH started <- {t \in Task : phase[t] # "idle"},
                                 verdict <- results

TypeOK == /\ plan \in Plans
          /\ pending \in [Task -> Nat]
          /\ ready \in Seq(Task)
          /\ results \in [Task -> Verdict]
          /\ failed \in BOOLEAN
          /\ phase \in [Task -> {"idle", "executing", "returned", "settled"}]
          /\ answer \in [Task -> {"none", "success", "failure", "unsupported"}]
          /\ inflight \in SUBSET Task
          /\ woken \in BOOLEAN
          /\ loop \in {"filling", "racing", "finished"}
          /\ jobResults \in [Task -> {"none", "success", "failure"}]
          /\ attested \in SUBSET Task
          /\ exitCode \in {"none", "zero", "one"}

-----------------------------------------------------------------------------
(* Helpers of schedule *)

running == {t \in Task : phase[t] \in {"executing", "returned"}}

dependents(t) == {d \in Task : t \in plan.needs[d]}

\* A set of tasks as the sequence the code's iteration order yields.
InTaskOrder(S) == {s \in [1..Cardinality(S) -> S] : \A i, j \in DOMAIN s : i < j => s[i] < s[j]}

skipDependentsOneLevel(t) ==
  {d \in Task : t \in plan.needs[d] /\ results[d] = "none" /\ d \notin running}

\* The recursion of skipDependents: it walks down the dependents and stops at a
\* task that has a result or is running.
skipDependents(t) ==
  LET open == {d \in Task : results[d] = "none" /\ d \notin running}
  IN  {d \in Task : \A S \in SUBSET open :
         (\A e \in open : plan.needs[e] \cap (S \cup {t}) # {} => e \in S) => d \in S}

freedAtOnce(counted, left) == counted
freedOffByOne(counted, left) == {d \in counted : left[d] = 1}

\* Dependents whose count just reached zero.
freed(counted, left) == {d \in counted : left[d] = 0}
-----------------------------------------------------------------------------
Init == /\ plan \in Plans
        /\ pending = [t \in Task |-> Cardinality(plan.needs[t])]
        /\ ready \in InTaskOrder({t \in Task : plan.needs[t] = {}})
        /\ results = [t \in Task |-> "none"]
        /\ failed = FALSE
        /\ phase = [t \in Task |-> "idle"]
        /\ answer = [t \in Task |-> "none"]
        /\ inflight = {}
        /\ woken = FALSE
        /\ loop = "filling"
        /\ jobResults = [t \in Task |-> "none"]
        /\ attested = {}
        /\ exitCode = "none"

CanLaunchUncapped == /\ ready # <<>>
                     /\ ~(failed /\ plan.failFast)

CanLaunchOffByOne == /\ ready # <<>>
                     /\ Cardinality(inflight) + 1 < Limit(plan)
                     /\ ~(failed /\ plan.failFast)

CanLaunch == /\ ready # <<>>
             /\ Cardinality(inflight) < Limit(plan)
             /\ ~(failed /\ plan.failFast)

\* One turn of the inner loop: shift an id, drop it if it has a result, otherwise
\* call launch, which runs up to the await of runTask.  An unsupported target is
\* answered before that await.
Launch ==
  /\ loop = "filling"
  /\ CanLaunch
  /\ LET t == Head(ready)
     IN  /\ ready' = Tail(ready)
         /\ IF results[t] # "none"
            THEN UNCHANGED <<phase, answer, inflight>>
            ELSE /\ inflight' = inflight \cup {t}
                 /\ IF plan.kind[t] = "unsupported"
                    THEN /\ phase' = [phase EXCEPT ![t] = "returned"]
                         /\ answer' = [answer EXCEPT ![t] = "unsupported"]
                    ELSE /\ phase' = [phase EXCEPT ![t] = "executing"]
                         /\ UNCHANGED answer
  /\ UNCHANGED <<plan, pending, results, failed, woken, loop, jobResults, attested, exitCode>>

\* The inner loop has launched what it can; wait for any promise in flight.
AwaitRace ==
  /\ loop = "filling" /\ ~CanLaunch /\ inflight # {}
  /\ loop' = "racing" /\ woken' = FALSE
  /\ UNCHANGED <<plan, pending, ready, results, failed, phase, answer, inflight, jobResults,
                 attested, exitCode>>

\* Promise.race resolved.
Resume ==
  /\ loop = "racing" /\ woken
  /\ loop' = "filling"
  /\ UNCHANGED <<plan, pending, ready, results, failed, phase, answer, inflight, woken,
                 jobResults, attested, exitCode>>

\* Nothing in flight and nothing to launch: everything without a result is skipped,
\* and `run' derives its exit code from the results.
Finish ==
  /\ loop = "filling" /\ ~CanLaunch /\ inflight = {}
  /\ loop' = "finished"
  /\ results' = [t \in Task |-> IF results[t] # "none" THEN results[t]
                                ELSE IF failed THEN "stopped" ELSE "notScheduled"]
  /\ exitCode' = IF \E t \in Task : results'[t] = "failure" THEN "one" ELSE "zero"
  /\ UNCHANGED <<plan, pending, ready, failed, phase, answer, inflight, woken, jobResults,
                 attested>>
-----------------------------------------------------------------------------
(* The runTask callback, from execute()'s completion to its return *)

Returns(t, status) == /\ loop = "racing"
                      /\ phase[t] = "executing"
                      /\ phase' = [phase EXCEPT ![t] = "returned"]
                      /\ answer' = [answer EXCEPT ![t] = status]
                      /\ UNCHANGED <<plan, pending, ready, results, failed, inflight, woken,
                                     loop, exitCode>>

\* execute() resolves: the result is recorded for dependents, then attested.
ExecuteReturns(t) == \E status \in {"success", "failure"} :
  /\ plan.kind[t] = "sandbox"
  /\ Returns(t, status)
  /\ jobResults' = [jobResults EXCEPT ![t] = status]
  /\ attested' = attested \cup {t}

\* execute() throws: the callback answers failure before either.
ExecuteThrows(t) ==
  /\ plan.kind[t] = "sandbox"
  /\ Returns(t, "failure")
  /\ UNCHANGED <<jobResults, attested>>

\* Writing the attestation throws out of the callback: launch turns it into a failure.
AttestationFails(t) == \E status \in {"success", "failure"} :
  /\ plan.kind[t] = "sandbox"
  /\ Returns(t, "failure")
  /\ jobResults' = [jobResults EXCEPT ![t] = status]
  /\ UNCHANGED attested

\* runPublishTask: a record only for a success, nothing in jobResults.
PublishReturns(t) == \E status \in {"success", "failure"} :
  /\ plan.kind[t] = "publish"
  /\ Returns(t, status)
  /\ attested' = IF status = "success" THEN attested \cup {t} ELSE attested
  /\ UNCHANGED jobResults
-----------------------------------------------------------------------------
(* The rest of launch(id), and the removal of its promise *)

SettleFailure(t) ==
  /\ loop = "racing"
  /\ phase[t] = "returned" /\ answer[t] = "failure"
  /\ phase' = [phase EXCEPT ![t] = "settled"]
  /\ failed' = TRUE
  /\ results' = [d \in Task |-> IF d = t THEN "failure"
                                ELSE IF d \in skipDependents(t) THEN "depFailed"
                                ELSE results[d]]
  /\ UNCHANGED <<plan, pending, ready, answer, inflight, woken, loop, jobResults, attested,
                 exitCode>>

SettleGood(t) ==
  /\ loop = "racing"
  /\ phase[t] = "returned" /\ answer[t] \in Good
  /\ phase' = [phase EXCEPT ![t] = "settled"]
  /\ results' = [results EXCEPT ![t] = answer[t]]
  /\ LET counted == {d \in dependents(t) : results'[d] = "none"}
     IN  /\ pending' = [d \in Task |-> IF d \in counted THEN pending[d] - 1 ELSE pending[d]]
         /\ \E pushed \in InTaskOrder(freed(counted, pending')) : ready' = ready \o pushed
  /\ UNCHANGED <<plan, failed, answer, inflight, woken, loop, jobResults, attested, exitCode>>

DeletedSilently(t) ==
  /\ loop = "racing"
  /\ phase[t] = "settled" /\ t \in inflight
  /\ inflight' = inflight \ {t}
  /\ UNCHANGED <<plan, pending, ready, results, failed, phase, answer, woken, loop, jobResults,
                 attested, exitCode>>

\* launch(id).then(() => inflight.delete(p)); resolving p ends the race.
Deleted(t) ==
  /\ loop = "racing"
  /\ phase[t] = "settled" /\ t \in inflight
  /\ inflight' = inflight \ {t}
  /\ woken' = TRUE
  /\ UNCHANGED <<plan, pending, ready, results, failed, phase, answer, loop, jobResults,
                 attested, exitCode>>

Terminated == loop = "finished" /\ UNCHANGED vars

Answers(t) == \/ ExecuteReturns(t) \/ ExecuteThrows(t) \/ AttestationFails(t)
              \/ PublishReturns(t)

Settles(t) == SettleFailure(t) \/ SettleGood(t) \/ Deleted(t)

TaskStep(t) == Answers(t) \/ Settles(t)

LoopStep == Launch \/ AwaitRace \/ Resume \/ Finish

Next == LoopStep \/ (\E t \in Task : TaskStep(t)) \/ Terminated

\* Callbacks that can run do run.  Nothing makes runTask answer: a task may wait in get()
\* for an end of the stream that never comes (SandboxLife, StuckGet).
Fairness == WF_vars(LoopStep) /\ \A t \in Task : WF_vars(Settles(t))

Spec == Init /\ [][Next]_vars /\ Fairness
-----------------------------------------------------------------------------
(* Properties *)

\* A task is handed to runTask only after every task it needs concluded well.  A sandboxed
\* task then finds the outputs of every sandboxed need in jobResults (needsScope reads them
\* at launch), and every need that did anything has its attestation on disk: nothing is
\* built on a link that has no record.
StartsAfterNeeds ==
  \A t \in Task : phase[t] # "idle" =>
    \A n \in plan.needs[t] :
      /\ results[n] \in Good
      /\ plan.kind[n] = "sandbox" => jobResults[n] = "success"
      /\ plan.kind[n] # "unsupported" => n \in attested

\* "depFailed" is the verdict of exactly the tasks below a failure, at every moment:
\* the cascade neither misses a task behind another skipped one nor hits a bystander.
CascadeExact ==
  \A d \in Task :
    (results[d] = "depFailed") <=> (\E n \in plan.needs[d] : results[n] \in {"failure", "depFailed"})

\* No barrier between levels: when the loop sleeps with no wake-up under way, every
\* task whose needs are all concluded has been started, unless the cap is reached or
\* fail-fast stopped the queue.
NoBarrier ==
  (loop = "racing" /\ ~woken /\ ~(failed /\ plan.failFast)
     /\ Cardinality(inflight) < Limit(plan) /\ \A t \in inflight : phase[t] # "settled")
  => \A t \in Task : (\A n \in plan.needs[t] : results[n] \in Good) => phase[t] # "idle"

\* At the end nobody was forgotten: a task is left without a run of its own only
\* below a failure, or because fail-fast stopped the queue.  "not scheduled", the
\* scheduler's own last resort, is never the reason.
NobodyForgotten ==
  loop = "finished" =>
    \A t \in Task : /\ results[t] # "notScheduled"
                    /\ results[t] = "stopped" => failed /\ plan.failFast
                    /\ results[t] \in Good \cup {"failure"} <=> phase[t] = "settled"

\* A call of schedule returns, unless it waits in the race for tasks none of which is ever
\* answered: as long as one of those in flight answers, the loop goes on.
Terminates ==
  \/ <>(loop = "finished")
  \/ <>[](loop = "racing" /\ inflight # {} /\ \A t \in inflight : phase[t] = "executing")

\* The ready queue, counters and promises implement the promise of TaskGraph.
ImplementsTaskGraph == Graph!Spec
=============================================================================
