------------------------------ MODULE TaskRun ------------------------------
(***************************************************************************)
(* TaskRun.execute (lib/run/index.js): one task in one sandbox, from       *)
(* prepare to dispose.  Every await is a place where the sandbox, the      *)
(* store or the workflow itself can fail; a throw anywhere goes through    *)
(* the same catch and finally.                                             *)
(*                                                                         *)
(* What a step's exec resolves with is chosen from the results StepExec    *)
(* shows possible; what `if:' paths and interpolations yield is chosen     *)
(* freely, since it depends on the workflow's values.                      *)
(*                                                                         *)
(* An operator that no action uses is the following definition with a bug  *)
(* in it, kept to show that the properties notice.                         *)
(***************************************************************************)
EXTENDS Naturals, Sequences, FiniteSets

CONSTANTS NSteps,     \* steps of the job
          NIns,       \* input artifacts
          NOuts,      \* output artifacts
          Jobs        \* jobs considered

Step == 1..NSteps
Out == 1..NOuts

\* What an if: says: nothing, a status function, or something about the scope's values.
Condition == {"unset", "success", "failure", "always", "cancelled", "values"}

\* ifNoFilesFound of an output artifact.
Policy == {"error", "warn", "ignore"}

Job == [source : BOOLEAN,                 \* has a source directory
        prefetch : BOOLEAN,               \* has prefetched dependencies
        if : [Step -> Condition],
        continueOnError : [Step -> BOOLEAN],
        out : [Out -> Policy]]

ASSUME JobsAssumption == /\ NSteps \in Nat /\ NIns \in Nat /\ NOuts \in Nat
                         /\ Jobs \subseteq Job

VARIABLES job,
          pc,         \* the await execute() stands at
          index,      \* how many inputs, steps or outputs the loop of pc has done
          failed,     \* this.failed
          status,     \* this.status
          steps,      \* this.steps: step, outcome and conclusion
          visible,    \* steps whose outputs later expressions can read
          stored,     \* output artifacts in the store
          artifacts,  \* this.artifacts: those the result reports
          box,        \* the sandbox: none, ready, disposed
          outcome     \* how the promise of execute() settled

vars == <<job, pc, index, failed, status, steps, visible, stored, artifacts, box, outcome>>

Conclusion == {"success", "failure", "cancelled", "skipped"}

TypeOK == /\ job \in Jobs
          /\ pc \in {"prepare", "source", "cache", "inputs", "steps", "running", "resolve",
                     "collect", "dispose", "done"}
          /\ index \in 0..(NIns + NSteps + NOuts)
          /\ failed \in BOOLEAN
          /\ status \in {"running", "success", "failure"}
          /\ steps \in Seq([step : Step, outcome : Conclusion, conclusion : Conclusion])
          /\ Len(steps) <= NSteps + 1
          /\ visible \in SUBSET Step
          /\ stored \in SUBSET Out
          /\ artifacts \in SUBSET Out
          /\ box \in {"none", "ready", "disposed"}
          /\ outcome \in {"pending", "returned", "threw"}

Init == /\ job \in Jobs
        /\ pc = "prepare" /\ index = 0
        /\ failed = FALSE /\ status = "running"
        /\ steps = <<>> /\ visible = {}
        /\ stored = {} /\ artifacts = {}
        /\ box = "none" /\ outcome = "pending"

-----------------------------------------------------------------------------
At(place) == pc = place /\ UNCHANGED <<job, outcome>>

Goto(place) == pc' = place /\ index' = 0

\* The catch of execute(): the status is failure, and the error goes on once the finally
\* has disposed of the sandbox.
Throw(place) == /\ At(place)
                /\ Goto("dispose")
                /\ status' = "failure"
                /\ UNCHANGED <<failed, steps, visible, stored, artifacts>>

Proceed == UNCHANGED <<failed, status, steps, visible, stored, artifacts>>

\* box.prepare(): spawn, hello, and the check for stray descriptors, which disposes.
Prepare == /\ At("prepare") /\ Proceed
           /\ Goto("source")
           /\ box' = "ready"

PrepareFails == /\ Throw("prepare")
                /\ box' \in {"none", "disposed"}

\* _putSource and _putCache; each may find its directory missing or its put rejected.
PutSource == /\ At("source") /\ Proceed
             /\ Goto("cache")
             /\ UNCHANGED box

PutSourceFails == job.source /\ Throw("source") /\ UNCHANGED box

PutCache == /\ At("cache") /\ Proceed
            /\ Goto("inputs")
            /\ UNCHANGED box

PutCacheFails == job.prefetch /\ Throw("cache") /\ UNCHANGED box

\* _fetchInputs: out of the store, then into the sandbox.
FetchInput == /\ At("inputs") /\ Proceed
              /\ index < NIns
              /\ pc' = pc /\ index' = index + 1
              /\ UNCHANGED box

InputsFetched == /\ At("inputs") /\ Proceed
                 /\ index = NIns
                 /\ Goto("steps")
                 /\ UNCHANGED box

FetchInputFails == index < NIns /\ Throw("inputs") /\ UNCHANGED box

-----------------------------------------------------------------------------
(* The step loop *)

Current == index + 1

\* The condition is carried and not looked at.
EvaluatesParsedOnly(cond) == {TRUE}

\* evaluate(step.if, scope, {failed, cancelled: false})
Evaluates(cond) == CASE cond \in {"unset", "always"} -> {TRUE}
                     [] cond = "success" -> {~failed}
                     [] cond = "failure" -> {failed}
                     [] cond = "cancelled" -> {FALSE}
                     [] cond = "values" -> BOOLEAN

Result(out, concl) == [step |-> Current, outcome |-> out, conclusion |-> concl]

\* The loop breaks on a conclusion of failure.
Breaks(concl) == concl = "failure"

\* execute()'s part after _runStep: record the result, then go on or break.
Record(out, concl, before) ==
  /\ steps' = before \o <<Result(out, concl)>>
  /\ failed' = (failed \/ concl = "failure")
  /\ IF Breaks(concl) THEN Goto("resolve") ELSE pc' = "steps" /\ index' = Current
  /\ UNCHANGED <<status, stored, artifacts, box>>

AtStep == At("steps") /\ index < NSteps

\* The condition cannot be evaluated: _runStep records a failure, and so does its caller.
ConditionThrows == /\ AtStep /\ job.if[Current] = "values"
                   /\ Record("failure", "failure", Append(steps, Result("failure", "failure")))
                   /\ UNCHANGED visible

SkipStep == /\ AtStep /\ FALSE \in Evaluates(job.if[Current])
            /\ Record("skipped", "skipped", steps)
            /\ UNCHANGED visible

InterpolationThrows == /\ AtStep /\ TRUE \in Evaluates(job.if[Current])
                       /\ Record("failure", "failure", steps)
                       /\ UNCHANGED visible

StartStep == /\ AtStep /\ TRUE \in Evaluates(job.if[Current])
             /\ pc' = "running"
             /\ UNCHANGED <<index, box>> /\ Proceed

OutcomeOf(code, cancelled) ==
  IF code = "zero" THEN "success" ELSE IF cancelled THEN "cancelled" ELSE "failure"

ConclusionSwapped(out, soft) == IF out = "failure" /\ soft THEN out
                                ELSE IF out = "failure" THEN "success" ELSE out

ConclusionOf(out, soft) == IF out # "success" /\ soft THEN "success" ELSE out

\* exec.wait() resolves.
StepSettles ==
  /\ At("running")
  /\ \E code \in {"zero", "nonzero", "lost"}, cancelled \in BOOLEAN :
       LET out == OutcomeOf(code, cancelled)
       IN  Record(out, ConclusionOf(out, job.continueOnError[Current]), steps)
  /\ visible' = visible \cup {Current}

StepsDone == /\ At("steps") /\ index = NSteps
             /\ Goto("resolve")
             /\ UNCHANGED box /\ Proceed

-----------------------------------------------------------------------------
(* After the steps *)

FinalStatusIgnoresBreak == IF Len(steps) = 0 THEN "failure" ELSE "success"

FinalStatus == IF failed THEN "failure" ELSE "success"

\* A failed task has nothing to resolve or to collect.
Resolve == /\ At("resolve")
           /\ status' = FinalStatus
           /\ Goto(IF FinalStatus = "success" THEN "collect" ELSE "dispose")
           /\ UNCHANGED <<failed, steps, visible, stored, artifacts, box>>

\* A declared output does not resolve.
ResolveFails == FinalStatus = "success" /\ Throw("resolve") /\ UNCHANGED box

Collecting == At("collect") /\ index < NOuts

\* get and store.put have succeeded.
Collect == /\ Collecting
           /\ stored' = stored \cup {Current}
           /\ pc' = pc /\ index' = Current
           /\ UNCHANGED <<failed, status, steps, visible, artifacts, box>>

\* get failed or matched no file, and the policy allows that.
CollectNothing == /\ Collecting /\ job.out[Current] # "error"
                  /\ pc' = pc /\ index' = Current
                  /\ UNCHANGED box /\ Proceed

\* get or store.put throws, or nothing matched and the policy is error.
CollectFails == index < NOuts /\ Throw("collect") /\ UNCHANGED box

CollectedReportsAll == /\ At("collect") /\ index = NOuts
                       /\ artifacts' = Out
                       /\ Goto("dispose")
                       /\ UNCHANGED <<failed, status, steps, visible, stored, box>>

\* _collectOutputs returns: only now does the task know its artifacts.
Collected == /\ At("collect") /\ index = NOuts
             /\ artifacts' = stored
             /\ Goto("dispose")
             /\ UNCHANGED <<failed, status, steps, visible, stored, box>>

\* The finally, and what the promise settles with.
Dispose == /\ pc = "dispose"
           /\ box' = "disposed"
           /\ Goto("done")
           /\ outcome' = IF status = "failure" /\ ~failed THEN "threw" ELSE "returned"
           /\ UNCHANGED job /\ Proceed

Done == pc = "done" /\ UNCHANGED vars

Inputs == \/ Prepare \/ PrepareFails
          \/ PutSource \/ PutSourceFails \/ PutCache \/ PutCacheFails
          \/ FetchInput \/ InputsFetched \/ FetchInputFails

StepLoop == \/ ConditionThrows \/ SkipStep \/ InterpolationThrows
            \/ StartStep \/ StepSettles \/ StepsDone

Outputs == \/ Resolve \/ ResolveFails
           \/ Collect \/ CollectNothing \/ CollectFails \/ Collected

Next == Inputs \/ StepLoop \/ Outputs \/ Dispose \/ Done

Spec == Init /\ [][Next]_vars

-----------------------------------------------------------------------------
(* Properties *)

\* Nothing reaches the store unless the step loop went through every step without one
\* that failed: not after a break, nor from a task that gave up on its inputs.
StoresOnlyWholeRuns ==
  stored # {} => /\ Len(steps) = NSteps
                 /\ \A i \in 1..Len(steps) : steps[i].conclusion # "failure"

\* A task that reports success hides no failure: every step that failed was allowed to.
FailureIsNeverHidden ==
  (outcome = "returned" /\ status = "success") =>
    \A i \in 1..Len(steps) :
      steps[i].outcome = "failure" => job.continueOnError[steps[i].step]

\* Whether a step whose entry is the i-th comes after one that failed.
FailedBefore(i) == \E k \in 1..(i - 1) : steps[k].conclusion = "failure"

\* What a condition that does not ask for values says at the i-th entry.
Holds(cond, i) == \/ cond \in {"unset", "always"}
                  \/ cond = "success" /\ ~FailedBefore(i)
                  \/ cond = "failure" /\ FailedBefore(i)

\* "`if:' is EVALUATED, not merely parsed" (lib/run/index.js:319), for the steps a result
\* lists: each is listed as skipped exactly when its condition said so of the steps listed
\* before it.  They are those of the job, in order and without a gap, all of them if the
\* task succeeded; only the last may be listed twice, when its condition cannot be
\* evaluated.  Nothing is said of the steps after one that failed, which are not listed,
\* whatever their conditions: IfIsEvaluated is about those.
ConditionsHonoured ==
  /\ \A i \in 1..Len(steps) :
       /\ \/ steps[i].step = i
          \/ i = Len(steps) /\ steps[i].step = i - 1 /\ steps[i].conclusion = "failure"
       /\ \/ job.if[steps[i].step] = "values"
          \/ steps[i].outcome # "skipped" <=> Holds(job.if[steps[i].step], i)
  /\ outcome = "returned" /\ status = "success" => Len(steps) = NSteps

\* "Carrying a condition without honouring it would be the exact GHA failure mode this
\* project exists to avoid" (lib/run/index.js:319): a step that asks to run whatever happens,
\* or after a failure, has been looked at when the task returns, and not skipped where its
\* condition holds.
IfIsEvaluated ==
  outcome = "returned" =>
    \A s \in Step :
      \/ job.if[s] = "always"
      \/ job.if[s] = "failure" /\ \E i \in 1..Len(steps) :
                                   steps[i].step < s /\ steps[i].conclusion = "failure"
      => \E i \in 1..Len(steps) : steps[i].step = s /\ steps[i].outcome # "skipped"

\* The artifacts a result reports, which the attestation will record, are what the task
\* put into the store; a task that returns a failure has stored nothing.
ReportMatchesStore ==
  outcome = "returned" => /\ artifacts = stored
                          /\ status = "failure" => stored = {}

\* "Only collect artifacts from a task that succeeded: publishing the output of a failed
\* build is how a broken binary ends up downstream" (lib/run/index.js): whatever is in the
\* store comes from a run in which every step that had to succeed did.
StoresOnlyGoodBuilds ==
  stored # {} => \A i \in 1..Len(steps) : steps[i].conclusion \in {"success", "skipped"}
=============================================================================
