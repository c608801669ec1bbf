--------------------------- MODULE TaskRunProofs ---------------------------
(***************************************************************************)
(* Theorems about one task for any number of steps and artifacts.  Inv     *)
(* adds to the types what each place in execute() may rely on: how far the *)
(* steps have come, that `failed' tells whether one of them failed, and    *)
(* when there can be something in the store.                               *)
(***************************************************************************)
EXTENDS TaskRun, SequenceTheorems, TLAPS

Entry == [step : Step, outcome : Conclusion, conclusion : Conclusion]

\* The conditions under which a step runs, as long as none has failed; a condition that asks
\* for values may say either.
Runs(cond) == cond \in {"unset", "always", "success"}

\* How far execute() has come at each await.
PlaceInv ==
  /\ pc \in {"prepare", "source", "cache", "inputs"} => steps = <<>>
  /\ pc = "inputs" => index \in 0..NIns
  /\ pc \in {"steps", "running"} => index \in 0..NSteps /\ Len(steps) = index /\ ~failed
  /\ pc = "running" => /\ index < NSteps
                       /\ job.if[Current] = "values" \/ Runs(job.if[Current])
  /\ pc = "resolve" => failed \/ Len(steps) = NSteps
  /\ pc = "collect" => /\ ~failed /\ Len(steps) = NSteps /\ status = "success"
                       /\ index \in 0..NOuts
  /\ pc \notin {"collect", "dispose", "done"} => status = "running"

\* The entries are those of the job in order, but for a doubled last one.
Listed == \A i \in 1..Len(steps) :
            \/ steps[i].step = i
            \/ i = Len(steps) /\ steps[i].step = i - 1 /\ steps[i].conclusion = "failure"

\* Each is skipped or not as its condition says.
Heard == \A i \in 1..Len(steps) :
           \/ job.if[steps[i].step] = "values"
           \/ steps[i].outcome # "skipped" <=> Holds(job.if[steps[i].step], i)

\* What the recorded steps say.
StepsInv ==
  /\ failed <=> \E i \in 1..Len(steps) : steps[i].conclusion = "failure"
  /\ ~failed => \A i \in 1..Len(steps) : steps[i].step = i
  /\ Listed /\ Heard
  /\ \A i \in 1..Len(steps) :
       steps[i].outcome = "failure" => \/ steps[i].conclusion = "failure"
                                       \/ job.continueOnError[steps[i].step]

\* What the store and the report say.
StoreInv ==
  /\ stored # {} => /\ pc \in {"collect", "dispose", "done"}
                    /\ ~failed /\ Len(steps) = NSteps
  /\ pc \in {"dispose", "done"} => /\ status \in {"success", "failure"}
                                   /\ status = "success" => ~failed /\ artifacts = stored
                                   /\ status = "failure" => artifacts = {}
  /\ pc \notin {"dispose", "done"} => artifacts = {}
  /\ status = "success" => ~failed /\ Len(steps) = NSteps
  /\ outcome # "pending" => pc = "done"
  /\ outcome = "returned" => status = "success" \/ failed

Inv == TypeOK /\ PlaceInv /\ StepsInv /\ StoreInv
-----------------------------------------------------------------------------
LEMMA InitInv == Init => Inv
<1> SUFFICES ASSUME Init PROVE Inv
  OBVIOUS
<1> USE JobsAssumption DEF Init
<1>1. TypeOK
  <2>1. steps \in Seq(Entry) /\ Len(steps) <= NSteps + 1
    OBVIOUS
  <2>2. 0 \in 0..(NIns + NSteps + NOuts)
    OBVIOUS
  <2>3. QED
    BY <2>1, <2>2 DEF TypeOK, Entry
<1>2. PlaceInv
  BY DEF PlaceInv
<1>3. StepsInv
  BY DEF StepsInv, Listed, Heard, Holds, FailedBefore
<1>4. StoreInv
  BY DEF StoreInv
<1>5. QED
  BY <1>1, <1>2, <1>3, <1>4 DEF Inv

\* One more element at the end of a sequence.
LEMMA OneMore ==
  ASSUME NEW S, NEW s \in Seq(S), NEW e \in S
  PROVE  /\ s \o <<e>> \in Seq(S)
         /\ Len(s \o <<e>>) = Len(s) + 1
         /\ \A i \in 1..Len(s) : (s \o <<e>>)[i] = s[i]
         /\ (s \o <<e>>)[Len(s) + 1] = e
<1>1. <<e>> \in Seq(S) /\ Len(<<e>>) = 1 /\ <<e>>[1] = e
  OBVIOUS
<1>2. Len(s) \in Nat
  OBVIOUS
<1>3. s \o <<e>> \in Seq(S) /\ Len(s \o <<e>>) = Len(s) + Len(<<e>>)
  BY <1>1, ConcatProperties
<1>4. \A i \in 1..(Len(s) + Len(<<e>>)) :
        (s \o <<e>>)[i] = IF i <= Len(s) THEN s[i] ELSE <<e>>[i - Len(s)]
  BY <1>1, ConcatProperties
<1>5. \A i \in 1..Len(s) : (s \o <<e>>)[i] = s[i]
  BY <1>1, <1>2, <1>4
<1>6. (s \o <<e>>)[Len(s) + 1] = <<e>>[1]
  BY <1>1, <1>2, <1>4
<1>7. QED
  BY <1>1, <1>3, <1>5, <1>6

\* A step that leaves the loop's records and the store alone.
LEMMA QuietInv ==
  ASSUME Inv,
         UNCHANGED <<job, failed, status, steps, visible, stored, artifacts, outcome>>,
         pc' \in {"source", "cache", "inputs", "steps", "running", "resolve", "collect"},
         pc \in {"prepare", "source", "cache", "inputs", "steps", "collect"},
         pc = "collect" => pc' = "collect",
         index' \in 0..(NIns + NSteps + NOuts),
         box' \in {"none", "ready", "disposed"},
         PlaceInv'
  PROVE  Inv'
<1>1. TypeOK'
  BY DEF Inv, TypeOK
<1>2. StepsInv'
  BY DEF Inv, StepsInv, Listed, Heard, Holds, FailedBefore
<1>3. StoreInv'
  <2>1. stored # {} => pc = "collect" /\ pc' = "collect"
    BY DEF Inv, StoreInv, PlaceInv
  <2>2. QED
    BY <2>1 DEF Inv, StoreInv
<1>4. QED
  BY <1>1, <1>2, <1>3 DEF Inv

\* A throw anywhere before the finally.
LEMMA ThrowInv ==
  ASSUME Inv, NEW place \in {"prepare", "source", "cache", "inputs", "resolve", "collect"},
         Throw(place),
         place = "resolve" => ~failed,
         box' \in {"none", "ready", "disposed"}
  PROVE  Inv'
<1> USE DEF Throw, At, Goto
<1>1. TypeOK'
  <2>1. 0 \in 0..(NIns + NSteps + NOuts)
    BY JobsAssumption
  <2>2. QED
    BY <2>1 DEF Inv, TypeOK
<1>2. PlaceInv'
  BY DEF PlaceInv
<1>3. StepsInv'
  BY DEF Inv, StepsInv, Listed, Heard, Holds, FailedBefore
<1>4. StoreInv'
  <2>1. stored # {} => ~failed /\ Len(steps) = NSteps
    BY DEF Inv, StoreInv
  <2>2. artifacts = {} /\ outcome = "pending"
    BY DEF Inv, StoreInv
  <2>3. QED
    BY <2>1, <2>2 DEF StoreInv
<1>5. QED
  BY <1>1, <1>2, <1>3, <1>4 DEF Inv

\* What _runStep makes of a condition, as long as no step has failed.
LEMMA EvaluatesRuns ==
  ASSUME ~failed, NEW c \in Condition, NEW b \in BOOLEAN, b \in Evaluates(c)
  PROVE  c = "values" \/ (b <=> Runs(c))
<1>1. CASE c \in {"unset", "always"}
  BY <1>1, Zenon DEF Evaluates, Runs
<1>2. CASE c = "success"
  BY <1>2, Zenon DEF Evaluates, Runs
<1>3. CASE c = "failure"
  BY <1>3, Zenon DEF Evaluates, Runs
<1>4. CASE c = "cancelled"
  BY <1>4, Zenon DEF Evaluates, Runs
<1>5. QED
  BY <1>1, <1>2, <1>3, <1>4 DEF Condition

\* One turn of the step loop that leaves a record; a condition that cannot be evaluated
\* leaves two.
LEMMA RecordInv ==
  ASSUME Inv, pc \in {"steps", "running"}, index < NSteps,
         NEW out \in Conclusion, NEW concl \in Conclusion, NEW before,
         \/ before = steps
         \/ /\ before = Append(steps, Result("failure", "failure"))
            /\ concl = "failure",
         before = steps \/ job.if[Current] = "values",
         job.if[Current] = "values" \/ (out # "skipped" <=> Runs(job.if[Current])),
         out = "failure" => concl = "failure" \/ job.continueOnError[Current],
         Record(out, concl, before),
         UNCHANGED <<job, outcome>>,
         visible' \in SUBSET Step
  PROVE  Inv'
<1> DEFINE e == Result(out, concl)
           f == Result("failure", "failure")
           n == Len(before)
<1>1. /\ index \in 0..NSteps /\ Len(steps) = index /\ ~failed
      /\ steps \in Seq(Entry) /\ stored = {} /\ artifacts = {} /\ outcome = "pending"
      /\ status = "running"
  BY DEF Inv, PlaceInv, StoreInv, TypeOK, Entry
<1>2. NSteps \in Nat /\ NIns \in Nat /\ NOuts \in Nat
  BY JobsAssumption
<1>3. Current \in Step /\ Current = index + 1
  BY <1>1, <1>2 DEF Current, Step
<1>4. e \in Entry /\ f \in Entry
  BY <1>3 DEF Result, Entry, Conclusion
<1>5. /\ e.step = Current /\ e.outcome = out /\ e.conclusion = concl
      /\ f.step = Current /\ f.outcome = "failure" /\ f.conclusion = "failure"
  BY DEF Result
<1>6. /\ before \in Seq(Entry) /\ n \in {index, index + 1}
      /\ n = index + 1 => before[n] = f /\ concl = "failure"
      /\ \A i \in 1..index : before[i] = steps[i]
  BY <1>1, <1>4
<1>7. /\ steps' \in Seq(Entry) /\ Len(steps') = n + 1
      /\ \A i \in 1..n : steps'[i] = before[i]
      /\ steps'[n + 1] = e
  BY <1>4, <1>6, OneMore DEF Record
<1>8. n \in Nat /\ index \in Nat
  BY <1>1, <1>6, <1>2
<1> HIDE DEF e, f, n
<1>9. \A i \in 1..index : steps'[i] = steps[i]
  BY <1>6, <1>7, <1>8
<1>10. \A i \in 1..(n + 1) :
         \/ (i \in 1..index /\ steps'[i] = steps[i])
         \/ (i = index + 1 /\ i = n /\ steps'[i] = f /\ concl = "failure")
         \/ (i = n + 1 /\ steps'[i] = e)
  BY <1>6, <1>7, <1>8, <1>9
<1>11. \A i \in 1..index : /\ steps[i].step = i /\ steps[i].conclusion # "failure"
                           /\ steps[i].outcome = "failure"
                                => job.continueOnError[steps[i].step]
  BY <1>1 DEF Inv, StepsInv
<1>12. failed' <=> concl = "failure"
  BY <1>1 DEF Record
<1>13. TypeOK'
  <2>1. Len(steps') <= NSteps + 1
    BY <1>1, <1>2, <1>6, <1>7, <1>8
  <2>2. index' \in 0..(NIns + NSteps + NOuts) /\ pc' \in {"resolve", "steps"}
    BY <1>1, <1>2, <1>3 DEF Record, Goto
  <2>3. failed' \in BOOLEAN
    BY DEF Record, Inv, TypeOK
  <2>4. QED
    BY <1>7, <2>1, <2>2, <2>3 DEF Inv, TypeOK, Record, Entry
<1>14. PlaceInv'
  <2>1. CASE concl = "failure"
    BY <2>1, <1>1, <1>12 DEF Record, Breaks, Goto, PlaceInv
  <2>2. CASE concl # "failure"
    <3>1. n = index
      BY <2>2, <1>6
    <3>2. pc' = "steps" /\ index' = index + 1 /\ Len(steps') = index' /\ ~failed'
      BY <2>2, <3>1, <1>3, <1>7, <1>12 DEF Record, Breaks
    <3>3. index' \in 0..NSteps
      BY <3>2, <1>1, <1>2
    <3>4. QED
      BY <3>2, <3>3, <1>1 DEF PlaceInv, Record
  <2>3. QED
    BY <2>1, <2>2
<1>15. StepsInv'
  <2>1. failed' <=> \E i \in 1..Len(steps') : steps'[i].conclusion = "failure"
    <3>1. CASE concl = "failure"
      <4>1. n + 1 \in 1..Len(steps') /\ steps'[n + 1].conclusion = "failure"
        BY <3>1, <1>5, <1>7, <1>8
      <4>2. QED
        BY <4>1, <3>1, <1>12
    <3>2. CASE concl # "failure"
      <4>1. \A i \in 1..Len(steps') : steps'[i].conclusion # "failure"
        BY <3>2, <1>5, <1>7, <1>10, <1>11
      <4>2. QED
        BY <4>1, <3>2, <1>12
    <3>3. QED
      BY <3>1, <3>2
  <2>2. ~failed' => \A i \in 1..Len(steps') : steps'[i].step = i
    <3>1. concl # "failure" => n = index
      BY <1>6
    <3>2. QED
      BY <3>1, <1>3, <1>5, <1>7, <1>10, <1>11, <1>12
  <2>3. Listed'
    <3>1. ASSUME NEW i \in 1..Len(steps')
          PROVE  \/ steps'[i].step = i
                 \/ /\ i = Len(steps') /\ steps'[i].step = i - 1
                    /\ steps'[i].conclusion = "failure"
      <4>1. CASE i \in 1..index
        BY <4>1, <1>9, <1>11
      <4>2. CASE i = index + 1
        BY <4>2, <1>3, <1>5, <1>7, <1>10, <1>8
      <4>3. CASE i = index + 2
        BY <4>3, <1>3, <1>5, <1>6, <1>7, <1>8
      <4>4. QED
        BY <4>1, <4>2, <4>3, <1>6, <1>7, <1>8
    <3>2. QED
      BY <3>1 DEF Listed
  <2>6. Heard'
    <3>2. \A i \in 1..(index + 1) : \A k \in 1..(i - 1) : steps'[k].conclusion # "failure"
      <4>1. \A i \in 1..(index + 1) : \A k \in 1..(i - 1) : k \in 1..index
        BY <1>8
      <4>2. QED
        BY <4>1, <1>9, <1>11
    <3>3. \A i \in 1..index : \A k \in 1..(i - 1) : steps[k].conclusion # "failure"
      <4>1. \A i \in 1..index : \A k \in 1..(i - 1) : k \in 1..index
        BY <1>8
      <4>2. QED
        BY <4>1, <1>11
    <3>4. ASSUME NEW i \in 1..Len(steps')
          PROVE  \/ job'.if[steps'[i].step] = "values"
                 \/ steps'[i].outcome # "skipped" <=> Holds(job.if[steps[i].step], i)'
      <4>1. CASE i \in 1..index
        <5>1. \/ job.if[steps[i].step] = "values"
              \/ steps[i].outcome # "skipped" <=> Holds(job.if[steps[i].step], i)
          BY <4>1, <1>1 DEF Inv, StepsInv, Heard
        <5>2. ~FailedBefore(i) /\ ~FailedBefore(i)'
          BY <4>1, <3>2, <3>3, <1>8 DEF FailedBefore
        <5>3. QED
          BY <4>1, <5>1, <5>2, <1>9 DEF Holds
      <4>2. CASE i = index + 1 /\ n = index
        <5>1. ~FailedBefore(i)'
          BY <4>2, <3>2, <1>8 DEF FailedBefore
        <5>2. steps'[i].step = Current /\ steps'[i].outcome = out
          BY <4>2, <1>5, <1>7
        <5>3. QED
          BY <5>1, <5>2 DEF Holds, Runs
      <4>3. CASE i \in {index + 1, index + 2} /\ n = index + 1
        <5>1. job.if[Current] = "values"
          <6>1. before # steps
            BY <4>3, <1>1, <1>8 DEF n
          <6>2. QED
            BY <6>1
        <5>2. steps'[i].step = Current
          BY <4>3, <1>5, <1>6, <1>7, <1>8
        <5>3. QED
          BY <5>1, <5>2
      <4>4. QED
        BY <4>1, <4>2, <4>3, <1>6, <1>7, <1>8
    <3>5. QED
      BY <3>4 DEF Heard
  <2>4. \A i \in 1..Len(steps') :
          steps'[i].outcome = "failure" => \/ steps'[i].conclusion = "failure"
                                           \/ job'.continueOnError[steps'[i].step]
    BY <1>3, <1>5, <1>7, <1>10, <1>11
  <2>5. QED
    BY <2>1, <2>2, <2>3, <2>4, <2>6 DEF StepsInv
<1>16. StoreInv'
  <2>1. pc' \in {"resolve", "steps"}
    BY DEF Record, Goto
  <2>2. QED
    BY <2>1, <1>1 DEF StoreInv, Record
<1>17. QED
  BY <1>13, <1>14, <1>15, <1>16 DEF Inv

LEMMA InputsInv ==
  ASSUME Inv, Inputs
  PROVE  Inv'
<1> USE JobsAssumption DEF At, Proceed, Goto
<1>1. CASE Prepare
  <2>1. PlaceInv'
    BY <1>1 DEF Prepare, Inv, PlaceInv
  <2>2. QED
    BY <1>1, <2>1, QuietInv DEF Prepare
<1>2. CASE PrepareFails
  BY <1>2, ThrowInv DEF PrepareFails
<1>3. CASE PutSource
  <2>1. PlaceInv'
    BY <1>3 DEF PutSource, Inv, PlaceInv
  <2>2. QED
    BY <1>3, <2>1, QuietInv DEF PutSource, Inv, TypeOK
<1>4. CASE PutSourceFails
  BY <1>4, ThrowInv DEF PutSourceFails, Inv, TypeOK
<1>5. CASE PutCache
  <2>1. PlaceInv'
    BY <1>5 DEF PutCache, Inv, PlaceInv
  <2>2. QED
    BY <1>5, <2>1, QuietInv DEF PutCache, Inv, TypeOK
<1>6. CASE PutCacheFails
  BY <1>6, ThrowInv DEF PutCacheFails, Inv, TypeOK
<1>7. CASE FetchInput
  <2>1. PlaceInv' /\ index' \in 0..(NIns + NSteps + NOuts)
    BY <1>7 DEF FetchInput, Inv, PlaceInv
  <2>2. QED
    BY <1>7, <2>1, QuietInv DEF FetchInput, Inv, TypeOK
<1>8. CASE InputsFetched
  <2>1. PlaceInv'
    <3>1. ~failed /\ steps = <<>> /\ status = "running"
      BY <1>8 DEF InputsFetched, Inv, PlaceInv, StepsInv
    <3>2. QED
      BY <1>8, <3>1 DEF InputsFetched, PlaceInv
  <2>2. QED
    BY <1>8, <2>1, QuietInv DEF InputsFetched, Inv, TypeOK
<1>9. CASE FetchInputFails
  BY <1>9, ThrowInv DEF FetchInputFails, Inv, TypeOK
<1>10. QED
  BY <1>1, <1>2, <1>3, <1>4, <1>5, <1>6, <1>7, <1>8, <1>9 DEF Inputs

LEMMA StepLoopInv ==
  ASSUME Inv, StepLoop
  PROVE  Inv'
<1> USE DEF At, Conclusion
<1>1. visible \in SUBSET Step /\ index \in Nat
  BY JobsAssumption DEF Inv, TypeOK
<1>2. CASE ConditionThrows
  BY <1>1, <1>2, RecordInv DEF ConditionThrows, AtStep
<1>9. AtStep => /\ \A b \in Evaluates(job.if[Current]) :
                     b \in BOOLEAN => job.if[Current] = "values" \/ (b <=> Runs(job.if[Current]))
  <2> SUFFICES ASSUME AtStep, NEW b \in Evaluates(job.if[Current]), b \in BOOLEAN
               PROVE  job.if[Current] = "values" \/ (b <=> Runs(job.if[Current]))
    OBVIOUS
  <2>1. job.if[Current] \in Condition
    BY <1>1, JobsAssumption DEF AtStep, Current, Step, Inv, TypeOK, Job
  <2>2. ~failed
    BY DEF AtStep, Inv, PlaceInv
  <2>3. QED
    BY <2>1, <2>2, EvaluatesRuns
<1>3. CASE SkipStep
  <2>1. job.if[Current] = "values" \/ ~Runs(job.if[Current])
    BY <1>3, <1>9 DEF SkipStep
  <2>2. QED
    BY <2>1, <1>1, <1>3, RecordInv DEF SkipStep, AtStep
<1>4. CASE InterpolationThrows
  <2>1. job.if[Current] = "values" \/ Runs(job.if[Current])
    BY <1>4, <1>9 DEF InterpolationThrows
  <2>2. QED
    BY <2>1, <1>1, <1>4, RecordInv DEF InterpolationThrows, AtStep
<1>5. CASE StartStep
  <2>3. job.if[Current] = "values" \/ Runs(job.if[Current])
    BY <1>5, <1>9 DEF StartStep
  <2>1. PlaceInv'
    BY <2>3, <1>5 DEF StartStep, AtStep, Proceed, Inv, PlaceInv, Current
  <2>2. QED
    BY <1>5, <2>1, QuietInv DEF StartStep, AtStep, Proceed, Inv, TypeOK
<1>6. CASE StepSettles
  <2>1. PICK code \in {"zero", "nonzero", "lost"}, cancelled \in BOOLEAN :
          Record(OutcomeOf(code, cancelled),
                 ConclusionOf(OutcomeOf(code, cancelled), job.continueOnError[Current]), steps)
    BY <1>6 DEF StepSettles
  <2>2. PICK out : out = OutcomeOf(code, cancelled)
    OBVIOUS
  <2>3. out \in {"success", "failure", "cancelled"}
    BY <2>2 DEF OutcomeOf
  <2>4. PICK concl : concl = ConclusionOf(out, job.continueOnError[Current])
    OBVIOUS
  <2>5. /\ concl \in Conclusion
        /\ out = "failure" => concl = "failure" \/ job.continueOnError[Current]
    BY <2>3, <2>4 DEF ConclusionOf
  <2>6. pc = "running" /\ index < NSteps
    BY <1>6 DEF StepSettles, Inv, PlaceInv, Current
  <2>7. Current \in Step
    BY <1>1, <2>6, JobsAssumption DEF Current, Step
  <2>8. Record(out, concl, steps) /\ visible' \in SUBSET Step
    BY <1>1, <1>6, <2>1, <2>2, <2>4, <2>7 DEF StepSettles
  <2>10. job.if[Current] = "values" \/ (out # "skipped" <=> Runs(job.if[Current]))
    BY <1>6, <2>3 DEF StepSettles, Inv, PlaceInv
  <2>9. QED
    BY <2>10, <1>6, <2>3, <2>5, <2>6, <2>8, RecordInv DEF StepSettles
<1>7. CASE StepsDone
  <2>1. PlaceInv'
    BY <1>7 DEF StepsDone, Proceed, Goto, Inv, PlaceInv
  <2>2. QED
    BY <1>7, <2>1, QuietInv, JobsAssumption DEF StepsDone, Proceed, Goto, Inv, TypeOK
<1>8. QED
  BY <1>2, <1>3, <1>4, <1>5, <1>6, <1>7 DEF StepLoop

LEMMA ResolveInv ==
  ASSUME Inv, Resolve
  PROVE  Inv'
<1> USE JobsAssumption DEF Resolve, At, Goto, FinalStatus, Inv
<1>1. stored = {} /\ artifacts = {} /\ outcome = "pending"
  BY DEF StoreInv
<1>2. TypeOK'
  BY DEF TypeOK
<1>3. PlaceInv'
  BY DEF PlaceInv
<1>4. StepsInv'
  BY DEF StepsInv, Listed, Heard, Holds, FailedBefore
<1>5. StoreInv'
  BY <1>1 DEF StoreInv, PlaceInv
<1>6. QED
  BY <1>2, <1>3, <1>4, <1>5

LEMMA CollectInv ==
  ASSUME Inv, Collect \/ Collected
  PROVE  Inv'
<1> USE JobsAssumption DEF Collect, Collected, Collecting, At, Goto, Inv
<1>1. /\ pc = "collect" /\ ~failed /\ Len(steps) = NSteps /\ status = "success"
      /\ artifacts = {} /\ outcome = "pending" /\ index \in 0..NOuts
  BY DEF StoreInv, PlaceInv
<1>2. index < NOuts => Current \in Out /\ Current \in 0..NOuts
  BY <1>1 DEF Current, Out
<1>3. TypeOK'
  BY <1>1, <1>2 DEF TypeOK
<1>4. PlaceInv'
  BY <1>1, <1>2 DEF PlaceInv
<1>5. StepsInv'
  BY DEF StepsInv, Listed, Heard, Holds, FailedBefore
<1>6. StoreInv'
  BY <1>1 DEF StoreInv
<1>7. QED
  BY <1>3, <1>4, <1>5, <1>6

LEMMA OutputsInv ==
  ASSUME Inv, Outputs
  PROVE  Inv'
<1>1. CASE Resolve
  BY <1>1, ResolveInv
<1>2. CASE ResolveFails
  BY <1>2, ThrowInv DEF ResolveFails, FinalStatus, Inv, TypeOK
<1>3. CASE Collect \/ Collected
  BY <1>3, CollectInv
<1>4. CASE CollectNothing
  <2> USE <1>4, JobsAssumption DEF CollectNothing, Collecting, At, Proceed, Inv
  <2>1. index \in 0..NOuts /\ index < NOuts
    BY DEF PlaceInv
  <2>2. index' \in 0..NOuts
    BY <2>1 DEF Current
  <2>3. PlaceInv'
    BY <2>2 DEF PlaceInv
  <2>4. index' \in 0..(NIns + NSteps + NOuts)
    BY <2>2
  <2>5. box' \in {"none", "ready", "disposed"}
    BY DEF TypeOK
  <2>6. QED
    BY <2>3, <2>4, <2>5, QuietInv
<1>5. CASE CollectFails
  BY <1>5, ThrowInv DEF CollectFails, Inv, TypeOK
<1>6. QED
  BY <1>1, <1>2, <1>3, <1>4, <1>5 DEF Outputs

LEMMA DisposeInv ==
  ASSUME Inv, Dispose
  PROVE  Inv'
<1> USE JobsAssumption DEF Dispose, Goto, Proceed, Inv
<1>1. TypeOK'
  BY DEF TypeOK
<1>2. PlaceInv'
  BY DEF PlaceInv
<1>3. StepsInv'
  BY DEF StepsInv, Listed, Heard, Holds, FailedBefore
<1>4. StoreInv'
  BY DEF StoreInv
<1>5. QED
  BY <1>1, <1>2, <1>3, <1>4

LEMMA StepInv == Inv /\ [Next]_vars => Inv'
<1> SUFFICES ASSUME Inv, [Next]_vars PROVE Inv'
  OBVIOUS
<1>1. CASE UNCHANGED vars
  <2> USE <1>1 DEF vars, Inv
  <2>1. TypeOK'
    BY DEF TypeOK
  <2>2. PlaceInv'
    BY DEF PlaceInv, Current
  <2>3. StepsInv'
    BY DEF StepsInv, Listed, Heard, Holds, FailedBefore
  <2>4. StoreInv'
    BY DEF StoreInv
  <2>5. QED
    BY <2>1, <2>2, <2>3, <2>4
<1>2. CASE Inputs
  BY <1>2, InputsInv
<1>3. CASE StepLoop
  BY <1>3, StepLoopInv
<1>4. CASE Outputs
  BY <1>4, OutputsInv
<1>5. CASE Dispose
  BY <1>5, DisposeInv
<1>6. QED
  BY <1>1, <1>2, <1>3, <1>4, <1>5 DEF Next, Done

LEMMA SpecInv == Spec => []Inv
<1>1. QED
  BY InitInv, StepInv, PTL DEF Spec
-----------------------------------------------------------------------------
\* The state of execute() keeps its types for any job, and the list of steps has at
\* most one entry more than there are steps (lib/run/index.js, execute and _runStep).
THEOREM TaskRunTypeOK == Spec => []TypeOK
<1>1. Inv => TypeOK
  BY DEF Inv
<1>2. QED
  BY <1>1, SpecInv, PTL

\* For any number of steps and artifacts, what reaches the store comes from a loop that
\* went through every step without a failure (_collectOutputs behind the check of failed).
THEOREM TaskRunStoresOnlyWholeRuns == Spec => []StoresOnlyWholeRuns
<1>1. Inv => StoresOnlyWholeRuns
  BY DEF Inv, StoreInv, StepsInv, StoresOnlyWholeRuns
<1>2. QED
  BY <1>1, SpecInv, PTL

\* For any job, a success hides no failed step but those allowed to fail (the split into
\* outcome and conclusion in _runStep).
THEOREM TaskRunFailureIsNeverHidden == Spec => []FailureIsNeverHidden
<1>1. Inv => FailureIsNeverHidden
  BY DEF Inv, StoreInv, StepsInv, FailureIsNeverHidden
<1>2. QED
  BY <1>1, SpecInv, PTL

\* For any job, the steps a result lists are those of the job in order, each skipped exactly
\* when its condition said so (evaluate in _runStep), and all of them after a success.
THEOREM TaskRunConditionsHonoured == Spec => []ConditionsHonoured
<1>1. Inv => ConditionsHonoured
  BY DEF Inv, StepsInv, StoreInv, Listed, Heard, ConditionsHonoured
<1>2. QED
  BY <1>1, SpecInv, PTL

\* For any job, a task that returns reports exactly what it stored, and a failure that is
\* returned has stored nothing.
THEOREM TaskRunReportMatchesStore == Spec => []ReportMatchesStore
<1>1. Inv => ReportMatchesStore
  <2> SUFFICES ASSUME Inv, outcome = "returned" PROVE /\ artifacts = stored
                                                      /\ status = "failure" => stored = {}
    BY DEF ReportMatchesStore
  <2>1. pc = "done" /\ (status = "success" \/ failed) /\ status \in {"success", "failure"}
    BY DEF Inv, StoreInv
  <2>2. QED
    BY <2>1 DEF Inv, StoreInv
<1>2. QED
  BY <1>1, SpecInv, PTL
=============================================================================
