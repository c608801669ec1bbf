-------------------------------- MODULE Scope --------------------------------
(***************************************************************************)
(* How a value gets from the output file of one step into an expression of *)
(* another step, or of another job: stepOutputs and _resolveOutputs        *)
(* (lib/run/index.js), jobResults, needsScope and ambiguousOutputs         *)
(* (bin.js), and the walk of resolvePath (lib/interpolate.js).             *)
(*                                                                         *)
(* There are two jobs: a maker, which runs once for each of its targets    *)
(* that this host can build, and a reader, which needs it.  A value is     *)
(* named by who wrote it.  Steps succeed or fail as they like.             *)
(*                                                                         *)
(* An operator that no action uses is the following definition with a bug  *)
(* in it, kept to show that the properties notice.                         *)
(***************************************************************************)
EXTENDS Naturals, FiniteSets

CONSTANTS Target,       \* targets of the maker
          NMakerSteps,  \* its steps, each with an id
          Key,          \* names of step outputs
          Inherited,    \* those of them that every object has, such as constructor
          NoRef,        \* no reference
          Builtin,      \* the text of what every object has
          Unknown, Ambiguous, Unread   \* instead of a value

MakerStep == 1..NMakerSteps

\* {{ steps.<step>.outputs.<key> }}
Ref == [step : MakerStep, key : Key]

Value == [by : Target, step : MakerStep, key : Key]

\* The name of the declared output itself is none that every object has.
Absent == {Unknown, Ambiguous, Unread}

ASSUME ScopeAssumption == /\ NMakerSteps \in Nat /\ IsFiniteSet(Target)
                          /\ NoRef \notin Ref
                          /\ Inherited \subseteq Key
                          /\ Value \cap (Absent \cup {Builtin}) = {}
                          /\ Cardinality(Absent \cup {Builtin}) = 4

VARIABLES declared,     \* the output the maker declares, if any, as a reference
          uses,         \* MakerStep -> a reference in its command, if any
          buildable,    \* the targets this host can build
          next,         \* Target -> the step it is at
          stepOutputs,  \* Target -> MakerStep -> the keys it gave, or none
          taskStatus,   \* Target -> waiting, running, and how its task ended
          jobResults,   \* Target -> what the declared output is worth, or none
          seen,         \* Target -> MakerStep -> what its command's reference was worth
          read          \* what the reader's reference to that output is worth

scopeVars == <<declared, uses, buildable, next, stepOutputs, taskStatus, jobResults, seen, read>>

ScopeInit == /\ declared \in Ref \cup {NoRef}
             /\ uses \in [MakerStep -> Ref \cup {NoRef}]
             /\ buildable \in SUBSET Target
             /\ next = [t \in Target |-> 1]
             /\ stepOutputs = [t \in Target |-> [i \in {} |-> {}]]
             /\ taskStatus = [t \in Target |-> "waiting"]
             /\ jobResults = [t \in {} |-> Unknown]
             /\ seen = [t \in Target |-> [i \in {} |-> Unread]]
             /\ read = Unread

-----------------------------------------------------------------------------
(* One task of the maker *)

\* resolvePath of steps.<step>.outputs.<key>, which asks for a key with `in'
Resolved(t, ref) ==
  IF ref.step \notin DOMAIN stepOutputs[t] THEN Unknown
  ELSE IF ref.key \in stepOutputs[t][ref.step] THEN [by |-> t, step |-> ref.step, key |-> ref.key]
  ELSE IF ref.key \in Inherited THEN Builtin
  ELSE Unknown

Launch(t) == /\ taskStatus[t] = "waiting"
             /\ taskStatus' = [taskStatus EXCEPT
                               ![t] = IF t \in buildable THEN "running" ELSE "unsupported"]
             /\ UNCHANGED <<declared, uses, buildable, next, stepOutputs, jobResults, seen, read>>

AtMakerStep(t) == taskStatus[t] = "running" /\ next[t] <= NMakerSteps

\* The condition does not hold: there is nothing under the step's id.
Skip(t) == /\ AtMakerStep(t)
           /\ next' = [next EXCEPT ![t] = @ + 1]
           /\ UNCHANGED <<declared, uses, buildable, stepOutputs, taskStatus, jobResults, seen, read>>

\* A failed task is recorded, without outputs: this.outputs is set after the steps only.
Fails(t) == /\ taskStatus' = [taskStatus EXCEPT ![t] = "failure"]
            /\ jobResults' = [s \in DOMAIN jobResults \cup {t} |->
                                IF s = t THEN Unknown ELSE jobResults[s]]

\* The command refers to something that is not there.
StepThrows(t) == /\ AtMakerStep(t) /\ uses[next[t]] # NoRef
                 /\ Resolved(t, uses[next[t]]) = Unknown
                 /\ Fails(t)
                 /\ UNCHANGED <<declared, uses, buildable, next, stepOutputs, seen, read>>

\* The step runs and gives some outputs, whatever its conclusion; a failure ends the task.
RunStep(t) ==
  /\ AtMakerStep(t)
  /\ uses[next[t]] # NoRef => Resolved(t, uses[next[t]]) # Unknown
  /\ \E given \in SUBSET Key :
       stepOutputs' = [stepOutputs EXCEPT
                         ![t] = [i \in DOMAIN @ \cup {next[t]} |->
                                   IF i = next[t] THEN given ELSE @[i]]]
  /\ seen' = [seen EXCEPT
                ![t] = IF uses[next[t]] = NoRef THEN @
                       ELSE [i \in DOMAIN @ \cup {next[t]} |->
                               IF i = next[t] THEN Resolved(t, uses[i]) ELSE @[i]]]
  /\ \/ next' = [next EXCEPT ![t] = @ + 1] /\ UNCHANGED <<taskStatus, jobResults>>
     \/ Fails(t) /\ UNCHANGED next
  /\ UNCHANGED <<declared, uses, buildable, read>>

\* _resolveOutputs throws, and then the callback of the schedule records nothing.
OutputThrows(t) == /\ taskStatus[t] = "running" /\ next[t] > NMakerSteps
                   /\ declared # NoRef /\ Resolved(t, declared) = Unknown
                   /\ taskStatus' = [taskStatus EXCEPT ![t] = "failure"]
                   /\ UNCHANGED <<declared, uses, buildable, next, stepOutputs, jobResults, seen, read>>

ResolveOutput(t) ==
  /\ taskStatus[t] = "running" /\ next[t] > NMakerSteps
  /\ declared # NoRef => Resolved(t, declared) # Unknown
  /\ taskStatus' = [taskStatus EXCEPT ![t] = "success"]
  /\ jobResults' = [s \in DOMAIN jobResults \cup {t} |->
                      IF s # t THEN jobResults[s]
                      ELSE IF declared = NoRef THEN Unknown ELSE Resolved(t, declared)]
  /\ UNCHANGED <<declared, uses, buildable, next, stepOutputs, seen, read>>

-----------------------------------------------------------------------------
(* The reader *)

NeedsOutputOfAny ==
  IF DOMAIN jobResults = {} THEN Unknown
  ELSE jobResults[CHOOSE t \in DOMAIN jobResults : TRUE]

\* needsScope and ambiguousOutputs: a name that any of several results has throws when read;
\* one that none has is unknown, as it is when there is no result.
NeedsOutput ==
  IF Cardinality(DOMAIN jobResults) = 1 THEN jobResults[CHOOSE t \in DOMAIN jobResults : TRUE]
  ELSE IF \E t \in DOMAIN jobResults : jobResults[t] # Unknown THEN Ambiguous
  ELSE Unknown

\* The reader starts once every task it needs has concluded well, and reads.
Read == /\ read = Unread
        /\ \A t \in Target : taskStatus[t] \in {"success", "unsupported"}
        /\ read' = NeedsOutput
        /\ UNCHANGED <<declared, uses, buildable, next, stepOutputs, taskStatus, jobResults, seen>>

ScopeNext ==
  \/ \E t \in Target : \/ Launch(t) \/ Skip(t) \/ StepThrows(t) \/ RunStep(t)
                       \/ OutputThrows(t) \/ ResolveOutput(t)
  \/ Read

ScopeSpec == ScopeInit /\ [][ScopeNext]_scopeVars

-----------------------------------------------------------------------------
(* Properties *)

\* An expression never gets somebody else's value: what a step sees of another step was
\* written, in the same task, by that step before it began; what the reader sees of its need
\* is the declared output of the one target that ran, resolved from what its own steps wrote.
\* "An unknown path is a hard error" (lib/interpolate.js), and so there is never a value that
\* nobody wrote, but for names that every object has, once the step has run.  Where several
\* targets ran the reader's reference throws, and "unknown" is left for an output that is not
\* declared, or for a need that ran nowhere: a declared output that does not resolve is its
\* own job's failure, and the reader does not start.
ReadsWhatWasWritten ==
  /\ \A t \in Target : \A i \in DOMAIN seen[t] :
       /\ uses[i].step < i /\ uses[i].step \in DOMAIN stepOutputs[t]
       /\ IF uses[i].key \in stepOutputs[t][uses[i].step]
          THEN seen[t][i] = [by |-> t, step |-> uses[i].step, key |-> uses[i].key]
          ELSE seen[t][i] = Builtin /\ uses[i].key \in Inherited
  /\ read \in Value =>
       /\ buildable = {read.by} /\ taskStatus[read.by] = "success"
       /\ declared = [step |-> read.step, key |-> read.key]
       /\ read.step \in DOMAIN stepOutputs[read.by]
       /\ read.key \in stepOutputs[read.by][read.step]
  /\ read = Builtin => declared # NoRef /\ declared.key \in Inherited
  /\ read = Ambiguous => Cardinality(buildable) > 1 /\ declared # NoRef
  /\ read = Unknown => buildable = {} \/ declared = NoRef
=============================================================================
