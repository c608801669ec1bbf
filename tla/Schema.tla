------------------------------- MODULE Schema -------------------------------
(***************************************************************************)
(* parse (lib/schema/index.js) for a file with jobs, as the first check of  *)
(* the command `run': each job is made into its full form, which takes     *)
(* from the workflow what it does not say itself; then needs are resolved, *)
(* and then every publish job is looked at for a job upstream that makes   *)
(* its artifact.  The rest is RunCommand, whose cmd is what parse makes of *)
(* the file.                                                               *)
(*                                                                         *)
(* An operator that no action uses is the following definition with a bug  *)
(* in it, kept to show that the properties notice.                         *)
(***************************************************************************)
EXTENDS RunCommand

CONSTANTS Host,       \* the target that stands for the runner
          Nowhere,    \* a name in needs that no job has
          Inherited,  \* one that no job has and every object, such as constructor
          Artifact,   \* names of artifacts
          Template,   \* those that have {{ in them
          BeginsLike, \* template -> the names that begin as it does before its {{
          Files       \* workflow files, with what the command line says

\* What a file says of a job.  An odd key is one that a publish job must not have.
RawJob == [publishes : BOOLEAN,
           odd : BOOLEAN,
           needs : SUBSET (Job \cup {Nowhere, Inherited}),
           artifact : Artifact,                 \* that a publish job publishes
           out : SUBSET Artifact,
           tier : Tier \cup {"none"},
           targets : SUBSET Target,             \* none when it does not say
           image : Image,
           prefetch : SUBSET {"npm", "npm-dev"}]

\* A file that is not sound is refused for something else: YAML, versions, the types of values.
WorkflowFile == [sound : BOOLEAN,
                 jobs : [Job -> RawJob],
                 tier : Tier \cup {"none"},
                 targets : SUBSET Target,
                 only : 0..NJobs,
                 jobKnown : BOOLEAN,
                 flag : Tier \cup {"none", "unknown"}]

\* normalizeTier; a publish job has none
TierOfJob(f, j) == IF f.jobs[j].publishes THEN "none"
                   ELSE IF f.jobs[j].tier = "none" THEN f.tier
                   ELSE f.jobs[j].tier

\* asTargetList; a publish job runs once, on the runner
TargetsOfJob(f, j) == IF f.jobs[j].publishes THEN {Host}
                      ELSE IF f.jobs[j].targets = {} THEN f.targets
                      ELSE f.jobs[j].targets

\* What parse returns for a file it accepts; of one it refuses, what needs not be refused.
Read(f) ==
  [wf |-> [needs |-> [j \in Job |-> f.jobs[j].needs \cap (Job \ {j})],
           targets |-> [j \in Job |-> TargetsOfJob(f, j)],
           only |-> f.only],
   jobKnown |-> f.jobKnown, flag |-> f.flag,
   tier |-> [j \in Job |-> TierOfJob(f, j)],
   image |-> [j \in Job |-> f.jobs[j].image],
   publish |-> {j \in Job : f.jobs[j].publishes},
   stray |-> {j \in Job : Inherited \in f.jobs[j].needs},
   prefetch |-> [j \in Job |-> IF f.jobs[j].publishes THEN {} ELSE f.jobs[j].prefetch]]

ASSUME FilesAssumption == /\ Host \in Target
                          /\ Nowhere \notin Job /\ Inherited \notin Job \cup {Nowhere}
                          /\ Template \subseteq Artifact
                          /\ BeginsLike \in [Template -> SUBSET (Artifact \ Template)]
                          /\ Files \subseteq WorkflowFile
                          /\ {Read(f) : f \in Files} \subseteq Commands

VARIABLES file,       \* the workflow file
          loop,       \* where parse stands: load, jobs, needs, publish, upstream
          at,         \* the job its loop is at
          unvisited,  \* the stack of the closure; Inherited may be on it
          reachable   \* the jobs it has found

fileVars == <<file, loop, at, unvisited, reachable>>
schemaVars == <<allVars, fileVars>>

SchemaTypeOK == /\ file \in Files
                /\ cmd = Read(file)
                /\ loop \in {"load", "jobs", "needs", "publish", "upstream"}
                /\ at \in 1..(NJobs + 1)
                /\ unvisited \subseteq Job \cup {Inherited} /\ reachable \subseteq Job
                /\ place # "parse" => loop = "load"

SchemaInit == /\ file \in Files
              /\ cmd = Read(file)
              /\ CommandInit
              /\ loop = "load" /\ at = 1
              /\ unvisited = {} /\ reachable = {}

-----------------------------------------------------------------------------
Reading(l) == /\ place = "parse" /\ loop = l
              /\ UNCHANGED file

\* Parsing ends, for good or with a diagnostic; the next run begins with nothing.
Parsed(to) == /\ Parse /\ place' = to
              /\ loop' = "load" /\ at' = 1
              /\ unvisited' = {} /\ reachable' = {}

GoOn(l, j) == /\ loop' = l /\ at' = j
              /\ UNCHANGED <<allVars, unvisited, reachable>>

Load == /\ Reading("load")
        /\ IF file.sound THEN GoOn("jobs", 1) ELSE Parsed("refused")

Raw == file.jobs[at]

\* normalizePublishJob and noInterpolation
Complete(raw) == raw.publishes => /\ ~raw.odd
                                  /\ raw.needs # {}
                                  /\ raw.artifact \notin Template

NormalizeJob == /\ Reading("jobs")
                /\ IF at > NJobs THEN GoOn("needs", 1)
                   ELSE IF Complete(Raw) THEN GoOn("jobs", at + 1)
                   ELSE Parsed("refused")

\* `!out[need]': out is an object like any other.
IsThere(need) == need \in Job \cup {Inherited}

ResolveNeeds == /\ Reading("needs")
                /\ IF at > NJobs THEN GoOn("publish", 1)
                   ELSE IF \A need \in Raw.needs : IsThere(need) /\ need # at
                   THEN GoOn("needs", at + 1)
                   ELSE Parsed("refused")

FindPublishJob == /\ Reading("publish")
                  /\ IF at > NJobs THEN Parsed("tier")
                     ELSE IF ~Raw.publishes THEN GoOn("publish", at + 1)
                     ELSE /\ unvisited' = Raw.needs
                          /\ reachable' = {}
                          /\ loop' = "upstream"
                          /\ UNCHANGED <<allVars, at>>

VisitUpstreamOnly == /\ Reading("upstream")
                     /\ \E j \in unvisited \cap Job : /\ unvisited' = unvisited \ {j}
                                                     /\ reachable' = reachable \cup {j}
                     /\ UNCHANGED <<allVars, loop, at>>

\* stack.pop(); a job that has been reached pushes nothing.
VisitUpstream ==
  /\ Reading("upstream")
  /\ \E j \in unvisited \cap Job :
       /\ unvisited' = (unvisited \ {j}) \cup
                         (IF j \in reachable THEN {} ELSE file.jobs[j].needs)
       /\ reachable' = reachable \cup {j}
  /\ UNCHANGED <<allVars, loop, at>>

\* What is not a job is a function, and has no needs to push.
UpstreamThrows == /\ Reading("upstream") /\ Inherited \in unvisited
                  /\ Parsed("refused")

Produced == UNION {file.jobs[j].out : j \in reachable}

Matches(name, wanted) == name = wanted \/ (name \in Template /\ wanted \in BeginsLike[name])

MatchArtifact == /\ Reading("upstream") /\ unvisited = {}
                 /\ IF \E name \in Produced : Matches(name, Raw.artifact)
                    THEN GoOn("publish", at + 1)
                    ELSE Parsed("refused")

ParseFile == \/ Load \/ NormalizeJob \/ ResolveNeeds
             \/ FindPublishJob \/ VisitUpstream \/ UpstreamThrows \/ MatchArtifact

AfterParse == (Checks \/ Finish \/ Die \/ Again \/ Ended) /\ UNCHANGED fileVars

SchemaNext == ParseFile \/ AfterParse

SchemaSpec == /\ SchemaInit /\ [][SchemaNext]_schemaVars
              /\ WF_schemaVars(ParseFile \/ (Checks /\ UNCHANGED fileVars))

-----------------------------------------------------------------------------
(* Properties *)

Needs(j) == file.jobs[j].needs \cap Job

\* Everything a job transitively needs.
Upstream(j) == {u \in Job : \A S \in SUBSET Job :
                  (Needs(j) \subseteq S /\ \A s \in S : Needs(s) \subseteq S) => u \in S}

\* What a file must be for the run to make sense, except that a need may have a name that
\* every object has, as long as no publish job comes upon it.
Valid == /\ file.sound
         /\ \A j \in Job : /\ Complete(file.jobs[j])
                           /\ file.jobs[j].needs \subseteq (Job \ {j}) \cup {Inherited}
         /\ \A j \in Job : file.jobs[j].publishes =>
              /\ \E u \in Upstream(j) : \E name \in file.jobs[u].out :
                   Matches(name, file.jobs[j].artifact)
              /\ \A u \in {j} \cup Upstream(j) : Inherited \notin file.jobs[u].needs

\* The tier a job that runs in a sandbox asks for, itself or by what the workflow says.
AsksFor(j) == IF file.jobs[j].tier = "none" THEN file.tier ELSE file.jobs[j].tier

\* parse refuses exactly the files that have something wrong with them: no dangling need, no
\* job that needs itself (what Expand assumes), and no publish job without a maker of its
\* artifact upstream, across any number of jobs and around a cycle, gets through; a file
\* without such a fault does.  The exception is a dangling need whose name every object has
\* (schema/index.js:793): it is dropped and the job runs, although "a dangling reference is
\* otherwise a job that never runs, with no error" (790), unless a publish job comes upon it,
\* or --job keeps the job: such a run gets to no task.  And a run that starts its tasks is
\* isolated as every job that runs in a sandbox asks, or the workflow for it, unless the
\* command line says else.
RunsOnlyValidFiles ==
  /\ place \notin {"parse", "refused"} => Valid
  /\ (place = "refused" /\ code = 1 /\ tier = "none") => ~Valid
  /\ (place = "scheduling" /\ wf.only # 0) => \A j \in keep : Inherited \notin file.jobs[j].needs
  /\ (place = "scheduling" /\ cmd.flag = "none") =>
       \A j \in Job \ cmd.publish : AsksFor(j) # "none" => Rank[tier] >= Rank[AsksFor(j)]
=============================================================================
