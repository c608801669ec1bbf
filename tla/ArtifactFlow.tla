---------------------------- MODULE ArtifactFlow ----------------------------
(***************************************************************************)
(* Artifacts between the tasks of one run: the store (lib/store), what a   *)
(* task does with it before and after its steps (lib/run), and the publish *)
(* task, which copies an artifact out of the store and stages the copy     *)
(* (bin.js runPublishTask, lib/publish).                                   *)
(*                                                                         *)
(* The store is written and read file by file, with an await at each, and  *)
(* tasks without a path of needs between them run side by side.  What a    *)
(* file holds is the task that wrote it; a tree stands for its digest.     *)
(*                                                                         *)
(* An operator that no action uses is the following definition with a bug  *)
(* in it, kept to show that the properties notice.                         *)
(***************************************************************************)
EXTENDS Naturals

CONSTANTS NTasks,   \* number of tasks
          Name,     \* artifact names
          File,     \* relative paths
          Flows     \* workflows considered

Task == 1..NTasks
None == 0           \* no task, no file

CONSTANT NoName     \* no artifact

Flow == [needs : [Task -> SUBSET Task],
         publish : SUBSET Task,                 \* tasks that publish what they take
         takes : [Task -> Name \cup {NoName}],  \* the artifact a task reads
         makes : [Task -> Name \cup {NoName}],  \* the artifact a task stores
         files : [Task -> SUBSET File]]         \* the files of that artifact

\* Everything a task transitively needs.
UpstreamIn(needs, t) ==
  {u \in Task : \A S \in SUBSET Task :
     (needs[t] \subseteq S /\ \A s \in S : needs[s] \subseteq S) => u \in S}

\* What expand guarantees, in the words of TaskPlan: no set of tasks in which everyone waits
\* for somebody else of the set.  A publish job takes an artifact and makes none.  Who makes it
\* is left open: the schema finds a job upstream whose template begins like its name, which
\* may come to another name, and what this host cannot build makes nothing.  An artifact
\* without a file is never put.
ASSUME FlowsAssumption ==
  /\ NTasks \in Nat
  /\ NoName \notin Name
  /\ Flows \subseteq Flow
  /\ \A w \in Flows :
       /\ \A S \in SUBSET Task : S # {} => \E t \in S : w.needs[t] \cap S = {}
       /\ \A t \in Task :
            /\ w.makes[t] # NoName => w.files[t] # {}
            /\ t \in w.publish => w.takes[t] # NoName /\ w.makes[t] = NoName

VARIABLES flow,      \* the workflow
          phase,     \* Task -> where it stands
          todo,      \* Task -> files the loop of its phase has still to handle
          drive,     \* Name -> the tree under its key in the store
          got,       \* Task -> the tree store.get gave it
          dir,       \* Name -> the directory publish tasks extract it into
          staged,    \* Task -> the tree a publish task put into its drive
          recorded   \* Task -> the tree whose digest its attestation holds

flowVars == <<flow, phase, todo, drive, got, dir, staged, recorded>>

FileTree == [File -> Task \cup {None}]

Empty == [f \in File |-> None]

Present(tree) == {f \in File : tree[f] # None}

FlowTypeOK == /\ flow \in Flows
              /\ phase \in [Task -> {"waiting", "fetching", "building", "storing", "staging",
                                     "success", "failure"}]
              /\ todo \in [Task -> SUBSET File]
              /\ drive \in [Name -> FileTree] /\ dir \in [Name -> FileTree]
              /\ got \in [Task -> FileTree] /\ staged \in [Task -> FileTree]
              /\ recorded \in [Task -> FileTree]
              /\ \A t \in Task :
                   /\ phase[t] = "fetching" => flow.takes[t] # NoName
                   /\ phase[t] = "storing" => flow.makes[t] # NoName
                   /\ phase[t] = "staging" => t \in flow.publish

FlowInit == /\ flow \in Flows
            /\ phase = [t \in Task |-> "waiting"]
            /\ todo = [t \in Task |-> {}]
            /\ drive = [n \in Name |-> Empty] /\ dir = [n \in Name |-> Empty]
            /\ got = [t \in Task |-> Empty]
            /\ staged = [t \in Task |-> Empty]
            /\ recorded = [t \in Task |-> Empty]

-----------------------------------------------------------------------------
NeedsStarted(t) == \A u \in flow.needs[t] : phase[u] # "waiting"

\* What the scheduler waits for; a failed need would have condemned t.
NeedsDone(t) == \A u \in flow.needs[t] : phase[u] = "success"

At(t, place) == phase[t] = place /\ UNCHANGED flow

Goto(t, place, files) == /\ phase' = [phase EXCEPT ![t] = place]
                         /\ todo' = [todo EXCEPT ![t] = files]

\* One turn of a loop over files.
Handle(t, f) == /\ f \in todo[t]
                /\ todo' = [todo EXCEPT ![t] = @ \ {f}]
                /\ UNCHANGED phase

\* The listing get iterates over; an artifact that is not there is an error.
List(t) == IF Present(drive[flow.takes[t]]) = {} THEN Goto(t, "failure", {})
           ELSE Goto(t, "fetching", Present(drive[flow.takes[t]]))

-----------------------------------------------------------------------------
(* A sandboxed task: _fetchInputs, the steps, _collectOutputs *)

StartTask(t) == /\ At(t, "waiting") /\ NeedsDone(t) /\ t \notin flow.publish
                /\ IF flow.takes[t] = NoName THEN Goto(t, "building", {}) ELSE List(t)
                /\ UNCHANGED <<drive, got, dir, staged, recorded>>

FetchFile(t, f) == /\ At(t, "fetching") /\ t \notin flow.publish
                   /\ Handle(t, f)
                   /\ got' = [got EXCEPT ![t][f] = drive[flow.takes[t]][f]]
                   /\ UNCHANGED <<drive, dir, staged, recorded>>

Fetched(t) == /\ At(t, "fetching") /\ todo[t] = {} /\ t \notin flow.publish
              /\ Goto(t, "building", {})
              /\ UNCHANGED <<drive, got, dir, staged, recorded>>

\* The steps succeed and the files, if any, have been fetched from the sandbox.
Built(t) == /\ At(t, "building")
            /\ IF flow.makes[t] = NoName THEN Goto(t, "success", {})
               ELSE Goto(t, "storing", flow.files[t])
            /\ UNCHANGED <<drive, got, dir, staged, recorded>>

\* put overwrites what has the same path, and removes nothing.
StoreFile(t, f) == /\ At(t, "storing")
                   /\ Handle(t, f)
                   /\ drive' = [drive EXCEPT ![flow.makes[t]][f] = t]
                   /\ UNCHANGED <<got, dir, staged, recorded>>

\* put returns the digest of its own files, which the attestation records.
Stored(t) == /\ At(t, "storing") /\ todo[t] = {}
             /\ Goto(t, "success", {})
             /\ recorded' = [recorded EXCEPT ![t] =
                               [f \in File |-> IF f \in flow.files[t] THEN t ELSE None]]
             /\ UNCHANGED <<drive, got, dir, staged>>

\* Anything fails; what has been stored stays.
TaskFails(t) == /\ phase[t] \in {"fetching", "building", "storing"} /\ t \notin flow.publish
                /\ Goto(t, "failure", {})
                /\ UNCHANGED <<flow, drive, got, dir, staged, recorded>>

-----------------------------------------------------------------------------
(* A publish task *)

\* The directory it extracts into is named by the run and the artifact.
DirOf(t) == flow.takes[t]

Cleared(t) == dir' = [dir EXCEPT ![DirOf(t)] = Empty]

PublishStart(t) == /\ At(t, "waiting") /\ NeedsDone(t) /\ t \in flow.publish
                   /\ Cleared(t)
                   /\ List(t)
                   /\ UNCHANGED <<drive, got, staged, recorded>>

ExtractFile(t, f) == /\ At(t, "fetching") /\ t \in flow.publish
                     /\ Handle(t, f)
                     /\ got' = [got EXCEPT ![t][f] = drive[flow.takes[t]][f]]
                     /\ dir' = [dir EXCEPT ![DirOf(t)][f] = drive[flow.takes[t]][f]]
                     /\ UNCHANGED <<drive, staged, recorded>>

ExtractedAll(t) == /\ At(t, "fetching") /\ todo[t] = {} /\ t \in flow.publish
                   /\ Goto(t, "staging", Present(dir[DirOf(t)]))
                   /\ UNCHANGED <<drive, got, dir, staged, recorded>>

\* stage() mirrors the directory; a file that is gone by then is passed over.
StageFile(t, f) == /\ At(t, "staging")
                   /\ Handle(t, f)
                   /\ staged' = [staged EXCEPT ![t][f] = dir[DirOf(t)][f]]
                   /\ UNCHANGED <<drive, got, dir, recorded>>

PublishedLateDigest(t) == /\ At(t, "staging") /\ todo[t] = {}
                          /\ Goto(t, "success", {})
                          /\ recorded' = [recorded EXCEPT ![t] = drive[flow.takes[t]]]
                          /\ Cleared(t)
                          /\ UNCHANGED <<drive, got, staged>>

\* A record is written for a success only, with the digest get computed.
Published(t) == /\ At(t, "staging") /\ todo[t] = {}
                /\ Goto(t, "success", {})
                /\ recorded' = [recorded EXCEPT ![t] = got[t]]
                /\ Cleared(t)
                /\ UNCHANGED <<drive, got, staged>>

\* get or stage() throws, or the timeout wins the race.
PublishFails(t) == /\ phase[t] \in {"fetching", "staging"} /\ t \in flow.publish
                   /\ Goto(t, "failure", {})
                   /\ Cleared(t)
                   /\ UNCHANGED <<flow, drive, got, staged, recorded>>

-----------------------------------------------------------------------------
FileStep(t, f) == FetchFile(t, f) \/ StoreFile(t, f) \/ ExtractFile(t, f) \/ StageFile(t, f)

TaskStep(t) == \/ StartTask(t) \/ Fetched(t) \/ Built(t) \/ Stored(t) \/ TaskFails(t)
               \/ PublishStart(t) \/ ExtractedAll(t) \/ Published(t) \/ PublishFails(t)
               \/ \E f \in File : FileStep(t, f)

\* Nobody runs, and nobody's needs are met.
Over == /\ \A t \in Task : \/ phase[t] \in {"success", "failure"}
                           \/ phase[t] = "waiting" /\ ~NeedsDone(t)
        /\ UNCHANGED flowVars

FlowNext == (\E t \in Task : TaskStep(t)) \/ Over

FlowSpec == FlowInit /\ [][FlowNext]_flowVars

-----------------------------------------------------------------------------
(* Properties *)

Upstream(t) == UpstreamIn(flow.needs, t)

Ordered(t, u) == t \in Upstream(u) \/ u \in Upstream(t)

Makers(n) == {t \in Task : flow.makes[t] = n}

\* No two makers of the artifact t takes, nor one of them and t, run side by side.
MakersOrdered(t) ==
  /\ \A u \in Makers(flow.takes[t]) \ {t} : Ordered(t, u)
  /\ \A u, v \in Makers(flow.takes[t]) \cap Upstream(t) : u # v => Ordered(u, v)

\* The last of the makers upstream of t to write f.
LastMaker(t, f, u) ==
  /\ u \in Makers(flow.takes[t]) \cap Upstream(t) /\ f \in flow.files[u]
  /\ \A v \in Makers(flow.takes[t]) \cap Upstream(t) : f \in flow.files[v] => u \notin Upstream(v)

\* When needs order the makers of an artifact among themselves and against who takes it,
\* a task gets, file by file, what the last maker upstream stored: nothing half written,
\* nothing of a task that failed, and nothing of the makers downstream.
GetsLastMade ==
  \A t \in Task :
    (phase[t] \in {"building", "storing", "staging", "success"} /\ flow.takes[t] # NoName
       /\ MakersOrdered(t))
    => \A f \in File : /\ \A u \in Task : got[t][f] = u <=> LastMaker(t, f, u)
                       /\ got[t][f] = None <=> ~\E u \in Task : LastMaker(t, f, u)

\* What was staged is what the record's digest says, if no other publish task of the
\* artifact runs beside it.
RecordMatchesStaged ==
  \A t \in flow.publish :
    (phase[t] = "success"
       /\ \A u \in flow.publish \ {t} : flow.takes[u] = flow.takes[t] => Ordered(t, u))
    => staged[t] = recorded[t]

\* "it binds this link to the exact bytes a sandboxed job produced" (lib/attestation.js,
\* above artifactDigest): what a publish task recorded is what it staged.
RecordBindsLink == \A t \in flow.publish : phase[t] = "success" => staged[t] = recorded[t]
=============================================================================
