--------------------------- MODULE PublishProofs ---------------------------
(***************************************************************************)
(* Theorems about the artifacts of a run and about publishing, for any     *)
(* number of tasks, names, files and drives, any workflow and any history  *)
(* of the drives.  Inv says that whatever ran before a task that started   *)
(* is over, and that the store holds, file by file, a maker that is not    *)
(* upstream of any other maker that has written the file.  DrivesInv says  *)
(* for each task how what it has appended stands to what the peers have.   *)
(***************************************************************************)
EXTENDS Publish, SequenceTheorems, TLAPS

-----------------------------------------------------------------------------
(* The artifacts *)

Ended == {"success", "failure"}

\* Everything upstream of a task that started has succeeded.
UpstreamInv ==
  \A t \in Task : phase[t] # "waiting" => \A u \in Upstream(t) : phase[u] = "success"

\* The maker u has written f.
Wrote(u, f) == /\ f \in flow.files[u]
               /\ phase[u] = "success" \/ (phase[u] = "storing" /\ f \notin todo[u])

\* What a name holds was written by one of its makers, and a maker that wrote a file has
\* not been overwritten by one upstream of it.
DriveInv ==
  /\ \A t \in Task : phase[t] = "storing" => todo[t] \subseteq flow.files[t]
  /\ \A n \in Name, f \in File : drive[n][f] # None =>
       /\ drive[n][f] \in Makers(n)
       /\ f \in flow.files[drive[n][f]]
       /\ phase[drive[n][f]] \in {"storing"} \cup Ended
  /\ \A n \in Name, f \in File : \A u \in Makers(n) :
       Wrote(u, f) => drive[n][f] # None /\ drive[n][f] \notin Upstream(u)

\* t holds what the last maker of f made.
Exact(t, f) == /\ \A u \in Task : got[t][f] = u <=> LastMaker(t, f, u)
               /\ got[t][f] = None <=> ~\E u \in Task : LastMaker(t, f, u)

GotOf(t) ==
  /\ phase[t] = "waiting" => got[t] = Empty
  /\ (phase[t] = "fetching" /\ MakersOrdered(t)) => \A f \in File \ todo[t] : Exact(t, f)
  /\ (phase[t] \in {"building", "storing", "staging", "success"} /\ flow.takes[t] # NoName
        /\ MakersOrdered(t)) => \A f \in File : Exact(t, f)

GotInv == \A t \in Task : GotOf(t)

\* No other publish task of the same artifact runs beside t.
Alone(t) == \A u \in flow.publish \ {t} : flow.takes[u] = flow.takes[t] => Ordered(t, u)

\* The directory of a publish task that is alone is its copy, of which it has staged
\* what it has handled.
StagedOf(t) ==
  /\ phase[t] # "building"
  /\ phase[t] \in {"waiting", "fetching"} => staged[t] = Empty
  /\ (phase[t] = "fetching" /\ Alone(t)) => dir[flow.takes[t]] = got[t]
  /\ (phase[t] = "staging" /\ Alone(t)) =>
       /\ dir[flow.takes[t]] = got[t]
       /\ \A f \in File \ todo[t] : staged[t][f] = got[t][f]
  /\ (phase[t] = "success" /\ Alone(t)) => staged[t] = recorded[t]

StagedInv == \A t \in flow.publish : StagedOf(t)

Inv == FlowTypeOK /\ UpstreamInv /\ DriveInv /\ GotInv /\ StagedInv
-----------------------------------------------------------------------------
(* The order of needs *)

LEMMA UpstreamFacts ==
  ASSUME NEW needs \in [Task -> SUBSET Task], NEW t \in Task
  PROVE  /\ UpstreamIn(needs, t) \subseteq Task
         /\ needs[t] \subseteq UpstreamIn(needs, t)
         /\ \A u \in UpstreamIn(needs, t) : UpstreamIn(needs, u) \subseteq UpstreamIn(needs, t)
<1>1. UpstreamIn(needs, t) \subseteq Task
  BY DEF UpstreamIn
<1>2. needs[t] \subseteq UpstreamIn(needs, t)
  BY DEF UpstreamIn
<1>3. ASSUME NEW u \in UpstreamIn(needs, t), NEW v \in UpstreamIn(needs, u)
      PROVE  v \in UpstreamIn(needs, t)
  <2>1. ASSUME NEW S \in SUBSET Task, needs[t] \subseteq S, \A s \in S : needs[s] \subseteq S
        PROVE  v \in S
    <3>1. u \in S
      BY <1>3, <2>1 DEF UpstreamIn
    <3>2. needs[u] \subseteq S
      BY <3>1, <2>1
    <3>3. QED
      BY <3>2, <1>3, <2>1 DEF UpstreamIn
  <2>2. v \in Task
    BY <1>3 DEF UpstreamIn
  <2>3. QED
    BY <2>1, <2>2 DEF UpstreamIn
<1>4. QED
  BY <1>1, <1>2, <1>3

\* Where no set of tasks waits for itself, no task is upstream of itself.
LEMMA NotUpstreamOfItself ==
  ASSUME NEW needs \in [Task -> SUBSET Task],
         \A S \in SUBSET Task : S # {} => \E t \in S : needs[t] \cap S = {}
  PROVE  \A t \in Task : t \notin UpstreamIn(needs, t)
<1>1. SUFFICES ASSUME NEW t \in Task, t \in UpstreamIn(needs, t) PROVE FALSE
  OBVIOUS
<1> DEFINE Above == {u \in Task : t \in UpstreamIn(needs, u)}
<1>2. ASSUME NEW u \in Above PROVE needs[u] \cap Above # {}
  <2>1. SUFFICES ASSUME needs[u] \cap Above = {} PROVE FALSE
    OBVIOUS
  <2> DEFINE Reached == needs[u] \cup UNION {UpstreamIn(needs, v) : v \in needs[u]}
  <2>2. needs[u] \subseteq Task
    OBVIOUS
  <2>3. /\ \A v \in needs[u] : UpstreamIn(needs, v) \subseteq Task
        /\ \A v \in Task : needs[v] \subseteq UpstreamIn(needs, v)
        /\ \A v \in needs[u] : \A r \in UpstreamIn(needs, v) :
             UpstreamIn(needs, r) \subseteq UpstreamIn(needs, v)
    BY <2>2, UpstreamFacts
  <2>4. Reached \in SUBSET Task
    BY <2>2, <2>3
  <2>5. ASSUME NEW r \in Reached PROVE needs[r] \subseteq Reached
    <3>1. CASE r \in needs[u]
      BY <2>2, <2>3, <3>1
    <3>2. CASE \E v \in needs[u] : r \in UpstreamIn(needs, v)
      <4>1. PICK v \in needs[u] : r \in UpstreamIn(needs, v)
        BY <3>2
      <4>2. r \in Task /\ UpstreamIn(needs, r) \subseteq UpstreamIn(needs, v)
        BY <2>3, <4>1
      <4>3. needs[r] \subseteq UpstreamIn(needs, v)
        BY <2>3, <4>2
      <4> QED BY <4>3
    <3> QED BY <3>1, <3>2
  <2>6. t \in Reached
    <3> HIDE DEF Reached
    <3>1. needs[u] \subseteq Reached
      BY DEF Reached
    <3> QED BY <2>4, <2>5, <3>1 DEF UpstreamIn
  <2>7. t \in Above
    BY <1>1
  <2> QED BY <2>1, <2>2, <2>6, <2>7
<1>3. Above # {} /\ Above \in SUBSET Task
  BY <1>1
<1> HIDE DEF Above
<1> QED BY <1>2, <1>3

LEMMA FlowFacts ==
  ASSUME FlowTypeOK
  PROVE  /\ flow.needs \in [Task -> SUBSET Task]
         /\ flow.publish \subseteq Task
         /\ flow.takes \in [Task -> Name \cup {NoName}]
         /\ flow.makes \in [Task -> Name \cup {NoName}]
         /\ flow.files \in [Task -> SUBSET File]
         /\ \A t \in Task : /\ Upstream(t) \subseteq Task
                            /\ t \notin Upstream(t)
                            /\ flow.needs[t] \subseteq Upstream(t)
                            /\ \A u \in Upstream(t) : Upstream(u) \subseteq Upstream(t)
         /\ \A t \in flow.publish : flow.takes[t] \in Name /\ flow.makes[t] = NoName
<1>1. flow \in Flow /\ flow \in Flows
  BY FlowsAssumption DEF FlowTypeOK
<1>2. /\ flow.needs \in [Task -> SUBSET Task]
      /\ flow.publish \subseteq Task
      /\ flow.takes \in [Task -> Name \cup {NoName}]
      /\ flow.makes \in [Task -> Name \cup {NoName}]
      /\ flow.files \in [Task -> SUBSET File]
  BY <1>1 DEF Flow
<1>3. \A t \in Task : t \notin Upstream(t)
  BY <1>1, <1>2, FlowsAssumption, NotUpstreamOfItself DEF Upstream
<1>4. \A t \in flow.publish : flow.takes[t] \in Name /\ flow.makes[t] = NoName
  BY <1>1, <1>2, FlowsAssumption
<1>5. \A t \in Task : /\ Upstream(t) \subseteq Task
                      /\ flow.needs[t] \subseteq Upstream(t)
                      /\ \A u \in Upstream(t) : Upstream(u) \subseteq Upstream(t)
  BY <1>2, UpstreamFacts DEF Upstream
<1>6. QED
  BY <1>2, <1>3, <1>4, <1>5

\* Operators of the workflow alone do not change.
LEMMA SameFlow ==
  ASSUME UNCHANGED flow, NEW t
  PROVE  /\ Upstream(t)' = Upstream(t)
         /\ MakersOrdered(t)' <=> MakersOrdered(t)
         /\ Alone(t)' <=> Alone(t)
         /\ Makers(t)' = Makers(t)
         /\ \A f, u : LastMaker(t, f, u)' <=> LastMaker(t, f, u)
  BY DEF Upstream, MakersOrdered, Alone, LastMaker, Makers, Ordered

\* Whoever is ready to start has nothing but successes upstream.
LEMMA ReadyUpstream ==
  ASSUME FlowTypeOK, UpstreamInv, NEW t \in Task, NeedsDone(t)
  PROVE  \A u \in Upstream(t) : phase[u] = "success"
<1> DEFINE S == {s \in Task : phase[s] = "success"}
<1>1. flow.needs \in [Task -> SUBSET Task]
  BY FlowFacts
<1>2. flow.needs[t] \subseteq S
  BY <1>1 DEF NeedsDone
<1>3. \A s \in S : flow.needs[s] \subseteq S
  <2>1. TAKE s \in S
  <2>2. s \in Task /\ phase[s] # "waiting"
    OBVIOUS
  <2>3. flow.needs[s] \subseteq Upstream(s) /\ Upstream(s) \subseteq Task
    BY <2>2, FlowFacts
  <2>4. QED
    BY <2>2, <2>3 DEF UpstreamInv
<1>4. QED
  BY <1>2, <1>3 DEF Upstream, UpstreamIn

-----------------------------------------------------------------------------
(* Types, and what every step of a task has in common *)

LEMMA InitInv == FlowInit => Inv
<1> SUFFICES ASSUME FlowInit PROVE Inv
  OBVIOUS
<1>1. FlowTypeOK
  BY DEF FlowInit, FlowTypeOK, FileTree, Empty
<1>2. UpstreamInv
  BY DEF FlowInit, UpstreamInv
<1>3. \A t \in Task : phase[t] = "waiting"
  BY DEF FlowInit
<1>4. DriveInv
  BY <1>3 DEF FlowInit, DriveInv, Wrote, Empty, Makers
<1>5. GotInv
  BY <1>3 DEF FlowInit, GotInv, GotOf
<1>6. StagedInv
  <2>1. flow.publish \subseteq Task
    BY <1>1, FlowFacts
  <2>2. QED
    BY <1>3, <2>1 DEF FlowInit, StagedInv, StagedOf
<1>7. QED
  BY <1>1, <1>2, <1>4, <1>5, <1>6 DEF Inv

LEMMA ListFacts ==
  ASSUME FlowTypeOK, NEW t \in Task, List(t), flow.takes[t] \in Name
  PROVE  \E p \in {"fetching", "failure"}, S \in SUBSET File : Goto(t, p, S)
<1>1. Present(drive[flow.takes[t]]) \in SUBSET File
  BY DEF Present
<1>2. QED
  BY <1>1 DEF List

LEMMA StartFacts ==
  ASSUME FlowTypeOK, NEW t \in Task, StartTask(t)
  PROVE  \E p \in {"building", "fetching", "failure"}, S \in SUBSET File :
            Goto(t, p, S) /\ (p = "fetching" => flow.takes[t] # NoName)
<1>1. CASE flow.takes[t] = NoName
  <2>1. Goto(t, "building", {}) /\ {} \in SUBSET File
    BY <1>1 DEF StartTask
  <2>2. QED
    BY <2>1
<1>2. CASE flow.takes[t] # NoName
  <2>1. flow.takes[t] \in Name
    BY <1>2, FlowFacts
  <2>2. PICK p \in {"fetching", "failure"}, S \in SUBSET File : Goto(t, p, S)
    BY <1>2, <2>1, ListFacts DEF StartTask
  <2>3. QED
    BY <1>2, <2>2
<1>3. QED
  BY <1>1, <1>2

LEMMA TypeStep ==
  ASSUME FlowTypeOK, NEW t \in Task, TaskStep(t)
  PROVE  FlowTypeOK'
<1> USE DEF FlowTypeOK, At, Goto, Handle, FileTree
<1>0. /\ flow.takes \in [Task -> Name \cup {NoName}]
      /\ flow.makes \in [Task -> Name \cup {NoName}]
      /\ flow.files \in [Task -> SUBSET File]
      /\ \A s \in flow.publish : flow.takes[s] \in Name
  BY FlowFacts
<1>1. CASE StartTask(t)
  <2>1. PICK p \in {"building", "fetching", "failure"}, S \in SUBSET File :
          Goto(t, p, S) /\ (p = "fetching" => flow.takes[t] # NoName)
    BY <1>1, StartFacts
  <2>2. UNCHANGED <<flow, drive, got, dir, staged, recorded>>
    BY <1>1 DEF StartTask
  <2>3. /\ phase' = [phase EXCEPT ![t] = p]
        /\ p \in {"building", "fetching", "failure"}
        /\ todo' = [todo EXCEPT ![t] = S]
    BY <2>1
  <2>4. p = "fetching" => flow.takes[t] # NoName
    BY <2>1
  <2>5. QED
    BY <2>2, <2>3, <2>4
<1>2. CASE Fetched(t)
  BY <1>2 DEF Fetched
<1>3. CASE Built(t)
  BY <1>3, <1>0 DEF Built
<1>4. CASE Stored(t)
  BY <1>4, <1>0 DEF Stored
<1>5. CASE TaskFails(t)
  BY <1>5 DEF TaskFails
<1>6. CASE PublishStart(t)
  <2>1. t \in flow.publish /\ flow.takes[t] \in Name
    BY <1>6, <1>0 DEF PublishStart
  <2>2. PICK p \in {"fetching", "failure"}, S \in SUBSET File : Goto(t, p, S)
    BY <1>6, <2>1, ListFacts DEF PublishStart
  <2>3. /\ UNCHANGED <<flow, drive, got, staged, recorded>>
        /\ dir' = [dir EXCEPT ![flow.takes[t]] = Empty]
    BY <1>6 DEF PublishStart, Cleared, DirOf
  <2>4. dir' \in [Name -> FileTree]
    BY <2>3 DEF Empty
  <2>5. flow.takes[t] # NoName
    BY <2>1, FlowsAssumption
  <2>6. QED
    BY <2>2, <2>3, <2>4, <2>5, <1>0
<1>7. CASE ExtractedAll(t)
  BY <1>7, <1>0 DEF ExtractedAll, Present, DirOf
<1>8. CASE Published(t)
  BY <1>8, <1>0 DEF Published, Cleared, DirOf, Empty
<1>9. CASE PublishFails(t)
  BY <1>9, <1>0 DEF PublishFails, Cleared, DirOf, Empty
<1>10. ASSUME NEW f \in File, FileStep(t, f)
       PROVE  FlowTypeOK'
  <2>1. CASE FetchFile(t, f)
    BY <2>1, <1>0 DEF FetchFile
  <2>2. CASE StoreFile(t, f)
    BY <2>2, <1>0 DEF StoreFile
  <2>3. CASE ExtractFile(t, f)
    BY <2>3, <1>0 DEF ExtractFile, DirOf
  <2>4. CASE StageFile(t, f)
    BY <2>4, <1>0 DEF StageFile, DirOf
  <2>5. QED
    BY <1>10, <2>1, <2>2, <2>3, <2>4 DEF FileStep
<1>11. QED
  BY <1>1, <1>2, <1>3, <1>4, <1>5, <1>6, <1>7, <1>8, <1>9, <1>10 DEF TaskStep

\* A step is of one task, which was not over and has left "waiting".
LEMMA StepShape ==
  ASSUME FlowTypeOK, NEW t \in Task, TaskStep(t)
  PROVE  /\ UNCHANGED flow
         /\ phase[t] \notin Ended /\ phase'[t] # "waiting"
         /\ phase[t] = "waiting" => NeedsDone(t)
         /\ \A s \in Task \ {t} :
              /\ phase'[s] = phase[s] /\ todo'[s] = todo[s]
              /\ got'[s] = got[s] /\ staged'[s] = staged[s] /\ recorded'[s] = recorded[s]
<1> USE DEF FlowTypeOK, At, Goto, Handle, FileTree, Ended
<1>1. CASE StartTask(t) \/ PublishStart(t)
  BY <1>1 DEF StartTask, PublishStart, List
<1>2. CASE Fetched(t) \/ Built(t) \/ ExtractedAll(t)
  BY <1>2 DEF Fetched, Built, ExtractedAll
<1>3. CASE Stored(t) \/ Published(t)
  BY <1>3 DEF Stored, Published
<1>4. CASE TaskFails(t) \/ PublishFails(t)
  BY <1>4 DEF TaskFails, PublishFails
<1>5. CASE \E f \in File : FetchFile(t, f) \/ ExtractFile(t, f)
  BY <1>5 DEF FetchFile, ExtractFile
<1>6. CASE \E f \in File : StoreFile(t, f) \/ StageFile(t, f)
  BY <1>6 DEF StoreFile, StageFile
<1>7. QED
  BY <1>1, <1>2, <1>3, <1>4, <1>5, <1>6 DEF TaskStep, FileStep

LEMMA UpstreamStep ==
  ASSUME FlowTypeOK, UpstreamInv, NEW t \in Task, TaskStep(t)
  PROVE  UpstreamInv'
<1>1. SUFFICES ASSUME NEW s \in Task, phase'[s] # "waiting", NEW u \in Upstream(s)
               PROVE  phase'[u] = "success"
  <2>1. UNCHANGED flow
    BY StepShape
  <2>2. \A s \in Task : Upstream(s)' = Upstream(s)
    BY <2>1, SameFlow
  <2>3. QED
    BY <2>2 DEF UpstreamInv
<1>2. phase[u] = "success"
  <2>1. CASE s = t /\ phase[t] = "waiting"
    BY <2>1, StepShape, ReadyUpstream
  <2>2. CASE s = t /\ phase[t] # "waiting"
    BY <2>2 DEF UpstreamInv
  <2>3. CASE s # t
    BY <2>3, <1>1, StepShape DEF UpstreamInv
  <2>4. QED
    BY <2>1, <2>2, <2>3
<1>3. u \in Task \ {t}
  BY <1>2, StepShape, FlowFacts DEF Ended
<1>4. QED
  BY <1>2, <1>3, StepShape

-----------------------------------------------------------------------------
(* The store *)

\* Only StoreFile writes; whoever starts to store has it all to do, and whoever ends
\* well had nothing left to store.
LEMMA NotStoring ==
  ASSUME FlowTypeOK, NEW t \in Task, TaskStep(t), \A f \in File : ~StoreFile(t, f)
  PROVE  /\ drive' = drive
         /\ phase[t] = "storing" => phase'[t] \in Ended
         /\ phase'[t] = "storing" => todo'[t] = flow.files[t]
         /\ phase'[t] = "success" => \/ phase[t] = "storing" /\ todo[t] = {}
                                     \/ flow.makes[t] = NoName
<1> USE DEF FlowTypeOK, At, Goto, Handle, Ended
<1>1. CASE StartTask(t)
  <2>1. PICK p \in {"building", "fetching", "failure"}, S \in SUBSET File : Goto(t, p, S)
    BY <1>1, StartFacts
  <2>2. phase'[t] = p /\ phase[t] = "waiting" /\ drive' = drive
    BY <1>1, <2>1 DEF StartTask
  <2>3. QED
    BY <2>2
<1>2. CASE PublishStart(t)
  <2>1. t \in flow.publish /\ flow.takes[t] \in Name
    BY <1>2, FlowFacts DEF PublishStart
  <2>2. PICK p \in {"fetching", "failure"}, S \in SUBSET File : Goto(t, p, S)
    BY <1>2, <2>1, ListFacts DEF PublishStart
  <2>3. phase'[t] = p /\ phase[t] = "waiting" /\ drive' = drive
    BY <1>2, <2>2 DEF PublishStart
  <2>4. QED
    BY <2>3
<1>3. CASE Fetched(t) \/ ExtractedAll(t)
  BY <1>3 DEF Fetched, ExtractedAll
<1>4. CASE Built(t)
  BY <1>4 DEF Built
<1>5. CASE Stored(t)
  BY <1>5 DEF Stored
<1>6. CASE Published(t)
  <2>1. t \in flow.publish /\ flow.makes[t] = NoName
    BY <1>6, FlowFacts DEF Published
  <2>2. QED
    BY <1>6, <2>1 DEF Published
<1>7. CASE TaskFails(t) \/ PublishFails(t)
  BY <1>7 DEF TaskFails, PublishFails
<1>8. CASE \E f \in File : FetchFile(t, f) \/ ExtractFile(t, f) \/ StageFile(t, f)
  BY <1>8 DEF FetchFile, ExtractFile, StageFile
<1>9. QED
  BY <1>1, <1>2, <1>3, <1>4, <1>5, <1>6, <1>7, <1>8 DEF TaskStep, FileStep

LEMMA DriveOtherStep ==
  ASSUME FlowTypeOK, DriveInv, NEW t \in Task, TaskStep(t), \A f \in File : ~StoreFile(t, f)
  PROVE  DriveInv'
<1>1. /\ UNCHANGED flow /\ drive' = drive
      /\ \A s \in Task \ {t} : phase'[s] = phase[s] /\ todo'[s] = todo[s]
      /\ \A n \in Name : Makers(n)' = Makers(n)
      /\ \A s \in Task : Upstream(s)' = Upstream(s)
  BY StepShape, NotStoring, SameFlow
<1>2. ASSUME NEW s \in Task, phase'[s] = "storing"
      PROVE  todo'[s] \subseteq flow.files[s]
  BY <1>1, <1>2, NotStoring DEF DriveInv
<1>3. ASSUME NEW s \in Task, phase[s] \in {"storing"} \cup Ended
      PROVE  phase'[s] \in {"storing"} \cup Ended
  BY <1>1, <1>3, NotStoring, StepShape DEF Ended
<1>4. ASSUME NEW n \in Name, NEW f \in File, NEW u \in Makers(n), Wrote(u, f)'
      PROVE  Wrote(u, f)
  <2>1. u \in Task /\ flow.makes[u] # NoName
    BY FlowsAssumption DEF Makers
  <2>2. CASE u = t
    BY <2>1, <2>2, <1>1, <1>4, NotStoring DEF Wrote
  <2>3. CASE u # t
    BY <2>1, <2>3, <1>1, <1>4 DEF Wrote
  <2>4. QED
    BY <2>2, <2>3
<1>5. \A n \in Name, f \in File : drive'[n][f] # None =>
        /\ drive'[n][f] \in Makers(n)
        /\ f \in flow.files[drive'[n][f]]
        /\ phase'[drive'[n][f]] \in {"storing"} \cup Ended
  <2>1. TAKE n \in Name, f \in File
  <2>2. HAVE drive'[n][f] # None
  <2>3. /\ drive[n][f] \in Makers(n) /\ drive[n][f] \in Task
        /\ f \in flow.files[drive[n][f]]
        /\ phase[drive[n][f]] \in {"storing"} \cup Ended
    BY <2>2, <1>1 DEF DriveInv, Makers
  <2>4. QED
    BY <2>3, <1>1, <1>3
<1>6. \A n \in Name, f \in File : \A u \in Makers(n) :
        Wrote(u, f)' => drive'[n][f] # None /\ drive'[n][f] \notin Upstream(u)
  BY <1>4, <1>1 DEF DriveInv
<1>7. \A n \in Name, f \in File : \A u \in Makers(n)' :
        Wrote(u, f)' => drive'[n][f] # None /\ drive'[n][f] \notin Upstream(u)'
  BY <1>6, <1>1 DEF Makers
<1>8. QED
  BY <1>1, <1>2, <1>5, <1>7 DEF DriveInv

LEMMA StoreFileStep ==
  ASSUME FlowTypeOK, UpstreamInv, DriveInv, NEW t \in Task, NEW f \in File, StoreFile(t, f)
  PROVE  DriveInv'
<1>1. /\ UNCHANGED flow /\ phase' = phase /\ phase[t] = "storing" /\ f \in todo[t]
      /\ todo' = [todo EXCEPT ![t] = @ \ {f}]
      /\ drive' = [drive EXCEPT ![flow.makes[t]][f] = t]
      /\ \A n \in Name : Makers(n)' = Makers(n)
      /\ \A s \in Task : Upstream(s)' = Upstream(s)
  BY SameFlow DEF StoreFile, At, Handle
<1>2. flow.makes[t] \in Name /\ t \in Makers(flow.makes[t]) /\ f \in flow.files[t]
  BY <1>1, FlowFacts DEF FlowTypeOK, DriveInv, Makers
<1>3. /\ drive'[flow.makes[t]][f] = t
      /\ \A n \in Name, g \in File :
           (n # flow.makes[t] \/ g # f) => drive'[n][g] = drive[n][g]
  BY <1>1, <1>2 DEF FlowTypeOK, FileTree
<1>4. /\ todo'[t] = todo[t] \ {f}
      /\ \A s \in Task \ {t} : todo'[s] = todo[s]
  BY <1>1 DEF FlowTypeOK
<1>5. \A s \in Task : phase'[s] = "storing" => todo'[s] \subseteq flow'.files[s]
  BY <1>1, <1>4 DEF DriveInv
<1>6. \A n \in Name, g \in File : drive'[n][g] # None =>
        /\ drive'[n][g] \in Makers(n)'
        /\ g \in flow'.files[drive'[n][g]]
        /\ phase'[drive'[n][g]] \in {"storing"} \cup Ended
  BY <1>1, <1>2, <1>3 DEF DriveInv
<1>7. ASSUME NEW n \in Name, NEW g \in File, NEW u \in Makers(n), Wrote(u, g)'
      PROVE  drive'[n][g] # None /\ drive'[n][g] \notin Upstream(u)
  <2>1. u \in Task /\ flow.makes[u] = n
    BY DEF Makers
  <2>2. CASE n = flow.makes[t] /\ g = f
    <3>1. phase[u] # "waiting"
      BY <1>7, <1>1 DEF Wrote
    <3>2. t \notin Upstream(u)
      BY <2>1, <3>1, <1>1 DEF UpstreamInv
    <3>3. t # None
      BY DEF Task, None
    <3>4. QED
      BY <3>2, <3>3, <2>2, <1>3
  <2>3. CASE n # flow.makes[t] \/ g # f
    <3>1. Wrote(u, g)
      BY <2>1, <2>3, <1>7, <1>1, <1>4 DEF Wrote
    <3>2. QED
      BY <3>1, <2>3, <1>3 DEF DriveInv
  <2>4. QED
    BY <2>2, <2>3
<1>8. \A n \in Name, g \in File : \A u \in Makers(n)' :
        Wrote(u, g)' => drive'[n][g] # None /\ drive'[n][g] \notin Upstream(u)'
  BY <1>7, <1>1 DEF Makers
<1>9. QED
  BY <1>5, <1>6, <1>8 DEF DriveInv

-----------------------------------------------------------------------------
(* What a task gets *)

\* Whoever is about to read, with makers in order and everything upstream over, finds
\* what the last maker upstream wrote.
LEMMA ReadsLastMade ==
  ASSUME FlowTypeOK, UpstreamInv, DriveInv, NEW t \in Task, flow.takes[t] \in Name,
         MakersOrdered(t), phase[t] \in {"waiting", "fetching"},
         \A u \in Upstream(t) : phase[u] = "success",
         NEW f \in File
  PROVE  /\ \A u \in Task : drive[flow.takes[t]][f] = u <=> LastMaker(t, f, u)
         /\ drive[flow.takes[t]][f] = None <=> ~\E u \in Task : LastMaker(t, f, u)
<1> PICK v : v = drive[flow.takes[t]][f]
  OBVIOUS
<1> PICK M : M = Makers(flow.takes[t]) \cap Upstream(t)
  OBVIOUS
<1>1. \A u \in M : u \in Task /\ (f \in flow.files[u] => v # None /\ v \notin Upstream(u))
  BY DEF DriveInv, Wrote, Makers
<1>2. v # None => v \in M /\ f \in flow.files[v]
  <2>1. HAVE v # None
  <2>2. /\ v \in Makers(flow.takes[t]) /\ f \in flow.files[v]
        /\ phase[v] \in {"storing"} \cup Ended
    BY <2>1 DEF DriveInv
  <2>3. v \in Task /\ v # t
    BY <2>2 DEF Makers, Ended
  <2>4. Ordered(v, t) \/ Ordered(t, v)
    BY <2>2, <2>3 DEF MakersOrdered
  <2>5. t \notin Upstream(v)
    BY <2>2, <2>3 DEF UpstreamInv, Ended
  <2>6. QED
    BY <2>2, <2>4, <2>5 DEF Ordered
<1>3. v # None => LastMaker(t, f, v)
  BY <1>1, <1>2 DEF LastMaker
<1>4. ASSUME NEW u \in Task, LastMaker(t, f, u)
      PROVE  v = u
  <2>1. u \in M /\ f \in flow.files[u]
    BY <1>4 DEF LastMaker
  <2>2. v # None /\ v \notin Upstream(u)
    BY <2>1, <1>1
  <2>3. v \in M /\ f \in flow.files[v] /\ u \notin Upstream(v)
    BY <2>2, <1>2, <1>4 DEF LastMaker
  <2>4. QED
    BY <2>1, <2>2, <2>3 DEF MakersOrdered, Ordered
<1>5. None \notin Task
  BY DEF None, Task
<1>6. v = None \/ v \in Task
  BY <1>1, <1>2
<1>7. QED
  BY <1>3, <1>4, <1>5, <1>6

LEMMA SameExact ==
  ASSUME UNCHANGED flow, NEW t, NEW f, got'[t][f] = got[t][f]
  PROVE  Exact(t, f)' <=> Exact(t, f)
BY SameFlow DEF Exact

\* The listing holds what the makers left; a file that is not in it has no maker.
LEMMA ListGot ==
  ASSUME FlowTypeOK, UpstreamInv, DriveInv, GotInv, NEW t \in Task, NeedsDone(t),
         phase[t] = "waiting", flow.takes[t] \in Name, List(t), UNCHANGED <<flow, got>>
  PROVE  GotOf(t)'
<1>1. /\ phase'[t] \in {"fetching", "failure"}
      /\ phase'[t] = "fetching" => todo'[t] = Present(drive[flow.takes[t]])
  BY DEF List, Goto, FlowTypeOK
<1>2. ASSUME MakersOrdered(t), NEW f \in File, f \notin Present(drive[flow.takes[t]])
      PROVE  Exact(t, f)'
  <2>1. drive[flow.takes[t]][f] = None
    BY <1>2 DEF Present
  <2>2. ~\E u \in Task : LastMaker(t, f, u)
    BY <1>2, <2>1, ReadyUpstream, ReadsLastMade
  <2>3. got[t][f] = None
    BY DEF GotInv, GotOf, Empty
  <2>4. None \notin Task
    BY DEF None, Task
  <2>5. Exact(t, f)
    BY <2>2, <2>3, <2>4 DEF Exact
  <2>6. QED
    BY <2>5, SameExact
<1>3. MakersOrdered(t)' <=> MakersOrdered(t)
  BY SameFlow
<1>4. QED
  BY <1>1, <1>2, <1>3 DEF GotOf

\* One file is read.
LEMMA ReadGot ==
  ASSUME FlowTypeOK, UpstreamInv, DriveInv, GotInv, NEW t \in Task, phase[t] = "fetching",
         NEW f \in File, Handle(t, f), UNCHANGED flow,
         got' = [got EXCEPT ![t][f] = drive[flow.takes[t]][f]]
  PROVE  GotOf(t)'
<1>1. /\ phase'[t] = "fetching" /\ todo'[t] = todo[t] \ {f}
      /\ flow.takes[t] \in Name
  BY FlowFacts DEF Handle, FlowTypeOK
<1>2. /\ got'[t][f] = drive[flow.takes[t]][f]
      /\ \A g \in File \ {f} : got'[t][g] = got[t][g]
  BY DEF FlowTypeOK, FileTree
<1>3. MakersOrdered(t)' <=> MakersOrdered(t)
  BY SameFlow
<1>4. ASSUME MakersOrdered(t), NEW g \in File, g \notin todo[t] \ {f}
      PROVE  Exact(t, g)'
  <2>1. CASE g = f
    <3>1. \A u \in Upstream(t) : phase[u] = "success"
      BY DEF UpstreamInv
    <3>2. /\ \A u \in Task : drive[flow.takes[t]][f] = u <=> LastMaker(t, f, u)
          /\ drive[flow.takes[t]][f] = None <=> ~\E u \in Task : LastMaker(t, f, u)
      BY <3>1, <1>1, <1>4, ReadsLastMade
    <3>3. \A u : LastMaker(t, f, u)' <=> LastMaker(t, f, u)
      BY SameFlow
    <3>4. QED
      BY <3>2, <3>3, <2>1, <1>2 DEF Exact
  <2>2. CASE g # f
    <3>1. Exact(t, g)
      BY <2>2, <1>4 DEF GotInv, GotOf
    <3>2. QED
      BY <3>1, <2>2, <1>2, SameExact
  <2>3. QED
    BY <2>1, <2>2
<1>5. QED
  BY <1>1, <1>3, <1>4 DEF GotOf

LEMMA GotStep ==
  ASSUME FlowTypeOK, UpstreamInv, DriveInv, GotInv, NEW t \in Task, TaskStep(t)
  PROVE  GotInv'
<1>0. /\ UNCHANGED flow /\ phase'[t] # "waiting"
      /\ \A s \in Task : MakersOrdered(s)' <=> MakersOrdered(s)
  BY StepShape, SameFlow
<1>1. ASSUME NEW s \in Task \ {t}
      PROVE  GotOf(s)'
  <2>1. phase'[s] = phase[s] /\ todo'[s] = todo[s] /\ got'[s] = got[s]
    BY StepShape
  <2>2. \A f \in File : Exact(s, f)' <=> Exact(s, f)
    BY <2>1, <1>0, SameExact
  <2>3. QED
    BY <2>1, <2>2, <1>0 DEF GotInv, GotOf, Empty
\* Steps that go on with all of t's files there, or give up.
<1>2. ASSUME got' = got,
             \/ phase'[t] = "failure"
             \/ flow.takes[t] = NoName /\ phase'[t] # "fetching"
             \/ /\ phase'[t] # "fetching"
                /\ \/ phase[t] = "fetching" /\ todo[t] = {}
                   \/ phase[t] \in {"building", "storing", "staging"}
      PROVE  GotOf(t)'
  <2>1. \A f \in File : Exact(t, f)' <=> Exact(t, f)
    BY <1>0, <1>2, SameExact
  <2>2. CASE phase'[t] = "failure" \/ (flow.takes[t] = NoName /\ phase'[t] # "fetching")
    BY <2>2, <1>0 DEF GotOf
  <2>3. CASE phase'[t] # "fetching" /\ phase[t] = "fetching" /\ todo[t] = {}
    BY <2>1, <2>3, <1>0 DEF GotInv, GotOf
  <2>4. CASE phase'[t] # "fetching" /\ phase[t] \in {"building", "storing", "staging"}
    BY <2>1, <2>4, <1>0 DEF GotInv, GotOf
  <2>5. QED
    BY <1>2, <2>2, <2>3, <2>4
<1>3. GotOf(t)'
  <2>1. CASE StartTask(t)
    <3>1. CASE flow.takes[t] = NoName
      <4>1. got' = got /\ phase'[t] = "building"
        BY <2>1, <3>1 DEF StartTask, Goto, FlowTypeOK
      <4>2. QED
        BY <4>1, <3>1, <1>2
    <3>2. CASE flow.takes[t] # NoName
      <4>1. flow.takes[t] \in Name
        BY <3>2, FlowFacts
      <4>2. QED
        BY <4>1, <3>2, <2>1, ListGot DEF StartTask, At
    <3>3. QED
      BY <3>1, <3>2
  <2>2. CASE PublishStart(t)
    <3>1. flow.takes[t] \in Name
      BY <2>2, FlowFacts DEF PublishStart
    <3>2. QED
      BY <3>1, <2>2, ListGot DEF PublishStart, At
  <2>3. CASE \E f \in File : FetchFile(t, f) \/ ExtractFile(t, f)
    BY <2>3, ReadGot DEF FetchFile, ExtractFile, At
  <2>4. CASE Fetched(t) \/ ExtractedAll(t)
    <3>1. got' = got /\ phase[t] = "fetching" /\ todo[t] = {} /\ phase'[t] # "fetching"
      BY <2>4 DEF Fetched, ExtractedAll, At, Goto, FlowTypeOK
    <3>2. QED
      BY <3>1, <1>2
  <2>5. CASE Built(t) \/ Stored(t) \/ Published(t)
    <3>1. /\ got' = got /\ phase[t] \in {"building", "storing", "staging"}
          /\ phase'[t] # "fetching"
      BY <2>5 DEF Built, Stored, Published, At, Goto, FlowTypeOK
    <3>2. QED
      BY <3>1, <1>2
  <2>6. CASE \E f \in File : StoreFile(t, f) \/ StageFile(t, f)
    <3>1. /\ got' = got /\ phase[t] \in {"building", "storing", "staging"}
          /\ phase'[t] # "fetching"
      BY <2>6 DEF StoreFile, StageFile, At, Handle
    <3>2. QED
      BY <3>1, <1>2
  <2>7. CASE TaskFails(t) \/ PublishFails(t)
    <3>1. got' = got /\ phase'[t] = "failure"
      BY <2>7 DEF TaskFails, PublishFails, Goto, FlowTypeOK
    <3>2. QED
      BY <3>1, <1>2
  <2>8. QED
    BY <2>1, <2>2, <2>3, <2>4, <2>5, <2>6, <2>7 DEF TaskStep, FileStep
<1>4. QED
  BY <1>1, <1>3 DEF GotInv

-----------------------------------------------------------------------------
(* What is staged *)

LEMMA StagedStep ==
  ASSUME FlowTypeOK, UpstreamInv, GotInv, StagedInv, NEW t \in Task, TaskStep(t)
  PROVE  StagedInv'
<1>0. /\ UNCHANGED flow /\ phase[t] \notin Ended /\ phase'[t] # "waiting"
      /\ \A s \in Task : Alone(s)' <=> Alone(s)
      /\ flow.publish \subseteq Task
      /\ \A s \in flow.publish : flow.takes[s] \in Name
  BY StepShape, SameFlow, FlowFacts
\* Only the publish tasks of an artifact touch its directory.
<1>1. /\ \A n \in Name \ {flow.takes[t]} : dir'[n] = dir[n]
      /\ t \notin flow.publish => dir' = dir
  <2>1. CASE \E f \in File : FileStep(t, f)
    BY <2>1 DEF FileStep, FetchFile, StoreFile, ExtractFile, StageFile, DirOf, FlowTypeOK
  <2>2. CASE PublishStart(t) \/ PublishFails(t)
    BY <2>2 DEF PublishStart, PublishFails, Cleared, DirOf, FlowTypeOK
  <2>3. CASE Published(t)
    <3>1. t \in flow.publish
      BY <2>3 DEF Published, At, FlowTypeOK
    <3>2. QED
      BY <2>3, <3>1 DEF Published, Cleared, DirOf, FlowTypeOK
  <2>4. CASE StartTask(t) \/ Fetched(t) \/ Built(t) \/ Stored(t) \/ TaskFails(t) \/ ExtractedAll(t)
    BY <2>4 DEF StartTask, Fetched, Built, Stored, TaskFails, ExtractedAll
  <2>5. QED
    BY <2>1, <2>2, <2>3, <2>4 DEF TaskStep
<1>2. ASSUME NEW s \in flow.publish, s # t
      PROVE  StagedOf(s)'
  <2>1. /\ phase'[s] = phase[s] /\ todo'[s] = todo[s] /\ got'[s] = got[s]
        /\ staged'[s] = staged[s] /\ recorded'[s] = recorded[s]
    BY <1>0, <1>2, StepShape
  <2>2. (phase[s] \in {"fetching", "staging"} /\ Alone(s)) => dir'[flow.takes[s]] = dir[flow.takes[s]]
    <3>1. HAVE phase[s] \in {"fetching", "staging"} /\ Alone(s)
    <3>2. CASE t \in flow.publish /\ flow.takes[t] = flow.takes[s]
      <4>1. s \in Upstream(t) \/ t \in Upstream(s)
        BY <3>1, <3>2, <1>2 DEF Alone, Ordered
      <4>2. t \notin Upstream(s)
        BY <3>1, <1>0 DEF UpstreamInv, Ended
      <4>3. s \notin Upstream(t)
        <5>1. UpstreamInv'
          BY UpstreamStep
        <5>2. Upstream(t)' = Upstream(t)
          BY <1>0, SameFlow
        <5>3. QED
          BY <5>1, <5>2, <3>1, <2>1, <1>0 DEF UpstreamInv
      <4>4. QED
        BY <4>1, <4>2, <4>3
    <3>3. CASE t \notin flow.publish \/ flow.takes[t] # flow.takes[s]
      BY <3>3, <1>0, <1>1
    <3>4. QED
      BY <3>2, <3>3
  <2>3. QED
    BY <2>1, <2>2, <1>0 DEF StagedInv, StagedOf, Empty
<1>3. ASSUME t \in flow.publish
      PROVE  StagedOf(t)'
  <2> PICK n \in Name : n = flow.takes[t]
    BY <1>0, <1>3
  <2>0. StagedOf(t) /\ flow.makes[t] = NoName
    BY <1>3, FlowFacts DEF StagedInv
  <2>1. CASE PublishStart(t)
    <3>1. /\ phase'[t] \in {"fetching", "failure"}
          /\ dir'[n] = Empty
          /\ staged'[t] = staged[t] /\ got'[t] = got[t] /\ phase[t] = "waiting"
      BY <2>1 DEF PublishStart, Cleared, DirOf, List, Goto, At, FlowTypeOK
    <3>2. got[t] = Empty /\ staged[t] = Empty
      BY <3>1, <2>0 DEF GotInv, GotOf, StagedOf
    <3>3. QED
      BY <3>1, <3>2, <1>0 DEF StagedOf, Empty
  <2>2. ASSUME NEW f \in File, ExtractFile(t, f)
        PROVE  StagedOf(t)'
    <3>1. /\ phase'[t] = "fetching" /\ phase[t] = "fetching" /\ staged' = staged
          /\ got'[t] = [got[t] EXCEPT ![f] = drive[n][f]]
          /\ dir'[n] = [dir[n] EXCEPT ![f] = drive[n][f]]
      BY <2>2 DEF ExtractFile, Handle, At, DirOf, FlowTypeOK
    <3>2. QED
      BY <3>1, <2>0, <1>0 DEF StagedOf, Empty
  <2>3. CASE ExtractedAll(t)
    <3>1. /\ phase'[t] = "staging" /\ phase[t] = "fetching" /\ todo'[t] = Present(dir[n])
          /\ staged' = staged /\ got' = got /\ dir' = dir
      BY <2>3 DEF ExtractedAll, At, Goto, DirOf, FlowTypeOK
    <3>2. \A f \in File \ todo'[t] : dir[n][f] = None /\ staged[t][f] = None
      BY <3>1, <2>0 DEF StagedOf, Present, Empty
    <3>3. QED
      BY <3>1, <3>2, <2>0, <1>0 DEF StagedOf
  <2>4. ASSUME NEW f \in File, StageFile(t, f)
        PROVE  StagedOf(t)'
    <3>1. /\ phase'[t] = "staging" /\ phase[t] = "staging" /\ todo'[t] = todo[t] \ {f}
          /\ got' = got /\ dir' = dir
          /\ staged'[t][f] = dir[n][f]
          /\ \A g \in File \ {f} : staged'[t][g] = staged[t][g]
      BY <2>4 DEF StageFile, Handle, At, DirOf, FlowTypeOK, FileTree
    <3>2. QED
      BY <3>1, <2>0, <1>0 DEF StagedOf
  <2>5. CASE Published(t)
    <3>1. /\ phase'[t] = "success" /\ phase[t] = "staging" /\ todo[t] = {}
          /\ recorded'[t] = got[t] /\ staged' = staged
      BY <2>5 DEF Published, At, Goto, FlowTypeOK
    <3>2. Alone(t) => staged[t] = got[t]
      <4>1. staged[t] \in FileTree /\ got[t] \in FileTree
        BY DEF FlowTypeOK
      <4>2. Alone(t) => \A f \in File : staged[t][f] = got[t][f]
        BY <3>1, <2>0 DEF StagedOf
      <4>3. QED
        BY <4>1, <4>2 DEF FileTree
    <3>3. QED
      BY <3>1, <3>2, <1>0 DEF StagedOf
  <2>6. CASE PublishFails(t)
    <3>1. phase'[t] = "failure"
      BY <2>6 DEF PublishFails, Goto, FlowTypeOK
    <3>2. QED
      BY <3>1 DEF StagedOf
  <2>7. CASE Built(t)
    BY <2>7, <2>0 DEF Built, At, StagedOf
  <2>8. CASE Stored(t) \/ \E f \in File : StoreFile(t, f)
    BY <2>8, <2>0 DEF Stored, StoreFile, At, FlowTypeOK
  <2>9. CASE StartTask(t) \/ Fetched(t) \/ TaskFails(t) \/ \E f \in File : FetchFile(t, f)
    BY <2>9, <1>3 DEF StartTask, Fetched, TaskFails, FetchFile
  <2>10. QED
    BY <2>1, <2>2, <2>3, <2>4, <2>5, <2>6, <2>7, <2>8, <2>9 DEF TaskStep, FileStep
<1>4. QED
  BY <1>0, <1>2, <1>3 DEF StagedInv

-----------------------------------------------------------------------------
(* Theorems *)

LEMMA StepInv == Inv /\ [FlowNext]_flowVars => Inv'
<1> SUFFICES ASSUME Inv, [FlowNext]_flowVars PROVE Inv'
  OBVIOUS
<1>1. CASE UNCHANGED flowVars
  <2>1. UNCHANGED <<flow, phase, todo, drive, got, dir, staged, recorded>>
    BY <1>1 DEF flowVars
  <2>2. FlowTypeOK'
    BY <2>1 DEF Inv, FlowTypeOK
  <2>3. UpstreamInv'
    BY <2>1 DEF Inv, UpstreamInv, Upstream
  <2>4. DriveInv'
    BY <2>1 DEF Inv, DriveInv, Upstream, Makers, Wrote
  <2>5. GotInv'
    BY <2>1 DEF Inv, GotInv, GotOf, Exact, MakersOrdered, LastMaker, Makers, Ordered, Upstream
  <2>6. StagedInv'
    BY <2>1 DEF Inv, StagedInv, StagedOf, Alone, Ordered, Upstream
  <2>7. QED
    BY <2>2, <2>3, <2>4, <2>5, <2>6 DEF Inv
<1>2. ASSUME NEW t \in Task, TaskStep(t)
      PROVE  Inv'
  <2>1. FlowTypeOK' /\ UpstreamInv'
    BY <1>2, TypeStep, UpstreamStep DEF Inv
  <2>2. DriveInv'
    BY <1>2, DriveOtherStep, StoreFileStep DEF Inv
  <2>3. GotInv' /\ StagedInv'
    BY <1>2, GotStep, StagedStep DEF Inv
  <2>4. QED
    BY <2>1, <2>2, <2>3 DEF Inv
<1>3. QED
  BY <1>1, <1>2 DEF FlowNext, Over

LEMMA AlwaysInv == FlowSpec => []Inv
BY InitInv, StepInv, PTL DEF FlowSpec

\* Every variable stays in its type; in particular nothing is fetched for a task that takes
\* no artifact, nor stored for one that makes none (lib/run _fetchInputs, _collectOutputs).
THEOREM ArtifactFlowTypeOK == FlowSpec => []FlowTypeOK
BY AlwaysInv, PTL DEF Inv

\* A task whose artifact's makers are ordered by needs gets file by file what the last of
\* them upstream stored (lib/store put and get), in every workflow.
THEOREM ArtifactFlowGetsLastMade == FlowSpec => []GetsLastMade
<1>1. Inv => GetsLastMade
  BY DEF Inv, GotInv, GotOf, GetsLastMade, Exact
<1>2. QED
  BY <1>1, AlwaysInv, PTL

\* A publish task that is alone with its artifact records the digest of what it staged
\* (bin.js runPublishTask), whatever else runs beside it.
THEOREM ArtifactFlowRecordMatchesStaged == FlowSpec => []RecordMatchesStaged
<1>1. Inv => RecordMatchesStaged
  BY DEF Inv, StagedInv, StagedOf, RecordMatchesStaged, Alone
<1>2. QED
  BY <1>1, AlwaysInv, PTL

-----------------------------------------------------------------------------
(* Sequences *)

LEMMA PrefixIs ==
  ASSUME NEW S, NEW s \in Seq(S), NEW t \in Seq(S)
  PROVE  IsPrefix(s, t) <=> /\ Len(s) <= Len(t)
                            /\ \A i \in 1..Len(s) : s[i] = t[i]
<1>1. Len(s) \in Nat /\ Len(t) \in Nat /\ SubSeq(s, 1, Len(s)) = s
  BY SubSeqFull, LenProperties
<1>2. ASSUME Len(s) <= Len(t)
      PROVE  /\ SubSeq(t, 1, Len(s)) \in Seq(S)
             /\ Len(SubSeq(t, 1, Len(s))) = Len(s)
             /\ \A i \in 1..Len(s) : SubSeq(t, 1, Len(s))[i] = t[i]
  <2>1. \A i \in 1..Len(s) : t[i] \in S
    BY <1>1, <1>2, LenProperties
  <2>2. 1 \in Int /\ Len(s) \in Int
    BY <1>1
  <2>3. /\ SubSeq(t, 1, Len(s)) \in Seq(S)
        /\ Len(SubSeq(t, 1, Len(s))) = IF 1 <= Len(s) THEN Len(s) - 1 + 1 ELSE 0
        /\ \A i \in 1..(Len(s) - 1 + 1) : SubSeq(t, 1, Len(s))[i] = t[1 + i - 1]
    BY <2>1, <2>2, SubSeqProperties
  <2>4. QED
    BY <1>1, <2>3
<1>3. CASE Len(s) <= Len(t)
  <2>1. (\A i \in 1..Len(s) : s[i] = t[i]) => s = SubSeq(t, 1, Len(s))
    BY <1>2, <1>3, SeqEqual
  <2>2. s = SubSeq(t, 1, Len(s)) => \A i \in 1..Len(s) : s[i] = t[i]
    BY <1>2, <1>3
  <2>3. QED
    BY <1>1, <1>3, <2>1, <2>2 DEF IsPrefix
<1>4. CASE ~(Len(s) <= Len(t))
  BY <1>4 DEF IsPrefix
<1>5. QED
  BY <1>3, <1>4

LEMMA PrefixTrans ==
  ASSUME NEW S, NEW r \in Seq(S), NEW s \in Seq(S), NEW t \in Seq(S),
         IsPrefix(r, s), IsPrefix(s, t)
  PROVE  IsPrefix(r, t)
<1>1. Len(r) \in Nat /\ Len(s) \in Nat /\ Len(t) \in Nat
  BY LenProperties
<1>2. Len(r) <= Len(s) /\ \A i \in 1..Len(r) : r[i] = s[i]
  BY PrefixIs
<1>3. Len(s) <= Len(t) /\ \A i \in 1..Len(s) : s[i] = t[i]
  BY PrefixIs
<1>4. Len(r) <= Len(t) /\ \A i \in 1..Len(r) : r[i] = t[i]
  BY <1>1, <1>2, <1>3
<1>5. QED
  BY <1>4, PrefixIs

LEMMA PrefixOfItself ==
  ASSUME NEW S, NEW s \in Seq(S)
  PROVE  IsPrefix(s, s) /\ IsPrefix(<<>>, s) /\ <<>> \in Seq(S)
<1>1. Len(s) \in Nat
  BY LenProperties
<1>2. IsPrefix(s, s)
  <2>1. Len(s) <= Len(s) /\ \A i \in 1..Len(s) : s[i] = s[i]
    BY <1>1
  <2>2. QED
    BY <2>1, PrefixIs
<1>3. PICK e \in Seq(S) : e = <<>> /\ Len(e) = 0
  BY EmptySeq
<1>4. IsPrefix(e, s)
  <2>1. Len(e) <= Len(s) /\ \A i \in 1..Len(e) : e[i] = s[i]
    BY <1>1, <1>3
  <2>2. QED
    BY <2>1, PrefixIs
<1>5. QED
  BY <1>2, <1>3, <1>4

LEMMA PrefixesOfEachOther ==
  ASSUME NEW S, NEW s \in Seq(S), NEW t \in Seq(S), IsPrefix(s, t), IsPrefix(t, s)
  PROVE  s = t
<1>1. Len(s) \in Nat /\ Len(t) \in Nat
  BY LenProperties
<1>2. Len(s) <= Len(t) /\ Len(t) <= Len(s) /\ \A i \in 1..Len(s) : s[i] = t[i]
  BY PrefixIs
<1>3. QED
  BY <1>1, <1>2, SeqEqual

\* The first blocks of a sequence.
LEMMA FirstBlocks ==
  ASSUME NEW S, NEW s \in Seq(S), NEW n \in 0..Len(s)
  PROVE  /\ SubSeq(s, 1, n) \in Seq(S) /\ Len(SubSeq(s, 1, n)) = n
         /\ \A i \in 1..n : SubSeq(s, 1, n)[i] = s[i]
         /\ IsPrefix(SubSeq(s, 1, n), s)
         /\ n = Len(s) => SubSeq(s, 1, n) = s
<1>1. Len(s) \in Nat /\ \A i \in 1..n : s[i] \in S
  BY LenProperties
<1>2. /\ SubSeq(s, 1, n) \in Seq(S)
      /\ Len(SubSeq(s, 1, n)) = IF 1 <= n THEN n - 1 + 1 ELSE 0
      /\ \A i \in 1..(n - 1 + 1) : SubSeq(s, 1, n)[i] = s[1 + i - 1]
  BY <1>1, SubSeqProperties
<1>3. /\ SubSeq(s, 1, n) \in Seq(S) /\ Len(SubSeq(s, 1, n)) = n
      /\ \A i \in 1..n : SubSeq(s, 1, n)[i] = s[i]
  BY <1>1, <1>2
<1>4. IsPrefix(SubSeq(s, 1, n), s)
  <2>1. PICK r \in Seq(S) : r = SubSeq(s, 1, n)
    BY <1>3
  <2>2. Len(r) <= Len(s) /\ \A i \in 1..Len(r) : r[i] = s[i]
    BY <1>1, <1>3, <2>1
  <2>3. IsPrefix(r, s)
    BY <2>2, PrefixIs
  <2>4. QED
    BY <2>1, <2>3
<1>5. QED
  BY <1>3, <1>4, SubSeqFull

LEMMA Appended ==
  ASSUME NEW S, NEW s \in Seq(S), NEW e \in S
  PROVE  /\ Append(s, e) \in Seq(S) /\ Len(Append(s, e)) = Len(s) + 1
         /\ IsPrefix(s, Append(s, e))
<1>1. /\ Len(s) \in Nat
      /\ Append(s, e) \in Seq(S) /\ Len(Append(s, e)) = Len(s) + 1
      /\ \A i \in 1..Len(s) : Append(s, e)[i] = s[i]
  BY AppendProperties, LenProperties
<1>2. PICK r \in Seq(S) : r = Append(s, e)
  BY <1>1
<1>3. Len(s) <= Len(r) /\ \A i \in 1..Len(s) : s[i] = r[i]
  BY <1>1, <1>2
<1>4. IsPrefix(s, r)
  BY <1>3, PrefixIs
<1>5. QED
  BY <1>1, <1>2, <1>4

\* One more block of s, for somebody who has a part of it.
LEMMA NextBlock ==
  ASSUME NEW S, NEW p \in Seq(S), NEW s \in Seq(S), IsStrictPrefix(p, s)
  PROVE  /\ SubSeq(s, 1, Len(p) + 1) \in Seq(S)
         /\ IsPrefix(SubSeq(s, 1, Len(p) + 1), s)
         /\ IsPrefix(p, SubSeq(s, 1, Len(p) + 1))
<1>1. IsPrefix(p, s) /\ p # s /\ Len(p) \in Nat /\ Len(s) \in Nat
  BY LenProperties DEF IsStrictPrefix
<1>2. Len(p) <= Len(s) /\ \A i \in 1..Len(p) : p[i] = s[i]
  BY <1>1, PrefixIs
<1>3. Len(p) # Len(s)
  BY <1>1, <1>2, SeqEqual
<1>4. Len(p) + 1 \in 0..Len(s)
  BY <1>1, <1>2, <1>3
<1>5. /\ SubSeq(s, 1, Len(p) + 1) \in Seq(S) /\ Len(SubSeq(s, 1, Len(p) + 1)) = Len(p) + 1
      /\ \A i \in 1..(Len(p) + 1) : SubSeq(s, 1, Len(p) + 1)[i] = s[i]
      /\ IsPrefix(SubSeq(s, 1, Len(p) + 1), s)
  BY <1>4, FirstBlocks
<1>6. PICK r \in Seq(S) : r = SubSeq(s, 1, Len(p) + 1)
  BY <1>5
<1>7. Len(p) <= Len(r) /\ \A i \in 1..Len(p) : p[i] = r[i]
  BY <1>1, <1>2, <1>5, <1>6
<1>8. IsPrefix(p, r)
  BY <1>7, PrefixIs
<1>9. QED
  BY <1>5, <1>6, <1>8
-----------------------------------------------------------------------------
(* The artifacts *)

\* Every step of publishing is a step of the artifacts, or none of theirs.
LEMMA PublishStepIsFlowStep ==
  ASSUME PublishNext
  PROVE  FlowNext \/ UNCHANGED flowVars
<1>1. ASSUME NEW t \in Task, Elsewhere(t) PROVE FlowNext
  BY <1>1 DEF Elsewhere, FlowNext, TaskStep, FileStep
<1>2. ASSUME NEW t \in Task, CatchUp(t) \/ Mirrored(t) \/ Replicate(t) \/ WriteSnapshot(t)
      PROVE  UNCHANGED flowVars
  BY <1>2 DEF CatchUp, Mirrored, Replicate, WriteSnapshot
<1>3. ASSUME NEW t \in Task, Publish(t) PROVE FlowNext
  BY <1>3 DEF Publish, FlowNext, TaskStep
<1>4. ASSUME NEW t \in Task, NEW f \in File, Mirror(t, f) PROVE FlowNext
  BY <1>4 DEF Mirror, FlowNext, TaskStep, FileStep
<1>5. CASE Over /\ Undriven
  BY <1>5 DEF FlowNext
<1>6. QED
  BY <1>1, <1>2, <1>3, <1>4, <1>5 DEF PublishNext

\* For any flows and any drives: with the drives, a run does to its artifacts what it does
\* without them.
THEOREM PublishImplementsFlow == PublishSpec => FlowSpec
<1>1. PublishInit => FlowInit
  BY DEF PublishInit
<1>2. [PublishNext]_publishVars => [FlowNext]_flowVars
  BY PublishStepIsFlowStep DEF publishVars
<1>3. QED
  BY <1>1, <1>2, PTL DEF PublishSpec, FlowSpec

\* So a task gets what the last maker before it stored, and a publish task alone with its
\* artifact records the digest of what it mirrored.
THEOREM PublishKeepsArtifacts == PublishSpec => [](GetsLastMade /\ RecordMatchesStaged)
BY PublishImplementsFlow, ArtifactFlowGetsLastMade, ArtifactFlowRecordMatchesStaged, PTL

-----------------------------------------------------------------------------
(* The invariant *)

\* Tasks that may leave blocks with the peers.
LiveTasks == {t \in Task : Live(t)}

Blocks == LiveTasks \cup {0}

TypesInv == /\ pub \in Publishings
            /\ at \in [Task -> {"opening", "mirroring", "waiting", "written"}]
            /\ peers \in [Drive -> Seq(Blocks)] /\ local \in [Task -> Seq(Blocks)]
            /\ snapshot \in [Drive -> Nat]

\* stage() is for publish tasks that have come so far, and has returned when they succeed.
AtInv == \A t \in Task :
  /\ at[t] # "opening" => t \in flow.publish /\ phase[t] \in {"staging"} \cup Ended
  /\ (t \in flow.publish /\ phase[t] = "success") => at[t] = "written"
  /\ at[t] = "waiting" => Live(t)

\* Between the first block and the snapshot.
Appending(t) == Live(t) /\ at[t] \in {"mirroring", "waiting"}

\* The peers have it all, if there is nothing to append or it is done.
HeldInv == \A t \in Task :
  ~Appending(t) => IsPrefix(local[t], peers[DriveOf(t)])

Unrivalled(t) == \A u \in Task : ~Rivals(t, u)

\* The snapshot knows of what was written by a task without a rival, and who appends after
\* it has caught up with it.
FloorInv == \A t \in flow.publish :
  (at[t] = "written" /\ Live(t) /\ Unrivalled(t)) =>
    /\ snapshot[DriveOf(t)] >= Len(local[t])
    /\ \A u \in flow.publish : (DriveOf(u) = DriveOf(t) /\ Appending(u))
                                 => Len(local[u]) >= Len(local[t])

\* Nothing happened to the drive that the snapshot does not tell, and nobody has a rival there.
Clean(d) == /\ pub.snapshot[d] >= pub.seeded[d]
            /\ \A u \in Task : DriveOf(u) = d => Unrivalled(u)

\* The snapshot tells how much the peers of a clean drive have, unless somebody appends,
\* and then they have nothing that is not his.
CleanInv == \A d \in Drive : Clean(d) =>
  /\ \/ snapshot[d] = Len(peers[d])
     \/ \E u \in Task : DriveOf(u) = d /\ Appending(u)
  /\ \A t \in Task : (DriveOf(t) = d /\ Appending(t)) => IsPrefix(peers[d], local[t])

DrivesInv == TypesInv /\ AtInv /\ HeldInv /\ FloorInv /\ CleanInv

PublishInv == Inv /\ DrivesInv

-----------------------------------------------------------------------------
LEMMA PubFacts ==
  ASSUME pub \in Publishings
  PROVE  /\ \A t \in Task : DriveOf(t) \in Drive
         /\ pub.seeded \in [Drive -> Nat] /\ pub.snapshot \in [Drive -> Nat]
         /\ \A d \in Drive : pub.snapshot[d] <= pub.seeded[d]
<1>1. pub \in Publishing
  BY PublishingsAssumption
<1>2. QED
  BY <1>1, PublishingsAssumption DEF Publishing, DriveOf

\* Two publish tasks of which one waits for the other are not both in stage().
LEMMA OneAtATime ==
  ASSUME Inv, AtInv, NEW t \in Task, NEW u \in Task, t # u, phase[t] = "staging", Appending(u)
  PROVE  ~Ordered(t, u)
<1>1. phase[u] # "waiting" /\ phase[u] # "success"
  BY DEF AtInv, Appending, Ended
<1>2. t \notin Upstream(u)
  BY <1>1 DEF Inv, UpstreamInv
<1>3. u \notin Upstream(t)
  BY <1>1 DEF Inv, UpstreamInv
<1>4. QED
  BY <1>2, <1>3 DEF Ordered

\* Without rivals, nobody appends to the drive of a task in stage() but itself.
LEMMA NobodyElseAppends ==
  ASSUME Inv, AtInv, NEW t \in Task, NEW u \in Task, phase[t] = "staging", Appending(u),
         DriveOf(u) = DriveOf(t), Unrivalled(t) \/ Unrivalled(u)
  PROVE  u = t
<1> SUFFICES ASSUME u # t PROVE FALSE
  OBVIOUS
<1>1. t \in flow.publish /\ u \in flow.publish
  BY DEF Inv, FlowTypeOK, AtInv, Appending
<1>2. ~Ordered(t, u)
  BY OneAtATime
<1>3. Rivals(t, u) /\ Rivals(u, t)
  BY <1>1, <1>2 DEF Rivals, Ordered
<1>4. QED
  BY <1>3 DEF Unrivalled

LEMMA PublishInitInv == PublishInit => PublishInv
<1> SUFFICES ASSUME PublishInit PROVE PublishInv
  OBVIOUS
<1>1. Inv /\ pub \in Publishings
  BY InitInv DEF PublishInit
<1>2. \A t \in Task : phase[t] = "waiting" /\ at[t] = "opening" /\ local[t] = <<>>
  BY DEF PublishInit, FlowInit
<1>3. \A d \in Drive : /\ pub.seeded[d] \in Nat
                       /\ peers[d] = [i \in 1..pub.seeded[d] |-> 0]
                       /\ peers[d] \in Seq(Blocks) /\ Len(peers[d]) = pub.seeded[d]
  <2>1. TAKE d \in Drive
  <2>2. pub.seeded[d] \in Nat /\ peers[d] = [i \in 1..pub.seeded[d] |-> 0]
    BY <1>1, PubFacts DEF PublishInit
  <2>3. 0 \in Blocks
    BY DEF Blocks
  <2>4. QED
    BY <2>2, <2>3
<1>4. TypesInv
  <2>1. peers \in [Drive -> Seq(Blocks)]
    BY <1>3 DEF PublishInit
  <2>2. local \in [Task -> Seq(Blocks)]
    BY EmptySeq DEF PublishInit
  <2>3. QED
    BY <1>1, <2>1, <2>2, PubFacts DEF PublishInit, TypesInv
<1>5. AtInv
  BY <1>2 DEF AtInv
<1>6. HeldInv
  BY <1>2, <1>3, <1>1, PubFacts, PrefixOfItself DEF HeldInv
<1>7. \A t \in Task : ~Appending(t)
  BY <1>2 DEF Appending
<1>8. FloorInv
  BY <1>1, <1>2, FlowFacts DEF FloorInv, Inv
<1>9. CleanInv
  <2>1. \A d \in Drive : Clean(d) => snapshot[d] = Len(peers[d])
    BY <1>1, <1>3, PubFacts DEF Clean, PublishInit
  <2>2. QED
    BY <1>7, <2>1 DEF CleanInv
<1>10. QED
  BY <1>1, <1>4, <1>5, <1>6, <1>8, <1>9 DEF PublishInv, DrivesInv
-----------------------------------------------------------------------------
(* The steps *)

\* What depends on the flow and the publishing alone does not change.
LEMMA SamePub ==
  ASSUME UNCHANGED <<flow, pub>>
  PROVE  /\ LiveTasks' = LiveTasks /\ Blocks' = Blocks
         /\ \A t : /\ Live(t)' <=> Live(t)
                   /\ DriveOf(t)' = DriveOf(t)
                   /\ Unrivalled(t)' <=> Unrivalled(t)
         /\ \A d : Clean(d)' <=> Clean(d)
<1>1. \A t : (Live(t)' <=> Live(t)) /\ DriveOf(t)' = DriveOf(t)
  BY DEF Live, DriveOf
<1>2. LiveTasks' = LiveTasks /\ Blocks' = Blocks
  BY <1>1 DEF LiveTasks, Blocks
<1>3. \A t, u : Rivals(t, u)' <=> Rivals(t, u)
  BY <1>1 DEF Rivals, Ordered, Upstream
<1>4. \A t : Unrivalled(t)' <=> Unrivalled(t)
  BY <1>3 DEF Unrivalled
<1>5. \A d : Clean(d)' <=> Clean(d)
  BY <1>1, <1>4 DEF Clean
<1>6. QED
  BY <1>1, <1>2, <1>4, <1>5

\* Steps that leave the drives alone, and let stage() neither begin early nor return late.
LEMMA UndrivenInv ==
  ASSUME PublishInv, UNCHANGED flow, Undriven, AtInv'
  PROVE  DrivesInv'
<1>1. UNCHANGED <<pub, at, peers, snapshot, local>>
  BY DEF Undriven
<1>2. \A t : Appending(t)' <=> Appending(t)
  BY <1>1, SamePub DEF Appending
<1>3. TypesInv'
  BY <1>1, SamePub DEF PublishInv, DrivesInv, TypesInv
<1>4. HeldInv'
  BY <1>1, <1>2, SamePub DEF PublishInv, DrivesInv, HeldInv
<1>5. FloorInv'
  BY <1>1, <1>2, SamePub DEF PublishInv, DrivesInv, FloorInv
<1>6. CleanInv'
  BY <1>1, <1>2, SamePub DEF PublishInv, DrivesInv, CleanInv
<1>7. QED
  BY <1>3, <1>4, <1>5, <1>6 DEF DrivesInv

\* Outside of stage() no task leaves it but in failure, and no publish task succeeds.
LEMMA ElsewhereFacts ==
  ASSUME PublishInv, NEW t \in Task, Elsewhere(t)
  PROVE  /\ TaskStep(t) /\ Undriven
         /\ phase[t] = "staging" => phase'[t] \in Ended
         /\ phase'[t] = "success" => t \notin flow.publish
<1>1. TaskStep(t) /\ Undriven
  BY DEF Elsewhere, TaskStep, FileStep
<1> SUFFICES /\ phase[t] = "staging" => phase'[t] \in Ended
             /\ phase'[t] = "success" => t \notin flow.publish
  BY <1>1
<1>2. FlowTypeOK /\ (t \in flow.publish => phase[t] # "building" /\ flow.makes[t] = NoName)
  BY FlowFacts DEF PublishInv, Inv, StagedInv, StagedOf
<1>3. phase \in [Task -> {"waiting", "fetching", "building", "storing", "staging",
                          "success", "failure"}]
  BY <1>2 DEF FlowTypeOK
<1>4. phase[t] = "storing" => t \notin flow.publish
  BY <1>2 DEF FlowTypeOK
<1>5. CASE StartTask(t) \/ PublishStart(t)
  BY <1>3, <1>5 DEF StartTask, PublishStart, List, Goto, At
<1>6. CASE Fetched(t) \/ ExtractedAll(t)
  BY <1>3, <1>6 DEF Fetched, ExtractedAll, Goto, At
<1>7. CASE Built(t) \/ Stored(t)
  BY <1>2, <1>3, <1>4, <1>7 DEF Built, Stored, Goto, At
<1>8. CASE TaskFails(t) \/ PublishFails(t)
  BY <1>3, <1>8 DEF TaskFails, PublishFails, Goto, At, Ended
<1>9. CASE \E f \in File : FetchFile(t, f) \/ StoreFile(t, f) \/ ExtractFile(t, f)
  BY <1>3, <1>9 DEF FetchFile, StoreFile, ExtractFile, Handle, At
<1>10. QED
  BY <1>5, <1>6, <1>7, <1>8, <1>9 DEF Elsewhere

LEMMA ElsewhereInv ==
  ASSUME PublishInv, NEW t \in Task, Elsewhere(t)
  PROVE  DrivesInv'
<1>1. FlowTypeOK /\ TaskStep(t) /\ Undriven
  BY ElsewhereFacts DEF PublishInv, Inv
<1>2. /\ UNCHANGED flow /\ phase[t] \notin Ended
      /\ \A s \in Task \ {t} : phase'[s] = phase[s]
  BY <1>1, StepShape
<1>3. UNCHANGED <<at, pub>>
  BY <1>1 DEF Undriven
<1>4. AtInv'
  BY <1>2, <1>3, SamePub, ElsewhereFacts DEF PublishInv, DrivesInv, AtInv, Ended
<1>5. QED
  BY <1>1, <1>2, <1>4, UndrivenInv

LEMMA PublishTaskInv ==
  ASSUME PublishInv, NEW t \in Task, Publish(t)
  PROVE  DrivesInv'
<1>1. FlowTypeOK /\ TaskStep(t) /\ Undriven
  BY DEF PublishInv, Inv, Publish, TaskStep
<1>2. UNCHANGED flow /\ \A s \in Task \ {t} : phase'[s] = phase[s]
  BY <1>1, StepShape
<1>3. phase'[t] = "success" /\ at[t] = "written"
  BY <1>1 DEF Publish, Published, Goto, FlowTypeOK
<1>4. UNCHANGED <<at, pub>>
  BY <1>1 DEF Undriven
<1>5. AtInv'
  BY <1>2, <1>3, <1>4, SamePub DEF PublishInv, DrivesInv, AtInv, Ended
<1>6. QED
  BY <1>1, <1>2, <1>5, UndrivenInv

\* A step of stage() leaves the artifacts' phases as they are, and stays in its place's order.
LEMMA StageAtInv ==
  ASSUME PublishInv, NEW t \in Task, phase[t] = "staging", UNCHANGED <<flow, phase, pub>>,
         NEW to \in {"mirroring", "waiting", "written"}, at' = [at EXCEPT ![t] = to],
         to = "waiting" => Live(t)
  PROVE  AtInv'
<1>1. t \in flow.publish /\ at \in [Task -> {"opening", "mirroring", "waiting", "written"}]
  BY DEF PublishInv, DrivesInv, TypesInv, Inv, FlowTypeOK
<1>2. \A u \in Task : at'[u] = IF u = t THEN to ELSE at[u]
  BY <1>1
<1>3. QED
  BY <1>1, <1>2, SamePub DEF PublishInv, DrivesInv, AtInv, Ended

LEMMA CatchUpInv ==
  ASSUME PublishInv, NEW t \in Task, CatchUp(t)
  PROVE  DrivesInv'
<1>1. /\ phase[t] = "staging" /\ at[t] = "opening"
      /\ at' = [at EXCEPT ![t] = "mirroring"]
      /\ UNCHANGED <<flow, phase, pub, peers, snapshot>>
      /\ t \in flow.publish /\ flow.publish \subseteq Task
  BY FlowFacts DEF CatchUp, flowVars, PublishInv, Inv, FlowTypeOK
<1>2. TypesInv /\ AtInv /\ HeldInv /\ FloorInv /\ CleanInv /\ DriveOf(t) \in Drive
  BY PubFacts DEF PublishInv, DrivesInv, TypesInv
<1>3. PICK n \in snapshot[DriveOf(t)]..Len(peers[DriveOf(t)]) :
        local' = [local EXCEPT ![t] = SubSeq(peers[DriveOf(t)], 1, n)]
  BY DEF CatchUp, SeenFrom
<1>4. PICK seen \in Seq(Blocks) :
        /\ local' = [local EXCEPT ![t] = seen]
        /\ IsPrefix(seen, peers[DriveOf(t)])
        /\ Len(seen) >= snapshot[DriveOf(t)]
        /\ snapshot[DriveOf(t)] = Len(peers[DriveOf(t)]) => seen = peers[DriveOf(t)]
  <2>1. peers[DriveOf(t)] \in Seq(Blocks) /\ snapshot[DriveOf(t)] \in Nat
    BY <1>2 DEF TypesInv
  <2>2. n \in 0..Len(peers[DriveOf(t)]) /\ n >= snapshot[DriveOf(t)]
    BY <2>1, LenProperties
  <2>3. /\ SubSeq(peers[DriveOf(t)], 1, n) \in Seq(Blocks)
        /\ Len(SubSeq(peers[DriveOf(t)], 1, n)) = n
        /\ IsPrefix(SubSeq(peers[DriveOf(t)], 1, n), peers[DriveOf(t)])
        /\ n = Len(peers[DriveOf(t)]) => SubSeq(peers[DriveOf(t)], 1, n) = peers[DriveOf(t)]
    BY <2>1, <2>2, FirstBlocks
  <2>4. snapshot[DriveOf(t)] = Len(peers[DriveOf(t)]) => n = Len(peers[DriveOf(t)])
    BY <2>1, <2>2
  <2>5. QED
    BY <1>3, <2>2, <2>3, <2>4
<1>5. \A u \in Task : /\ at'[u] = IF u = t THEN "mirroring" ELSE at[u]
                      /\ local'[u] = IF u = t THEN seen ELSE local[u]
                      /\ Appending(u)' <=> IF u = t THEN Live(t) ELSE Appending(u)
  BY <1>1, <1>2, <1>4, SamePub DEF TypesInv, Appending
<1>6. TypesInv'
  BY <1>1, <1>2, <1>4, SamePub DEF TypesInv
<1>7. AtInv'
  BY <1>1, StageAtInv
<1>8. HeldInv'
  BY <1>1, <1>2, <1>4, <1>5, SamePub DEF HeldInv
<1>9. FloorInv'
  <2>1. SUFFICES ASSUME NEW s \in flow.publish, at'[s] = "written", Live(s), Unrivalled(s)
                 PROVE  /\ snapshot[DriveOf(s)] >= Len(local'[s])
                        /\ \A u \in flow.publish : (DriveOf(u) = DriveOf(s) /\ Appending(u)')
                             => Len(local'[u]) >= Len(local'[s])
    BY <1>1, SamePub DEF FloorInv
  <2>2. s # t /\ at[s] = "written" /\ local'[s] = local[s]
    BY <1>1, <1>5, <2>1
  <2>3. /\ snapshot[DriveOf(s)] >= Len(local[s])
        /\ \A u \in flow.publish : (DriveOf(u) = DriveOf(s) /\ Appending(u))
             => Len(local[u]) >= Len(local[s])
    BY <1>2, <2>1, <2>2 DEF FloorInv
  <2>4. DriveOf(t) = DriveOf(s) => Len(seen) >= Len(local[s])
    <3>1. /\ Len(seen) \in Nat /\ Len(local[s]) \in Nat
          /\ snapshot[DriveOf(t)] \in Nat
      BY <1>1, <1>2, LenProperties DEF TypesInv
    <3>2. QED
      BY <1>4, <2>3, <3>1
  <2>5. QED
    BY <1>1, <1>5, <2>2, <2>3, <2>4
<1>10. CleanInv'
  <2>1. SUFFICES ASSUME NEW d \in Drive, Clean(d)
                 PROVE  /\ \/ snapshot[d] = Len(peers[d])
                           \/ \E u \in Task : DriveOf(u) = d /\ Appending(u)'
                        /\ \A u \in Task : (DriveOf(u) = d /\ Appending(u)')
                             => IsPrefix(peers[d], local'[u])
    BY <1>1, SamePub DEF CleanInv
  <2>2. /\ \/ snapshot[d] = Len(peers[d])
           \/ \E u \in Task : DriveOf(u) = d /\ Appending(u)
        /\ \A u \in Task : (DriveOf(u) = d /\ Appending(u)) => IsPrefix(peers[d], local[u])
    BY <1>2, <2>1 DEF CleanInv
  <2>3. ~Appending(t)
    BY <1>1 DEF Appending
  <2>4. DriveOf(t) = d => seen = peers[d]
    <3>1. SUFFICES ASSUME DriveOf(t) = d PROVE seen = peers[d]
      OBVIOUS
    <3>2. Unrivalled(t) /\ \A u \in Task : DriveOf(u) = d => ~Appending(u)
      BY <1>1, <1>2, <2>1, <2>3, <3>1, NobodyElseAppends DEF PublishInv, Clean
    <3>3. QED
      BY <1>4, <2>2, <3>1, <3>2
  <2>5. IsPrefix(peers[d], peers[d])
    BY <1>2, PrefixOfItself DEF TypesInv
  <2>6. QED
    BY <1>5, <2>2, <2>3, <2>4, <2>5
<1>11. QED
  BY <1>6, <1>7, <1>8, <1>9, <1>10 DEF DrivesInv
LEMMA MirrorInv ==
  ASSUME PublishInv, NEW t \in Task, NEW f \in File, Mirror(t, f)
  PROVE  DrivesInv'
<1>1. /\ phase[t] = "staging" /\ at[t] = "mirroring"
      /\ UNCHANGED <<flow, phase, pub, at, peers, snapshot>>
      /\ t \in flow.publish /\ flow.publish \subseteq Task
      /\ local' = IF Live(t) THEN [local EXCEPT ![t] = Append(@, t)] ELSE local
  BY FlowFacts DEF Mirror, StageFile, Handle, At, PublishInv, Inv, FlowTypeOK
<1>2. TypesInv /\ AtInv /\ HeldInv /\ FloorInv /\ CleanInv /\ DriveOf(t) \in Drive
  BY PubFacts DEF PublishInv, DrivesInv, TypesInv
<1>3. \A u \in Task : Appending(u)' <=> Appending(u)
  BY <1>1, SamePub DEF Appending
<1>4. AtInv'
  BY <1>1, <1>2, SamePub DEF AtInv
<1>5. CASE ~Live(t)
  <2>1. UNCHANGED local
    BY <1>1, <1>5
  <2>2. Undriven
    BY <1>1, <2>1 DEF Undriven
  <2>3. QED
    BY <1>1, <1>4, <2>2, UndrivenInv
<1>6. CASE Live(t)
  <2>1. t \in Blocks /\ Appending(t) /\ local[t] \in Seq(Blocks)
    BY <1>1, <1>2, <1>6 DEF Blocks, LiveTasks, Appending, TypesInv
  <2>2. PICK more \in Seq(Blocks) : /\ local' = [local EXCEPT ![t] = more]
                                    /\ IsPrefix(local[t], more)
                                    /\ Len(more) = Len(local[t]) + 1
    BY <1>1, <1>6, <2>1, Appended
  <2>3. \A u \in Task : local'[u] = IF u = t THEN more ELSE local[u]
    BY <1>2, <2>2 DEF TypesInv
  <2>4. TypesInv'
    BY <1>1, <1>2, <2>2, SamePub DEF TypesInv
  <2>5. HeldInv'
    BY <1>1, <1>2, <1>3, <2>1, <2>3, SamePub DEF HeldInv
  <2>6. FloorInv'
    <3>1. SUFFICES ASSUME NEW s \in flow.publish, at[s] = "written", Live(s), Unrivalled(s)
                   PROVE  /\ snapshot[DriveOf(s)] >= Len(local'[s])
                          /\ \A u \in flow.publish : (DriveOf(u) = DriveOf(s) /\ Appending(u))
                               => Len(local'[u]) >= Len(local'[s])
      BY <1>1, <1>3, SamePub DEF FloorInv
    <3>2. s # t /\ local'[s] = local[s] /\ Len(local[s]) \in Nat /\ Len(local[t]) \in Nat
      BY <1>1, <1>2, <2>3, <3>1, LenProperties DEF TypesInv
    <3>3. /\ snapshot[DriveOf(s)] >= Len(local[s])
          /\ \A u \in flow.publish : (DriveOf(u) = DriveOf(s) /\ Appending(u))
               => Len(local[u]) >= Len(local[s])
      BY <1>2, <3>1 DEF FloorInv
    <3>4. DriveOf(t) = DriveOf(s) => Len(more) >= Len(local[s])
      BY <1>1, <2>1, <2>2, <3>2, <3>3
    <3>5. QED
      BY <1>1, <2>3, <3>2, <3>3, <3>4
  <2>7. CleanInv'
    <3>1. SUFFICES ASSUME NEW d \in Drive, Clean(d)
                   PROVE  /\ \/ snapshot[d] = Len(peers[d])
                             \/ \E u \in Task : DriveOf(u) = d /\ Appending(u)
                          /\ \A u \in Task : (DriveOf(u) = d /\ Appending(u))
                               => IsPrefix(peers[d], local'[u])
      BY <1>1, <1>3, SamePub DEF CleanInv
    <3>2. /\ \/ snapshot[d] = Len(peers[d])
             \/ \E u \in Task : DriveOf(u) = d /\ Appending(u)
          /\ \A u \in Task : (DriveOf(u) = d /\ Appending(u)) => IsPrefix(peers[d], local[u])
      BY <1>2, <3>1 DEF CleanInv
    <3>3. DriveOf(t) = d => IsPrefix(peers[d], more)
      BY <1>2, <2>1, <2>2, <3>2, PrefixTrans DEF TypesInv
    <3>4. QED
      BY <2>3, <3>2, <3>3
  <2>8. QED
    BY <1>4, <2>4, <2>5, <2>6, <2>7 DEF DrivesInv
<1>7. QED
  BY <1>5, <1>6

\* The directory is mirrored: a dry run has nothing to wait for.
LEMMA MirroredInv ==
  ASSUME PublishInv, NEW t \in Task, Mirrored(t)
  PROVE  DrivesInv'
<1>1. /\ phase[t] = "staging" /\ at[t] = "mirroring"
      /\ UNCHANGED <<flow, phase, pub, peers, snapshot, local>>
      /\ t \in flow.publish /\ flow.publish \subseteq Task
      /\ at' = [at EXCEPT ![t] = IF Live(t) THEN "waiting" ELSE "written"]
  BY FlowFacts DEF Mirrored, flowVars, PublishInv, Inv, FlowTypeOK
<1>2. TypesInv /\ AtInv /\ HeldInv /\ FloorInv /\ CleanInv
  BY DEF PublishInv, DrivesInv
<1>3. PICK to \in {"mirroring", "waiting", "written"} :
        /\ at' = [at EXCEPT ![t] = to]
        /\ to = IF Live(t) THEN "waiting" ELSE "written"
  BY <1>1
<1>4. \A u \in Task : /\ at'[u] = IF u = t THEN to ELSE at[u]
                      /\ Appending(u)' <=> Appending(u)
  BY <1>1, <1>2, <1>3, SamePub DEF TypesInv, Appending
<1>5. TypesInv'
  BY <1>1, <1>2, <1>3, SamePub DEF TypesInv
<1>6. AtInv'
  BY <1>1, <1>3, StageAtInv
<1>7. HeldInv'
  BY <1>1, <1>2, <1>4, SamePub DEF HeldInv
<1>8. FloorInv'
  BY <1>1, <1>2, <1>3, <1>4, SamePub DEF FloorInv
<1>9. CleanInv'
  BY <1>1, <1>2, <1>4, SamePub DEF CleanInv
<1>10. QED
  BY <1>5, <1>6, <1>7, <1>8, <1>9 DEF DrivesInv

\* What the peers get more is what they have not yet of the task's blocks.
LEMMA ReplicateInv ==
  ASSUME PublishInv, NEW t \in Task, Replicate(t)
  PROVE  DrivesInv'
<1>1. /\ phase[t] = "staging" /\ at[t] \in {"mirroring", "waiting"}
      /\ IsStrictPrefix(peers[DriveOf(t)], local[t])
      /\ UNCHANGED <<flow, phase, pub, at, snapshot, local>>
      /\ t \in flow.publish /\ flow.publish \subseteq Task
  BY FlowFacts DEF Replicate, flowVars, PublishInv, Inv, FlowTypeOK
<1>2. TypesInv /\ AtInv /\ HeldInv /\ FloorInv /\ CleanInv /\ DriveOf(t) \in Drive
  BY PubFacts DEF PublishInv, DrivesInv, TypesInv
<1>3. peers[DriveOf(t)] \in Seq(Blocks) /\ \A u \in Task : local[u] \in Seq(Blocks)
  BY <1>2 DEF TypesInv
<1>4. PICK more \in Seq(Blocks) : /\ peers' = [peers EXCEPT ![DriveOf(t)] = more]
                                  /\ IsPrefix(more, local[t])
                                  /\ IsPrefix(peers[DriveOf(t)], more)
  <2>1. /\ SubSeq(local[t], 1, Len(peers[DriveOf(t)]) + 1) \in Seq(Blocks)
        /\ IsPrefix(SubSeq(local[t], 1, Len(peers[DriveOf(t)]) + 1), local[t])
        /\ IsPrefix(peers[DriveOf(t)], SubSeq(local[t], 1, Len(peers[DriveOf(t)]) + 1))
    BY <1>1, <1>3, NextBlock
  <2>2. QED
    BY <2>1 DEF Replicate
<1>5. \A d \in Drive : peers'[d] = IF d = DriveOf(t) THEN more ELSE peers[d]
  BY <1>2, <1>4 DEF TypesInv
<1>6. \A u \in Task : Appending(u)' <=> Appending(u)
  BY <1>1, SamePub DEF Appending
<1>7. Appending(t)
  <2>1. SUFFICES ASSUME ~Appending(t) PROVE FALSE
    OBVIOUS
  <2>2. IsPrefix(local[t], peers[DriveOf(t)])
    BY <1>2, <2>1 DEF HeldInv
  <2>3. QED
    BY <1>1, <1>3, <2>2, PrefixesOfEachOther DEF IsStrictPrefix
<1>8. TypesInv'
  BY <1>1, <1>2, <1>4, SamePub DEF TypesInv
<1>9. AtInv'
  BY <1>1, <1>2, SamePub DEF AtInv
<1>10. HeldInv'
  <2>1. SUFFICES ASSUME NEW u \in Task, ~Appending(u)
                 PROVE  IsPrefix(local[u], peers'[DriveOf(u)])
    BY <1>1, <1>6, SamePub DEF HeldInv
  <2>2. IsPrefix(local[u], peers[DriveOf(u)]) /\ DriveOf(u) \in Drive
    BY <1>2, <2>1, PubFacts DEF HeldInv, TypesInv
  <2>3. CASE DriveOf(u) = DriveOf(t)
    BY <1>3, <1>4, <1>5, <2>2, <2>3, PrefixTrans
  <2>4. CASE DriveOf(u) # DriveOf(t)
    BY <1>5, <2>2, <2>4
  <2>5. QED
    BY <2>3, <2>4
<1>11. FloorInv'
  BY <1>1, <1>2, <1>6, SamePub DEF FloorInv
<1>12. CleanInv'
  <2>1. SUFFICES ASSUME NEW d \in Drive, Clean(d)
                 PROVE  /\ \/ snapshot[d] = Len(peers'[d])
                           \/ \E u \in Task : DriveOf(u) = d /\ Appending(u)
                        /\ \A u \in Task : (DriveOf(u) = d /\ Appending(u))
                             => IsPrefix(peers'[d], local[u])
    BY <1>1, <1>6, SamePub DEF CleanInv
  <2>2. CASE d = DriveOf(t)
    <3>1. Unrivalled(t)
      BY <2>1, <2>2 DEF Clean
    <3>2. \A u \in Task : (DriveOf(u) = d /\ Appending(u)) => u = t
      BY <1>1, <1>2, <2>2, <3>1, NobodyElseAppends DEF PublishInv
    <3>3. IsPrefix(peers'[d], local[t])
      BY <1>4, <1>5, <2>2
    <3>4. QED
      BY <1>7, <2>2, <3>2, <3>3
  <2>3. CASE d # DriveOf(t)
    BY <1>2, <1>5, <2>1, <2>3 DEF CleanInv
  <2>4. QED
    BY <2>2, <2>3
<1>13. QED
  BY <1>8, <1>9, <1>10, <1>11, <1>12 DEF DrivesInv

\* The peers have it all, and the snapshot says so.
LEMMA WriteSnapshotInv ==
  ASSUME PublishInv, NEW t \in Task, WriteSnapshot(t)
  PROVE  DrivesInv'
<1>1. /\ phase[t] = "staging" /\ at[t] = "waiting"
      /\ IsPrefix(local[t], peers[DriveOf(t)])
      /\ at' = [at EXCEPT ![t] = "written"]
      /\ snapshot' = [snapshot EXCEPT ![DriveOf(t)] = Len(local[t])]
      /\ UNCHANGED <<flow, phase, pub, peers, local>>
      /\ t \in flow.publish /\ flow.publish \subseteq Task
  BY FlowFacts DEF WriteSnapshot, flowVars, PublishInv, Inv, FlowTypeOK
<1>2. TypesInv /\ AtInv /\ HeldInv /\ FloorInv /\ CleanInv /\ DriveOf(t) \in Drive
  BY PubFacts DEF PublishInv, DrivesInv, TypesInv
<1>3. Appending(t)
  BY <1>1, <1>2 DEF AtInv, Appending
<1>4. \A u \in Task : /\ local[u] \in Seq(Blocks) /\ Len(local[u]) \in Nat
                      /\ at'[u] = IF u = t THEN "written" ELSE at[u]
                      /\ Appending(u)' <=> (u # t /\ Appending(u))
  BY <1>1, <1>2, SamePub, LenProperties DEF TypesInv, Appending
<1>5. \A d \in Drive : snapshot'[d] = IF d = DriveOf(t) THEN Len(local[t]) ELSE snapshot[d]
  BY <1>1, <1>2 DEF TypesInv
<1>6. TypesInv'
  BY <1>1, <1>2, <1>4, SamePub DEF TypesInv
<1>7. AtInv'
  BY <1>1, StageAtInv
<1>8. HeldInv'
  BY <1>1, <1>2, <1>4, SamePub DEF HeldInv
<1>9. FloorInv'
  <2>1. SUFFICES ASSUME NEW s \in flow.publish, at'[s] = "written", Live(s), Unrivalled(s)
                 PROVE  /\ snapshot'[DriveOf(s)] >= Len(local[s])
                        /\ \A u \in flow.publish : (DriveOf(u) = DriveOf(s) /\ Appending(u)')
                             => Len(local[u]) >= Len(local[s])
    BY <1>1, SamePub DEF FloorInv
  <2>2. DriveOf(s) \in Drive
    BY <1>1, <1>2, PubFacts DEF TypesInv
  <2>3. CASE s = t
    <3>1. \A u \in Task : (DriveOf(u) = DriveOf(t) /\ Appending(u)) => u = t
      BY <1>1, <1>2, <2>1, <2>3, NobodyElseAppends DEF PublishInv
    <3>2. QED
      BY <1>1, <1>4, <1>5, <2>2, <2>3, <3>1
  <2>4. CASE s # t
    <3>1. /\ snapshot[DriveOf(s)] >= Len(local[s])
          /\ \A u \in flow.publish : (DriveOf(u) = DriveOf(s) /\ Appending(u))
               => Len(local[u]) >= Len(local[s])
      BY <1>1, <1>2, <1>4, <2>1, <2>4 DEF FloorInv
    <3>2. QED
      BY <1>1, <1>3, <1>4, <1>5, <2>2, <3>1
  <2>5. QED
    BY <2>3, <2>4
<1>10. CleanInv'
  <2>1. SUFFICES ASSUME NEW d \in Drive, Clean(d)
                 PROVE  /\ \/ snapshot'[d] = Len(peers[d])
                           \/ \E u \in Task : DriveOf(u) = d /\ Appending(u)'
                        /\ \A u \in Task : (DriveOf(u) = d /\ Appending(u)')
                             => IsPrefix(peers[d], local[u])
    BY <1>1, SamePub DEF CleanInv
  <2>2. \A u \in Task : (DriveOf(u) = d /\ Appending(u)) => IsPrefix(peers[d], local[u])
    BY <1>2, <2>1 DEF CleanInv
  <2>3. CASE d = DriveOf(t)
    <3>1. peers[d] \in Seq(Blocks) /\ local[t] \in Seq(Blocks)
      BY <1>2 DEF TypesInv
    <3>2. local[t] = peers[d]
      BY <1>1, <1>3, <2>2, <2>3, <3>1, PrefixesOfEachOther
    <3>3. QED
      BY <1>4, <1>5, <2>2, <2>3, <3>2
  <2>4. CASE d # DriveOf(t)
    BY <1>2, <1>4, <1>5, <2>1, <2>4 DEF CleanInv
  <2>5. QED
    BY <2>3, <2>4
<1>11. QED
  BY <1>6, <1>7, <1>8, <1>9, <1>10 DEF DrivesInv

LEMMA PublishStepInv == PublishInv /\ [PublishNext]_publishVars => PublishInv'
<1> SUFFICES ASSUME PublishInv, [PublishNext]_publishVars PROVE PublishInv'
  OBVIOUS
<1>1. Inv'
  BY PublishStepIsFlowStep, StepInv DEF PublishInv, publishVars
<1>2. ASSUME NEW t \in Task,
             Elsewhere(t) \/ CatchUp(t) \/ Mirrored(t) \/ Replicate(t) \/ WriteSnapshot(t)
               \/ Publish(t) \/ \E f \in File : Mirror(t, f)
      PROVE  DrivesInv'
  BY <1>2, ElsewhereInv, CatchUpInv, MirroredInv, ReplicateInv, WriteSnapshotInv,
     PublishTaskInv, MirrorInv
<1>3. CASE (Over /\ Undriven) \/ UNCHANGED publishVars
  <2>1. UNCHANGED <<flow, phase, pub, at>> /\ Undriven
    BY <1>3 DEF Over, Undriven, flowVars, publishVars
  <2>2. AtInv'
    BY <2>1, SamePub DEF PublishInv, DrivesInv, AtInv
  <2>3. QED
    BY <1>1, <2>1, <2>2, UndrivenInv DEF PublishInv
<1>4. QED
  BY <1>1, <1>2, <1>3 DEF PublishInv, PublishNext

LEMMA AlwaysPublishInv == PublishSpec => []PublishInv
BY PublishInitInv, PublishStepInv, PTL DEF PublishSpec

-----------------------------------------------------------------------------
(* Theorems *)

LEMMA ForkFacts ==
  ASSUME PublishInv, NEW t \in flow.publish
  PROVE  \/ IsPrefix(local[t], peers[DriveOf(t)]) \/ IsPrefix(peers[DriveOf(t)], local[t])
         \/ pub.snapshot[DriveOf(t)] < pub.seeded[DriveOf(t)]
         \/ \E u, v \in Task : Rivals(u, v) /\ DriveOf(u) = DriveOf(t)
<1>1. t \in Task /\ DriveOf(t) \in Drive
  BY FlowFacts, PubFacts DEF PublishInv, Inv, DrivesInv, TypesInv
<1>2. CASE ~Appending(t)
  BY <1>1, <1>2 DEF PublishInv, DrivesInv, HeldInv
<1>3. CASE Appending(t) /\ Clean(DriveOf(t))
  BY <1>1, <1>3 DEF PublishInv, DrivesInv, CleanInv
<1>4. CASE ~Clean(DriveOf(t))
  <2>1. pub.snapshot[DriveOf(t)] \in Nat /\ pub.seeded[DriveOf(t)] \in Nat
    BY <1>1, PubFacts DEF PublishInv, DrivesInv, TypesInv
  <2>2. QED
    BY <1>4, <2>1 DEF Clean, Unrivalled
<1>5. QED
  BY <1>2, <1>3, <1>4

\* For any number of tasks, any flow, any drives and any history: what a task appends goes
\* on from what the peers have, but for the exceptions ForksExplained names.
THEOREM PublishForksExplained == PublishSpec => []ForksExplained
<1>1. PublishInv => ForksExplained
  BY ForkFacts DEF ForksExplained
<1>2. QED
  BY <1>1, AlwaysPublishInv, PTL

\* A record is written only for what the peers have all of, and the snapshot knows of it
\* unless a rival has written another.
THEOREM PublishRecordedIsSeeded == PublishSpec => []RecordedIsSeeded
<1>1. PublishInv => RecordedIsSeeded
  <2>1. SUFFICES ASSUME PublishInv, NEW t \in flow.publish, phase[t] = "success", Live(t)
                 PROVE  /\ IsPrefix(local[t], peers[DriveOf(t)])
                        /\ \/ snapshot[DriveOf(t)] >= Len(local[t])
                           \/ \E u \in Task : Rivals(t, u)
    BY DEF RecordedIsSeeded
  <2>2. t \in Task
    BY <2>1, FlowFacts DEF PublishInv, Inv
  <2>3. at[t] = "written"
    BY <2>1, <2>2 DEF PublishInv, DrivesInv, AtInv
  <2>4. IsPrefix(local[t], peers[DriveOf(t)])
    BY <2>1, <2>2, <2>3 DEF PublishInv, DrivesInv, HeldInv, Appending
  <2>5. QED
    BY <2>1, <2>3, <2>4 DEF PublishInv, DrivesInv, FloorInv, Unrivalled
<1>2. QED
  BY <1>1, AlwaysPublishInv, PTL

\* A task that is not live, by its workflow or by its command line, leaves no block with
\* the peers, whatever ran beside it.
THEOREM PublishDryRunsLeaveNothing == PublishSpec => []DryRunsLeaveNothing
<1>1. PublishInv => DryRunsLeaveNothing
  <2>1. SUFFICES ASSUME PublishInv, NEW t \in Task, NEW d \in Drive, pub.dryRun[t] \/ ~pub.flag,
                        NEW i \in 1..Len(peers[d])
                 PROVE  peers[d][i] # t
    BY DEF DryRunsLeaveNothing
  <2>2. t \notin Blocks
    BY <2>1 DEF Blocks, LiveTasks, Live, Task
  <2>3. peers[d] \in Seq(Blocks)
    BY <2>1 DEF PublishInv, DrivesInv, TypesInv
  <2>4. QED
    BY <2>1, <2>2, <2>3, LenProperties
<1>2. QED
  BY <1>1, AlwaysPublishInv, PTL
============================================================================
