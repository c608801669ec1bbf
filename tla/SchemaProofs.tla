---------------------------- MODULE SchemaProofs ----------------------------
(***************************************************************************)
(* What holds of the command `run' for every number of jobs, any targets   *)
(* and needs, every command line, every workflow file and lockfile and any *)
(* number of runs, proved from the assumptions of Expand, RunCommand and   *)
(* Schema: first of expand, then of RunCommand, where the file is found to *)
(* be good by chance, and then with parse in front of it, which implements *)
(* it.                                                                     *)
(*                                                                         *)
(* Inv says what a depth-first search in progress knows: the grey jobs are *)
(* a chain of needs, and black jobs need only black ones.                  *)
(***************************************************************************)
EXTENDS Schema, SequenceTheorems, Induction

Black == {j \in Job : colour[j] = "black"}

TypeInv == /\ wf \in Workflows
           /\ stack \in SUBSET Job
           /\ keep \in SUBSET Job
           /\ colour \in [Job -> {"white", "grey", "black"}]
           /\ path \in Seq(keep)
           /\ todo \in [Job -> SUBSET Job]
           /\ state \in {"closing", "visiting", "accepted", "cycle"}
           /\ cycle \in Seq(keep)

\* The grey jobs, each once, in an order in which each needs the next.
PathInv ==
  /\ \A i, k \in 1..Len(path) : path[i] = path[k] => i = k
  /\ \A j \in Job : colour[j] = "grey" <=> \E i \in 1..Len(path) : path[i] = j
  /\ \A i \in 1..(Len(path) - 1) : path[i + 1] \in wf.needs[path[i]]
  /\ \A i \in 1..Len(path) : todo[path[i]] \subseteq wf.needs[path[i]]

\* What has been looked at is black, or the next job on the path.
ExploredInv ==
  /\ \A j \in Black : wf.needs[j] \cap keep \subseteq Black
  /\ \A i \in 1..Len(path) : \A n \in wf.needs[path[i]] \cap keep :
       n \in todo[path[i]] \/ n \in Black \/ (i < Len(path) /\ n = path[i + 1])

BlackAcyclic == \A S \in SUBSET Black : S # {} => \E j \in S : wf.needs[j] \cap S = {}

PhaseInv ==
  /\ state = "closing" => path = <<>> /\ cycle = <<>> /\ \A j \in Job : colour[j] = "white"
  /\ state = "accepted" => \A j \in keep : colour[j] = "black"

\* The jobs seen or waiting on the stack are needed, and nothing needed is missing.
KeepInv ==
  /\ wf.only = 0 => keep = Job
  /\ wf.only # 0 => /\ wf.only \in keep \cup stack
                    /\ \A j \in keep : wf.needs[j] \subseteq keep \cup stack
                    /\ \A S \in SUBSET Job :
                         (wf.only \in S /\ \A j \in S : wf.needs[j] \subseteq S)
                           => keep \cup stack \subseteq S
  /\ state # "closing" => stack = {}

Inv == TypeInv /\ PathInv /\ ExploredInv /\ BlackAcyclic /\ PhaseInv /\ KeepInv /\ CycleIsReal
-----------------------------------------------------------------------------
LEMMA WorkflowFacts ==
  ASSUME TypeInv
  PROVE  /\ wf.needs \in [Job -> SUBSET Job]
         /\ wf.only \in 0..NJobs
         /\ NJobs \in Nat
         /\ \A j \in Job : j \notin wf.needs[j]
         /\ \A j \in keep : j \in Job
<1>1. wf \in Workflow
  BY WorkflowsAssumption DEF TypeInv
<1>2. QED
  BY <1>1, WorkflowsAssumption DEF TypeInv, Workflow

LEMMA InitInv == Init => Inv
<1> SUFFICES ASSUME Init PROVE Inv
  OBVIOUS
<1>1. wf \in Workflow /\ NJobs \in Nat
  BY WorkflowsAssumption DEF Init
<1>2. wf.only # 0 => wf.only \in Job
  BY <1>1 DEF Workflow, Job
<1>3. TypeInv
  BY <1>2 DEF Init, TypeInv
<1>4. Len(path) = 0 /\ Black = {}
  BY DEF Init, Black
<1>5. PathInv /\ ExploredInv /\ BlackAcyclic
  BY <1>4 DEF Init, PathInv, ExploredInv, BlackAcyclic
<1>6. PhaseInv /\ KeepInv /\ CycleIsReal
  BY DEF Init, PhaseInv, KeepInv, CycleIsReal
<1>7. QED
  BY <1>3, <1>5, <1>6 DEF Inv

LEMMA PopInv ==
  ASSUME Inv, Pop
  PROVE  Inv'
<1>1. PICK j \in stack : /\ keep' = keep \cup {j}
                         /\ stack' = (stack \ {j}) \cup Pushed(j)
  BY DEF Pop
<1>2. /\ TypeInv /\ KeepInv /\ PhaseInv
      /\ j \in Job /\ wf.needs \in [Job -> SUBSET Job]
      /\ state = "closing" /\ UNCHANGED <<wf, colour, path, todo, state, cycle>>
  BY <1>1, WorkflowFacts DEF Pop, Inv, TypeInv
<1>3. path = <<>> /\ cycle = <<>> /\ Black = {} /\ Black' = {}
  BY <1>2 DEF PhaseInv, Black
<1>4. TypeInv'
  BY <1>1, <1>2, <1>3 DEF TypeInv, Pushed
<1>5. PathInv' /\ ExploredInv' /\ BlackAcyclic'
  BY <1>2, <1>3 DEF PathInv, ExploredInv, BlackAcyclic, PhaseInv
<1>6. KeepInv'
  <2>1. wf.only = 0 => keep' = Job
    BY <1>1, <1>2 DEF KeepInv
  <2>2. keep \cup stack \subseteq keep' \cup stack'
    BY <1>1
  <2>3. \A i \in keep' : wf.needs[i] \subseteq keep' \cup stack' \/ wf.only = 0
    BY <1>1, <1>2, <2>2 DEF KeepInv, Pushed
  <2>4. ASSUME wf.only # 0, NEW S \in SUBSET Job, wf.only \in S,
               \A i \in S : wf.needs[i] \subseteq S
        PROVE  keep' \cup stack' \subseteq S
    <3>1. keep \cup stack \subseteq S
      BY <1>2, <2>4 DEF KeepInv
    <3>2. QED
      BY <1>1, <2>4, <3>1 DEF Pushed
  <2>5. QED
    BY <1>2, <2>1, <2>2, <2>3, <2>4 DEF KeepInv
<1>7. PhaseInv' /\ CycleIsReal'
  BY <1>2 DEF PhaseInv, CycleIsReal
<1>8. QED
  BY <1>4, <1>5, <1>6, <1>7 DEF Inv

LEMMA ClosedInv ==
  ASSUME Inv, Closed
  PROVE  Inv'
<1>1. TypeInv' /\ PhaseInv' /\ KeepInv' /\ CycleIsReal'
  BY DEF Closed, Inv, TypeInv, PhaseInv, KeepInv, CycleIsReal
<1>2. Black' = Black
  BY DEF Closed, Black
<1>3. PathInv' /\ ExploredInv' /\ BlackAcyclic'
  BY <1>2 DEF Closed, Inv, PathInv, ExploredInv, BlackAcyclic
<1>4. QED
  BY <1>1, <1>3 DEF Inv

\* Entering a white job that the job on top needs, or any white job from the outer loop.
LEMMA EnterInv ==
  ASSUME Inv, state = "visiting",
         NEW j \in keep, colour[j] = "white",
         path = <<>> \/ (path # <<>> /\ j \in todo[Top]),
         NEW left \in [Job -> SUBSET Job],
         \A i \in Job : left[i] = todo[i] \/ (path # <<>> /\ i = Top /\ left[i] = todo[i] \ {j}),
         Enter(j, left)
  PROVE  Inv'
<1> DEFINE L == Len(path)
<1>1. /\ TypeInv /\ PathInv /\ ExploredInv /\ BlackAcyclic /\ KeepInv
      /\ j \in Job /\ wf.needs \in [Job -> SUBSET Job]
      /\ L \in Nat /\ \A i \in 1..L : path[i] \in keep /\ path[i] \in Job
  <2>1. TypeInv /\ PathInv /\ ExploredInv /\ BlackAcyclic /\ KeepInv
    BY DEF Inv
  <2>2. j \in Job /\ wf.needs \in [Job -> SUBSET Job]
    BY <2>1, WorkflowFacts
  <2>3. L \in Nat /\ \A i \in 1..L : path[i] \in keep
    BY <2>1, LenProperties DEF TypeInv
  <2>4. QED
    BY <2>1, <2>2, <2>3 DEF TypeInv
<1>2. /\ colour' = [colour EXCEPT ![j] = "grey"]
      /\ path' = Append(path, j)
      /\ todo' = [left EXCEPT ![j] = wf.needs[j]]
      /\ UNCHANGED <<wf, stack, keep, state, cycle>>
  BY DEF Enter
<1>3. /\ path' \in Seq(keep) /\ Len(path') = L + 1
      /\ path'[L + 1] = j
      /\ \A i \in 1..L : path'[i] = path[i]
  BY <1>1, <1>2 DEF TypeInv
<1>4. \A i \in 1..L : path[i] # j
  BY <1>1 DEF PathInv
<1>5. /\ \A i \in Job : colour'[i] = IF i = j THEN "grey" ELSE colour[i]
      /\ \A i \in Job : todo'[i] = IF i = j THEN wf.needs[j] ELSE left[i]
      /\ colour' \in [Job -> {"white", "grey", "black"}]
      /\ todo' \in [Job -> SUBSET Job]
  BY <1>1, <1>2 DEF TypeInv
<1>6. Black' = Black
  BY <1>2, <1>5 DEF Black
<1>7. L > 0 => Top = path[L] /\ j \in todo[path[L]] /\ todo[path[L]] \subseteq wf.needs[path[L]]
  BY <1>1 DEF Top, PathInv
<1>8. \A i \in 1..L : /\ left[path[i]] \subseteq todo[path[i]]
                      /\ \A n \in todo[path[i]] : n \in left[path[i]] \/ (i = L /\ n = j)
  BY <1>1, <1>7 DEF PathInv
<1>9. TypeInv'
  BY <1>1, <1>2, <1>3, <1>5 DEF TypeInv
<1>10. PathInv'
  <2>1. \A i, k \in 1..Len(path') : path'[i] = path'[k] => i = k
    BY <1>1, <1>3, <1>4 DEF PathInv
  <2>2. \A i \in Job : colour'[i] = "grey" <=> \E k \in 1..Len(path') : path'[k] = i
    <3> SUFFICES ASSUME NEW i \in Job
                 PROVE  colour'[i] = "grey" <=> \E k \in 1..Len(path') : path'[k] = i
      OBVIOUS
    <3>1. CASE i = j
      BY <1>1, <1>3, <1>5, <3>1
    <3>2. CASE i # j
      <4>1. colour'[i] = "grey" <=> \E k \in 1..L : path[k] = i
        BY <1>1, <1>5, <3>2 DEF PathInv
      <4>2. QED
        BY <1>1, <1>3, <3>2, <4>1
    <3>3. QED
      BY <3>1, <3>2
  <2>3. \A i \in 1..(Len(path') - 1) : path'[i + 1] \in wf'.needs[path'[i]]
    <3> SUFFICES ASSUME NEW i \in 1..L
                 PROVE  path'[i + 1] \in wf.needs[path'[i]]
      BY <1>1, <1>2, <1>3
    <3>1. CASE i = L
      BY <1>1, <1>3, <1>7, <3>1
    <3>2. CASE i # L
      <4>1. i \in 1..(L - 1) /\ i + 1 \in 1..L
        BY <1>1, <3>2
      <4>2. path'[i + 1] = path[i + 1] /\ path'[i] = path[i]
        BY <1>3, <4>1
      <4>3. QED
        BY <1>1, <4>1, <4>2 DEF PathInv
    <3>3. QED
      BY <3>1, <3>2
  <2>4. \A i \in 1..Len(path') : todo'[path'[i]] \subseteq wf'.needs[path'[i]]
    <3> SUFFICES ASSUME NEW i \in 1..(L + 1)
                 PROVE  todo'[path'[i]] \subseteq wf.needs[path'[i]]
      BY <1>2, <1>3
    <3>1. CASE i = L + 1
      BY <1>1, <1>3, <1>5, <3>1
    <3>2. CASE i # L + 1
      <4>1. i \in 1..L
        BY <1>1, <3>2
      <4>2. QED
        BY <1>1, <1>3, <1>4, <1>5, <1>8, <4>1 DEF PathInv
    <3>3. QED
      BY <3>1, <3>2
  <2>5. QED
    BY <2>1, <2>2, <2>3, <2>4 DEF PathInv
<1>11. ExploredInv'
  <2>1. \A i \in Black' : wf'.needs[i] \cap keep' \subseteq Black'
    BY <1>1, <1>2, <1>6 DEF ExploredInv
  <2>2. ASSUME NEW i \in 1..(L + 1), NEW n \in wf.needs[path'[i]] \cap keep
        PROVE  n \in todo'[path'[i]] \/ n \in Black \/ (i < L + 1 /\ n = path'[i + 1])
    <3>1. CASE i = L + 1
      BY <1>1, <1>3, <1>5, <2>2, <3>1 
    <3>2. CASE i # L + 1
      <4>1. i \in 1..L /\ path'[i] = path[i] /\ path[i] # j /\ path[i] \in Job
        BY <1>1, <1>3, <1>4, <3>2
      <4>2. n \in todo[path[i]] \/ n \in Black \/ (i < L /\ n = path[i + 1])
        BY <1>1, <2>2, <4>1 DEF ExploredInv
      <4>3. CASE n \in todo[path[i]]
        BY <1>1, <1>3, <1>5, <1>8, <4>1, <4>3
      <4>4. CASE i < L /\ n = path[i + 1]
        BY <1>1, <1>3, <4>1, <4>4
      <4>5. QED
        BY <4>2, <4>3, <4>4
    <3>3. QED
      BY <3>1, <3>2
  <2>3. \A i \in 1..Len(path') : \A n \in wf'.needs[path'[i]] \cap keep' :
          n \in todo'[path'[i]] \/ n \in Black' \/ (i < Len(path') /\ n = path'[i + 1])
    BY <1>2, <1>3, <1>6, <2>2 
  <2>4. QED
    BY <2>1, <2>3 DEF ExploredInv
<1>12. BlackAcyclic' /\ KeepInv' /\ PhaseInv' /\ CycleIsReal'
  BY <1>1, <1>2, <1>6 DEF BlackAcyclic, KeepInv, PhaseInv, CycleIsReal
<1>13. QED
  BY <1>9, <1>10, <1>11, <1>12 DEF Inv

\* What a state with a path says of its last job.
LEMMA TopFacts ==
  ASSUME Inv, path # <<>>
  PROVE  /\ Len(path) \in Nat \ {0}
         /\ Top = path[Len(path)]
         /\ Top \in keep /\ Top \in Job
         /\ \A i \in 1..Len(path) : path[i] \in keep /\ path[i] \in Job
         /\ \A i \in 1..Len(path) : path[i] = Top => i = Len(path)
         /\ colour[Top] = "grey"
         /\ todo[Top] \subseteq wf.needs[Top]
<1>1. Len(path) \in Nat \ {0} /\ \A i \in 1..Len(path) : path[i] \in keep
  BY LenProperties, EmptySeq DEF Inv, TypeInv
<1>2. \A i \in 1..Len(path) : path[i] \in Job
  BY <1>1 DEF Inv, TypeInv
<1>3. QED
  BY <1>1, <1>2 DEF Top, Inv, PathInv

LEMMA SkipNeedInv ==
  ASSUME Inv, NEW n \in Job, SkipNeed(n)
  PROVE  Inv'
<1>1. /\ path # <<>> /\ n \in todo[Top]
      /\ n \notin keep \/ colour[n] = "black"
      /\ todo' = [todo EXCEPT ![Top] = @ \ {n}]
      /\ UNCHANGED <<wf, stack, keep, colour, path, state, cycle>>
  BY DEF SkipNeed, Looking, LookedAt
<1>2. /\ TypeInv /\ PathInv /\ ExploredInv
      /\ Top \in Job /\ \A i \in 1..Len(path) : path[i] \in Job
  BY <1>1, TopFacts DEF Inv
<1>3. /\ todo' \in [Job -> SUBSET Job]
      /\ \A i \in Job : todo'[i] \subseteq todo[i]
      /\ \A i \in Job : \A m \in todo[i] : m \in todo'[i] \/ m = n
  BY <1>1, <1>2 DEF TypeInv
<1>4. Black' = Black
  BY <1>1 DEF Black
<1>5. TypeInv' /\ PathInv'
  BY <1>1, <1>2, <1>3 DEF TypeInv, PathInv
<1>6. n \in keep => n \in Black
  BY <1>1 DEF Black
<1>7. ExploredInv'
  <2>1. \A j \in Black' : wf'.needs[j] \cap keep' \subseteq Black'
    BY <1>1, <1>2, <1>4 DEF ExploredInv
  <2>2. \A i \in 1..Len(path) : \A m \in wf.needs[path[i]] \cap keep :
          m \in todo'[path[i]] \/ m \in Black \/ (i < Len(path) /\ m = path[i + 1])
    BY <1>2, <1>3, <1>6 DEF ExploredInv
  <2>3. QED
    BY <1>1, <1>4, <2>1, <2>2 DEF ExploredInv
<1>8. BlackAcyclic' /\ PhaseInv' /\ KeepInv' /\ CycleIsReal'
  BY <1>1, <1>4 DEF Inv, BlackAcyclic, PhaseInv, KeepInv, CycleIsReal
<1>9. QED
  BY <1>5, <1>7, <1>8 DEF Inv

\* A job whose needs are all black can join the black jobs.
LEMMA LeaveInv ==
  ASSUME Inv, Leave
  PROVE  Inv'
<1> DEFINE L == Len(path)
           t == path[L]
<1>1. /\ path # <<>> /\ todo[Top] = {}
      /\ colour' = [colour EXCEPT ![Top] = "black"]
      /\ path' = SubSeq(path, 1, L - 1)
      /\ UNCHANGED <<wf, stack, keep, todo, state, cycle>> /\ state = "visiting"
  BY DEF Leave
<1>2. /\ TypeInv /\ PathInv /\ ExploredInv /\ BlackAcyclic
      /\ L \in Nat \ {0} /\ Top = t /\ t \in keep /\ t \in Job /\ colour[t] = "grey"
      /\ \A i \in 1..L : path[i] \in keep /\ path[i] \in Job
      /\ \A i \in 1..L : path[i] = t => i = L
      /\ \A j \in Job : wf.needs[j] \in SUBSET Job /\ j \notin wf.needs[j]
  BY <1>1, TopFacts, WorkflowFacts DEF Inv
<1>3. /\ path' \in Seq(keep) /\ Len(path') = L - 1
      /\ \A i \in 1..(L - 1) : path'[i] = path[i]
  <2>1. \A i \in 1..(L - 1) : path[i] \in keep
    BY <1>2
  <2>2. 1 \in Int /\ L - 1 \in Int /\ L - 1 \in Nat
    BY <1>2
  <2>3. /\ SubSeq(path, 1, L - 1) \in Seq(keep)
        /\ Len(SubSeq(path, 1, L - 1)) = IF 1 <= L - 1 THEN L - 1 - 1 + 1 ELSE 0
        /\ \A i \in 1..(L - 1 - 1 + 1) : SubSeq(path, 1, L - 1)[i] = path[1 + i - 1]
    <3> HIDE DEF L
    <3> QED
      BY <2>1, <2>2, SubSeqProperties
  <2>4. L - 1 - 1 + 1 = L - 1 /\ \A i \in 1..(L - 1) : 1 + i - 1 = i
    BY <1>2
  <2>5. Len(SubSeq(path, 1, L - 1)) = L - 1
    <3> HIDE DEF L
    <3> QED
      BY <1>2, <2>3
  <2>6. \A i \in 1..(L - 1) : SubSeq(path, 1, L - 1)[i] = path[i]
    <3> HIDE DEF L
    <3> QED
      BY <1>2, <2>3, <2>4
  <2>7. QED
    BY <1>1, <2>3, <2>5, <2>6
<1>4. Black' = Black \cup {t} /\ t \notin Black
  BY <1>1, <1>2 DEF TypeInv, Black
<1>5. wf.needs[t] \cap keep \subseteq Black
  <2> SUFFICES ASSUME NEW n \in wf.needs[path[L]] \cap keep
               PROVE  n \in Black
    OBVIOUS
  <2>1. L \in 1..L /\ ~(L < L)
    BY <1>2
  <2>2. todo[path[L]] = {}
    BY <1>1, <1>2
  <2>3. QED
    BY <1>2, <2>1, <2>2 DEF ExploredInv
<1>6. TypeInv'
  BY <1>1, <1>2, <1>3 DEF TypeInv
<1>7. PathInv'
  <2>1. \A j \in Job : colour'[j] = "grey" <=> \E i \in 1..(L - 1) : path'[i] = j
    <3> SUFFICES ASSUME NEW j \in Job
                 PROVE  colour'[j] = "grey" <=> \E i \in 1..(L - 1) : path[i] = j
      BY <1>3
    <3>1. CASE j = t
      BY <1>1, <1>2, <3>1 DEF TypeInv
    <3>2. CASE j # t
      <4>1. colour'[j] = colour[j]
        BY <1>1, <1>2, <3>2 DEF TypeInv
      <4>2. colour[j] = "grey" <=> \E i \in 1..L : path[i] = j
        BY <1>2 DEF PathInv
      <4>3. QED
        BY <1>2, <3>2, <4>1, <4>2
    <3>3. QED
      BY <3>1, <3>2
  <2>2. \A i, k \in 1..(L - 1) : path'[i] = path'[k] => i = k
    BY <1>2, <1>3 DEF PathInv
  <2>3. \A i \in 1..(L - 2) : path'[i + 1] \in wf.needs[path'[i]]
    <3> SUFFICES ASSUME NEW i \in 1..(L - 2)
                 PROVE  path'[i + 1] \in wf.needs[path'[i]]
      OBVIOUS
    <3>1. i \in 1..(L - 1) /\ i + 1 \in 1..(L - 1)
      BY <1>2
    <3>2. path'[i + 1] = path[i + 1] /\ path'[i] = path[i]
      BY <1>3, <3>1
    <3>3. QED
      BY <1>2, <3>1, <3>2 DEF PathInv
  <2>4. \A i \in 1..(L - 1) : todo[path'[i]] \subseteq wf.needs[path'[i]]
    <3> SUFFICES ASSUME NEW i \in 1..(L - 1)
                 PROVE  todo[path'[i]] \subseteq wf.needs[path'[i]]
      OBVIOUS
    <3>1. i \in 1..L /\ path'[i] = path[i]
      BY <1>2, <1>3
    <3>2. QED
      BY <1>2, <3>1 DEF PathInv
  <2>5. Len(path') = L - 1 /\ Len(path') - 1 = L - 2 /\ wf' = wf /\ todo' = todo
    BY <1>1, <1>2, <1>3
  <2>6. \A i \in 1..(Len(path') - 1) : path'[i + 1] \in wf'.needs[path'[i]]
    BY <2>3, <2>5
  <2>7. \A i \in 1..Len(path') : todo'[path'[i]] \subseteq wf'.needs[path'[i]]
    BY <2>4, <2>5
  <2>8. QED
    BY <2>1, <2>2, <2>5, <2>6, <2>7 DEF PathInv
<1>8. ExploredInv'
  <2>1. \A j \in Black' : wf.needs[j] \cap keep \subseteq Black'
    BY <1>2, <1>4, <1>5 DEF ExploredInv
  <2>2. ASSUME NEW i \in 1..(L - 1), NEW n \in wf.needs[path'[i]] \cap keep
        PROVE  n \in todo[path'[i]] \/ n \in Black' \/ (i < L - 1 /\ n = path'[i + 1])
    <3>1. i \in 1..L /\ path'[i] = path[i]
      BY <1>2, <1>3
    <3>2. n \in todo[path[i]] \/ n \in Black \/ (i < L /\ n = path[i + 1])
      BY <1>2, <2>2, <3>1 DEF ExploredInv
    <3>3. CASE i = L - 1
      BY <1>2, <1>4, <3>1, <3>2, <3>3
    <3>4. CASE i # L - 1
      <4>1. i + 1 \in 1..(L - 1) /\ i < L - 1
        BY <1>2, <3>4
      <4>2. QED
        BY <1>3, <1>4, <3>1, <3>2, <4>1
    <3>5. QED
      BY <3>3, <3>4
  <2>3. QED
    BY <1>1, <1>3, <2>1, <2>2 DEF ExploredInv
<1>9. BlackAcyclic'
  <2> SUFFICES ASSUME NEW S \in SUBSET Black', S # {}
               PROVE  \E j \in S : wf.needs[j] \cap S = {}
    BY <1>1 DEF BlackAcyclic
  <2>1. CASE S \ {t} = {}
    <3>1. S = {t}
      BY <2>1
    <3>2. QED
      BY <1>2, <3>1
  <2>2. CASE S \ {t} # {}
    <3>1. S \ {t} \in SUBSET Black
      BY <1>4
    <3>2. PICK j \in S \ {t} : wf.needs[j] \cap (S \ {t}) = {}
      BY <1>2, <2>2, <3>1 DEF BlackAcyclic
    <3>3. t \notin wf.needs[j]
      BY <1>2, <1>4, <3>1, <3>2 DEF ExploredInv
    <3>4. QED
      BY <3>2, <3>3
  <2>3. QED
    BY <2>1, <2>2
<1>10. PhaseInv' /\ KeepInv' /\ CycleIsReal'
  BY <1>1 DEF Inv, PhaseInv, KeepInv, CycleIsReal
<1>11. QED
  BY <1>6, <1>7, <1>8, <1>9, <1>10 DEF Inv

LEMMA AcceptInv ==
  ASSUME Inv, Accept
  PROVE  Inv'
<1>1. /\ path = <<>> /\ state = "visiting" /\ state' = "accepted"
      /\ \A j \in keep : colour[j] # "white"
      /\ UNCHANGED <<wf, stack, keep, colour, path, todo, cycle>>
  BY DEF Accept
<1>2. \A j \in Job : colour[j] # "grey"
  BY <1>1 DEF Inv, PathInv
<1>3. PhaseInv'
  BY <1>1, <1>2 DEF Inv, TypeInv, PhaseInv
<1>4. Black' = Black
  BY <1>1 DEF Black
<1>5. TypeInv' /\ PathInv' /\ ExploredInv' /\ BlackAcyclic'
  BY <1>1, <1>4 DEF Inv, TypeInv, PathInv, ExploredInv, BlackAcyclic
<1>6. KeepInv' /\ CycleIsReal'
  BY <1>1 DEF Inv, KeepInv, CycleIsReal
<1>7. QED
  BY <1>3, <1>5, <1>6 DEF Inv
\* The rotation of a sequence, position by position.
LEMMA RotatedFacts ==
  ASSUME NEW S, NEW c \in Seq(S), NEW m \in 1..Len(c)
  PROVE  /\ Rotated(c, m) \in Seq(S)
         /\ Len(Rotated(c, m)) = Len(c) + 1
         /\ \A i \in 1..Len(c) : Rotated(c, m)[i] =
              IF i <= Len(c) - m + 1 THEN c[m + i - 1] ELSE c[i - (Len(c) - m + 1)]
         /\ Rotated(c, m)[Len(c) + 1] = c[m]
<1> DEFINE K == Len(c)
           A == SubSeq(c, m, K)
           B == SubSeq(c, 1, m - 1)
<1>1. K \in Nat /\ m \in Int /\ K \in Int /\ m - 1 \in Int /\ m \in Nat /\ 1 <= m /\ m <= K
  BY LenProperties
<1>2. \A i \in 1..K : c[i] \in S
  BY LenProperties
<1>3. /\ A \in Seq(S) /\ Len(A) = K - m + 1
      /\ \A i \in 1..(K - m + 1) : A[i] = c[m + i - 1]
  <2>1. \A i \in m..K : c[i] \in S
    BY <1>1, <1>2
  <2> HIDE DEF K
  <2>2. QED
    BY <1>1, <2>1, SubSeqProperties
<1>4. /\ B \in Seq(S) /\ Len(B) = m - 1
      /\ \A i \in 1..(m - 1) : B[i] = c[i]
  <2>1. \A i \in 1..(m - 1) : c[i] \in S
    BY <1>1, <1>2
  <2>2. /\ B \in Seq(S)
        /\ Len(B) = IF 1 <= m - 1 THEN m - 1 - 1 + 1 ELSE 0
        /\ \A i \in 1..(m - 1 - 1 + 1) : B[i] = c[1 + i - 1]
    BY <1>1, <2>1, SubSeqProperties
  <2>3. QED
    BY <1>1, <2>2
<1> HIDE DEF A, B
<1>5. /\ A \o B \in Seq(S) /\ Len(A \o B) = K
      /\ \A i \in 1..K : (A \o B)[i] = IF i <= K - m + 1 THEN A[i] ELSE B[i - (K - m + 1)]
  <2>1. /\ A \o B \in Seq(S) /\ Len(A \o B) = Len(A) + Len(B)
        /\ \A i \in 1..Len(A) + Len(B) : (A \o B)[i] = IF i <= Len(A) THEN A[i] ELSE B[i - Len(A)]
    BY <1>3, <1>4, ConcatProperties
  <2>2. Len(A) + Len(B) = K
    BY <1>1, <1>3, <1>4
  <2>3. QED
    BY <1>3, <2>1, <2>2
<1>6. /\ (A \o B) \o <<c[m]>> \in Seq(S) /\ Len((A \o B) \o <<c[m]>>) = K + 1
      /\ \A i \in 1..K : ((A \o B) \o <<c[m]>>)[i] = (A \o B)[i]
      /\ ((A \o B) \o <<c[m]>>)[K + 1] = c[m]
  <2> DEFINE D == A \o B
             E == <<c[m]>>
  <2>1. E \in Seq(S) /\ Len(E) = 1 /\ E[1] = c[m]
    BY <1>2
  <2>2. D \in Seq(S) /\ Len(D) = K
    BY <1>5
  <2> HIDE DEF D, E
  <2>3. /\ D \o E \in Seq(S) /\ Len(D \o E) = Len(D) + Len(E)
        /\ \A i \in 1..Len(D) + Len(E) : (D \o E)[i] = IF i <= Len(D) THEN D[i] ELSE E[i - Len(D)]
    BY <2>1, <2>2, ConcatProperties
  <2>4. D \o E \in Seq(S) /\ Len(D \o E) = K + 1
    BY <2>1, <2>2, <2>3
  <2>5. \A i \in 1..K : (D \o E)[i] = D[i]
    BY <1>1, <2>1, <2>2, <2>3
  <2>6. (D \o E)[K + 1] = c[m]
    BY <1>1, <2>1, <2>2, <2>3
  <2>7. QED
    BY <2>4, <2>5, <2>6 DEF D, E
<1>7. Rotated(c, m) = (A \o B) \o <<c[m]>>
  BY DEF Rotated, A, B
<1>8. \A i \in 1..K : Rotated(c, m)[i] =
        IF i <= K - m + 1 THEN c[m + i - 1] ELSE c[i - (K - m + 1)]
  <2> SUFFICES ASSUME NEW i \in 1..K
               PROVE  Rotated(c, m)[i] =
                        IF i <= K - m + 1 THEN c[m + i - 1] ELSE c[i - (K - m + 1)]
    OBVIOUS
  <2>1. Rotated(c, m)[i] = IF i <= K - m + 1 THEN A[i] ELSE B[i - (K - m + 1)]
    BY <1>5, <1>6, <1>7
  <2>2. CASE i <= K - m + 1
    <3>1. i \in 1..(K - m + 1)
      BY <1>1, <2>2
    <3>2. QED
      BY <1>3, <2>1, <2>2, <3>1
  <2>3. CASE ~(i <= K - m + 1)
    <3>1. i - (K - m + 1) \in 1..(m - 1)
      BY <1>1, <2>3
    <3>2. QED
      BY <1>4, <2>1, <2>3, <3>1
  <2>4. QED
    BY <2>2, <2>3
<1>9. QED
  BY <1>6, <1>7, <1>8
\* A cycle of needs, turned to begin at its smallest member, is one that CycleIsReal allows.
LEMMA RotatedCycle ==
  ASSUME NEW c \in Seq(Job), NEW m \in 1..Len(c), NEW needs,
         Len(c) >= 2,
         \A i \in 1..(Len(c) - 1) : c[i + 1] \in needs[c[i]],
         c[1] \in needs[c[Len(c)]],
         \A i, k \in 1..Len(c) : c[i] = c[k] => i = k,
         \A i \in 1..Len(c) : c[m] <= c[i]
  PROVE  /\ Len(Rotated(c, m)) > 2
         /\ Rotated(c, m)[Len(Rotated(c, m))] = Rotated(c, m)[1]
         /\ \A i \in 1..(Len(Rotated(c, m)) - 1) :
              /\ Rotated(c, m)[i + 1] \in needs[Rotated(c, m)[i]]
              /\ Rotated(c, m)[1] <= Rotated(c, m)[i]
              /\ \A j \in 1..(i - 1) : Rotated(c, m)[i] # Rotated(c, m)[j]
<1> DEFINE K == Len(c)
           R == Rotated(c, m)
           At(i) == IF i <= K - m + 1 THEN m + i - 1 ELSE i - (K - m + 1)
<1>1. K \in Nat /\ K >= 2 /\ m \in Nat /\ 1 <= m /\ m <= K
  BY LenProperties
<1>2. /\ Len(R) = K + 1 /\ R[K + 1] = c[m]
      /\ \A i \in 1..K : R[i] = IF i <= K - m + 1 THEN c[m + i - 1] ELSE c[i - (K - m + 1)]
  BY RotatedFacts
<1>3. \A i \in 1..K : At(i) \in 1..K /\ R[i] = c[At(i)]
  BY <1>1, <1>2
<1>4. \A i, k \in 1..K : At(i) = At(k) => i = k
  BY <1>1
<1>5. At(1) = m /\ \A i \in 1..(K - 1) : At(i + 1) = IF At(i) = K THEN 1 ELSE At(i) + 1
  BY <1>1
<1>6. At(K) = IF m = 1 THEN K ELSE m - 1
  BY <1>1
<1>7. 1 \in 1..K /\ K \in 1..K /\ R[1] = c[m]
  BY <1>1, <1>3, <1>5
<1> HIDE DEF At, R
<1>8. ASSUME NEW i \in 1..K
      PROVE  R[i + 1] \in needs[R[i]]
  <2>1. CASE i = K
    <3>1. CASE m = 1
      BY <1>2, <1>3, <1>6, <1>7, <2>1, <3>1
    <3>2. CASE m # 1
      <4>1. m - 1 \in 1..(K - 1) /\ (m - 1) + 1 = m
        BY <1>1, <3>2
      <4>2. c[m] \in needs[c[m - 1]]
        BY <4>1
      <4>3. R[K] = c[m - 1]
        BY <1>3, <1>6, <1>7, <3>2
      <4>4. QED
        BY <1>2, <2>1, <4>2, <4>3
    <3>3. QED
      BY <3>1, <3>2
  <2>2. CASE i # K
    <3>1. i \in 1..(K - 1) /\ i + 1 \in 1..K
      BY <1>1, <2>2
    <3>2. R[i] = c[At(i)] /\ R[i + 1] = c[At(i + 1)] /\ At(i) \in 1..K
      BY <1>3, <3>1
    <3>3. CASE At(i) = K
      BY <1>5, <3>1, <3>2, <3>3
    <3>4. CASE At(i) # K
      <4>1. At(i) \in 1..(K - 1) /\ At(i + 1) = At(i) + 1
        BY <1>1, <1>5, <3>1, <3>2, <3>4
      <4>2. QED
        BY <3>2, <4>1
    <3>5. QED
      BY <3>3, <3>4
  <2>3. QED
    BY <2>1, <2>2
<1>9. ASSUME NEW i \in 1..K
      PROVE  R[1] <= R[i] /\ \A j \in 1..(i - 1) : R[i] # R[j]
  <2>1. R[1] <= R[i]
    BY <1>3, <1>7
  <2>2. ASSUME NEW j \in 1..(i - 1)
        PROVE  R[i] # R[j]
    <3>1. j \in 1..K /\ i # j
      BY <1>1
    <3>2. QED
      BY <1>3, <1>4, <3>1
  <2>3. QED
    BY <2>1, <2>2
<1>10. Len(R) - 1 = K /\ Len(R) > 2 /\ R[Len(R)] = R[1]
  BY <1>1, <1>2, <1>7
<1>11. QED
  BY <1>8, <1>9, <1>10 DEF R

\* The grey jobs from the need on top close a cycle, because each needs the next.
LEMMA FindCycleInv ==
  ASSUME Inv, NEW n \in Job, FindCycle(n)
  PROVE  Inv'
<1> DEFINE L == Len(path)
<1>1. /\ path # <<>> /\ n \in todo[Top] /\ state' = "cycle" /\ state = "visiting"
      /\ UNCHANGED <<wf, stack, keep, colour, path, todo>>
  BY DEF FindCycle, Looking
<1>2. PICK from \in 1..L :
        /\ path[from] = n
        /\ \E m \in 1..Len(SubSeq(path, from, L)) :
             /\ \A i \in 1..Len(SubSeq(path, from, L)) :
                  SubSeq(path, from, L)[m] <= SubSeq(path, from, L)[i]
             /\ cycle' = Rotated(SubSeq(path, from, L), m)
  BY DEF FindCycle
<1> DEFINE c == SubSeq(path, from, L)
           K == L - from + 1
<1>3. PICK m \in 1..Len(c) : /\ \A i \in 1..Len(c) : c[m] <= c[i]
                             /\ cycle' = Rotated(c, m)
  BY <1>2
<1>4. /\ TypeInv /\ PathInv /\ L \in Nat \ {0} /\ Top = path[L] /\ Top \in Job
      /\ \A i \in 1..L : path[i] \in keep /\ path[i] \in Job
      /\ n \in wf.needs[path[L]] /\ n # path[L]
  BY <1>1, TopFacts, WorkflowFacts DEF Inv
<1>5. from \in Nat /\ 1 <= from /\ from < L /\ K \in Nat /\ K >= 2
  <2>1. from # L
    BY <1>2, <1>4
  <2>2. QED
    <3> HIDE DEF L
    <3> QED
      BY <1>4, <2>1
<1>6. /\ c \in Seq(keep) /\ c \in Seq(Job) /\ Len(c) = K
      /\ \A i \in 1..K : c[i] = path[from + i - 1]
  <2>1. (\A i \in from..L : path[i] \in keep) /\ (\A i \in from..L : path[i] \in Job)
    BY <1>4, <1>5
  <2>2. from \in Int /\ L \in Int /\ from <= L
    BY <1>4, <1>5
  <2> HIDE DEF L
  <2>3. /\ c \in Seq(keep) /\ c \in Seq(Job)
        /\ Len(c) = IF from <= L THEN L - from + 1 ELSE 0
        /\ \A i \in 1..(L - from + 1) : c[i] = path[from + i - 1]
    BY <2>1, <2>2, SubSeqProperties
  <2>4. QED
    BY <2>2, <2>3
<1> HIDE DEF c
<1>7. \A i \in 1..K : from + i - 1 \in 1..L
  BY <1>4, <1>5
<1>8. \A i \in 1..(K - 1) : c[i + 1] \in wf.needs[c[i]]
  <2> SUFFICES ASSUME NEW i \in 1..(K - 1)
               PROVE  c[i + 1] \in wf.needs[c[i]]
    OBVIOUS
  <2>1. /\ i \in 1..K /\ i + 1 \in 1..K /\ from + i - 1 \in 1..(L - 1)
        /\ from + (i + 1) - 1 = (from + i - 1) + 1
    BY <1>4, <1>5
  <2>2. c[i] = path[from + i - 1] /\ c[i + 1] = path[from + (i + 1) - 1]
    <3> HIDE DEF K
    <3> QED
      BY <1>6, <2>1
  <2>3. QED
    BY <1>4, <2>1, <2>2 DEF PathInv
<1>9. c[1] \in wf.needs[c[K]]
  <2>1. 1 \in 1..K /\ K \in 1..K /\ from + 1 - 1 = from /\ from + K - 1 = L
    BY <1>4, <1>5
  <2>2. c[1] = path[from] /\ c[K] = path[L]
    BY <1>6, <2>1
  <2>3. QED
    BY <1>2, <1>4, <2>2
<1>10. \A i, k \in 1..K : c[i] = c[k] => i = k
  <2> SUFFICES ASSUME NEW i \in 1..K, NEW k \in 1..K, c[i] = c[k]
               PROVE  i = k
    OBVIOUS
  <2>1. path[from + i - 1] = path[from + k - 1]
    BY <1>6
  <2>2. from + i - 1 \in 1..L /\ from + k - 1 \in 1..L
    BY <1>7
  <2>3. from + i - 1 = from + k - 1
    BY <1>4, <2>1, <2>2 DEF PathInv
  <2>4. i \in Nat /\ k \in Nat
    BY <1>5
  <2>5. QED
    BY <1>5, <2>3, <2>4
<1>11. CycleIsReal'
  <2> DEFINE needs == wf.needs
  <2>1. Len(c) >= 2 /\ c[1] \in needs[c[Len(c)]]
    BY <1>5, <1>6, <1>9
  <2>2. /\ \A i \in 1..(Len(c) - 1) : c[i + 1] \in needs[c[i]]
        /\ \A i, k \in 1..Len(c) : c[i] = c[k] => i = k
    BY <1>6, <1>8, <1>10
  <2> HIDE DEF needs, K
  <2>3. c \in Seq(Job) /\ m \in 1..Len(c) /\ \A i \in 1..Len(c) : c[m] <= c[i]
    BY <1>3, <1>6
  <2>4. /\ Len(Rotated(c, m)) > 2
        /\ Rotated(c, m)[Len(Rotated(c, m))] = Rotated(c, m)[1]
        /\ \A i \in 1..(Len(Rotated(c, m)) - 1) :
             /\ Rotated(c, m)[i + 1] \in needs[Rotated(c, m)[i]]
             /\ Rotated(c, m)[1] <= Rotated(c, m)[i]
             /\ \A j \in 1..(i - 1) : Rotated(c, m)[i] # Rotated(c, m)[j]
    BY <2>1, <2>2, <2>3, RotatedCycle
  <2>5. needs = wf'.needs
    BY <1>1 DEF needs
  <2>6. QED
    BY <1>3, <2>4, <2>5 DEF CycleIsReal
<1>12. TypeInv'
  <2>1. cycle' \in Seq(keep)
    BY <1>3, <1>6, RotatedFacts
  <2>2. QED
    BY <1>1, <1>4, <2>1 DEF TypeInv
<1>13. Black' = Black
  BY <1>1 DEF Black
<1>14. PathInv' /\ ExploredInv' /\ BlackAcyclic' /\ PhaseInv' /\ KeepInv'
  BY <1>1, <1>13 DEF Inv, PathInv, ExploredInv, BlackAcyclic, PhaseInv, KeepInv
<1>15. QED
  BY <1>11, <1>12, <1>14 DEF Inv
LEMMA StepInv == Inv /\ [Next]_vars => Inv'
<1> SUFFICES ASSUME Inv, [Next]_vars PROVE Inv'
  OBVIOUS
<1>1. CASE Pop
  BY <1>1, PopInv
<1>2. CASE Closed
  BY <1>2, ClosedInv
<1>3. CASE VisitRoot
  <2>1. PICK j \in keep : /\ state = "visiting" /\ path = <<>>
                          /\ colour[j] = "white" /\ Enter(j, todo)
    BY <1>3 DEF VisitRoot
  <2>2. todo \in [Job -> SUBSET Job]
    BY DEF Inv, TypeInv
  <2>3. QED
    BY <2>1, <2>2, EnterInv
<1>4. CASE \E n \in Job : SkipNeed(n)
  BY <1>4, SkipNeedInv
<1>5. ASSUME NEW n \in Job, VisitNeed(n)
      PROVE  Inv'
  <2>1. /\ state = "visiting" /\ path # <<>> /\ n \in todo[Top]
        /\ n \in keep /\ colour[n] = "white" /\ Enter(n, LookedAt(n))
    BY <1>5 DEF VisitNeed, Looking
  <2>2. todo \in [Job -> SUBSET Job] /\ Top \in Job
    BY <2>1, TopFacts DEF Inv, TypeInv
  <2>3. /\ LookedAt(n) \in [Job -> SUBSET Job]
        /\ \A i \in Job : LookedAt(n)[i] = IF i = Top THEN todo[i] \ {n} ELSE todo[i]
    BY <2>2 DEF LookedAt
  <2>4. QED
    BY <2>1, <2>3, EnterInv
<1>6. CASE \E n \in Job : FindCycle(n)
  BY <1>6, FindCycleInv
<1>7. CASE Leave
  BY <1>7, LeaveInv
<1>8. CASE Accept
  BY <1>8, AcceptInv
<1>9. CASE UNCHANGED vars
  BY <1>9 DEF vars, Inv, TypeInv, PathInv, ExploredInv, BlackAcyclic, PhaseInv, KeepInv,
              CycleIsReal, Black
<1>10. QED
  BY <1>1, <1>2, <1>3, <1>4, <1>5, <1>6, <1>7, <1>8, <1>9 DEF Next, Search, Decided

LEMMA SpecInv == Spec => []Inv
<1>1. QED
  BY InitInv, StepInv, PTL DEF Spec

\* A path that never enters a job twice is no longer than there are jobs.
LEMMA PathIsShort ==
  ASSUME Inv
  PROVE  Len(path) <= NJobs
<1> SUFFICES ASSUME ~(Len(path) <= NJobs) PROVE FALSE
  OBVIOUS
<1>1. NJobs \in Nat /\ Len(path) \in Nat /\ path \in [1..Len(path) -> Job]
  <2>1. TypeInv /\ NJobs \in Nat
    BY WorkflowsAssumption DEF Inv
  <2>2. Len(path) \in Nat /\ path \in [1..Len(path) -> keep]
    BY <2>1, LenProperties DEF TypeInv
  <2>3. QED
    BY <2>1, <2>2 DEF TypeInv
<1>2. /\ IsFiniteSet(1..Len(path)) /\ Cardinality(1..Len(path)) = Len(path)
      /\ IsFiniteSet(Job) /\ Cardinality(Job) = NJobs
  <2>1. \A b \in Nat : IsFiniteSet(1..b) /\ Cardinality(1..b) = b
    <3> SUFFICES ASSUME NEW b \in Nat
                 PROVE  IsFiniteSet(1..b) /\ Cardinality(1..b) = b
      OBVIOUS
    <3>1. IsFiniteSet(1..b) /\ Cardinality(1..b) = IF 1 > b THEN 0 ELSE b - 1 + 1
      BY FS_Interval
    <3>2. QED
      BY <3>1
  <2>2. QED
    BY <1>1, <2>1 DEF Job
<1>3. \E i, k \in 1..Len(path) : i # k /\ path[i] = path[k]
  BY <1>1, <1>2, FS_PigeonHole
<1>4. QED
  BY <1>3 DEF Inv, PathInv

-----------------------------------------------------------------------------
\* Whatever the workflow, the state of transitive and detectCycles keeps its type, and the
\* recursion of visit never goes deeper than there are jobs.
THEOREM ExpandTypeOK == Spec => []TypeOK
<1>1. Inv => TypeOK
  BY PathIsShort DEF Inv, TypeInv, TypeOK
<1>2. QED
  BY <1>1, SpecInv, PTL

\* What the search accepts has no cycle, over all its targets.
LEMMA AcyclicOnceAccepted == Inv => AcceptedIsAcyclic
<1> SUFFICES ASSUME Inv, state = "accepted", NEW S \in SUBSET Tasks, S # {}
             PROVE  \E t \in S : TaskNeeds(t) \cap S = {}
  BY DEF AcceptedIsAcyclic
<1> DEFINE J == {t[1] : t \in S}
<1>1. J \in SUBSET Black /\ J # {}
  BY DEF Inv, PhaseInv, TypeInv, Tasks, Black
<1>2. PICK j \in J : wf.needs[j] \cap J = {}
  <2> HIDE DEF J
  <2> QED
    BY <1>1 DEF Inv, BlackAcyclic
<1>3. PICK t \in S : t[1] = j
  OBVIOUS
<1>4. TaskNeeds(t) \cap S = {}
  BY <1>2, <1>3 DEF TaskNeeds
<1>5. QED
  BY <1>4

\* expand returns only when the tasks of the run, over all their targets, have no cycle:
\* the assumption on which Scheduler's theorems rest.
THEOREM ExpandAcceptedIsAcyclic == Spec => []AcceptedIsAcyclic
BY AcyclicOnceAccepted, SpecInv, PTL

\* What detectCycles reports is a cycle of needs, told once round from its smallest job.
THEOREM ExpandCycleIsReal == Spec => []CycleIsReal
<1>1. Inv => CycleIsReal
  BY DEF Inv
<1>2. QED
  BY <1>1, SpecInv, PTL

\* What is kept is the closure of the one job asked for.
LEMMA ClosedOnceKept == Inv => KeepsWhatIsNeeded
<1> SUFFICES ASSUME Inv, state # "closing", wf.only # 0
             PROVE  /\ wf.only \in keep
                    /\ \A j \in keep : wf.needs[j] \subseteq keep
                    /\ \A S \in SUBSET keep :
                         (wf.only \in S /\ \A j \in S : wf.needs[j] \subseteq S) => S = keep
  BY DEF KeepsWhatIsNeeded
<1>1. stack = {} /\ keep \in SUBSET Job
  BY DEF Inv, TypeInv, KeepInv
<1>2. QED
  BY <1>1 DEF Inv, KeepInv

\* --job keeps the transitive closure of the job's needs: closed, and nothing smaller is.
THEOREM ExpandKeepsWhatIsNeeded == Spec => []KeepsWhatIsNeeded
BY ClosedOnceKept, SpecInv, PTL

-----------------------------------------------------------------------------
(* How the search ends *)

\* What the search has before it because of a job that is to be kept, and one to be visited.
KeepWork(j) == IF j \in keep THEN 0 ELSE NJobs + 1

VisitWork(j) == CASE colour[j] = "white" -> NJobs + 3
                  [] colour[j] = "grey" -> 1 + Cardinality(todo[j])
                  [] colour[j] = "black" -> 0

SearchWork == [j \in Job |-> KeepWork(j) + VisitWork(j)]

\* The loops that have still to end.
LoopsLeft == CASE state = "closing" -> 2 [] state = "visiting" -> 1 [] OTHER -> 0

\* How many steps the search can still take, at most.
SearchLeft == SumOn(SearchWork, Job) + Cardinality(stack) + LoopsLeft

LEMMA JobsFinite ==
  /\ NJobs \in Nat /\ IsFiniteSet(Job) /\ Cardinality(Job) = NJobs
  /\ \A S \in SUBSET Job : IsFiniteSet(S) /\ Cardinality(S) \in 0..NJobs
<1>1. NJobs \in Nat
  BY WorkflowsAssumption
<1>2. IsFiniteSet(Job) /\ Cardinality(Job) = NJobs
  BY <1>1, FS_Interval DEF Job
<1> QED BY <1>1, <1>2, FS_Subset, FS_CardinalityType

LEMMA SearchWorkIs ==
  ASSUME TypeInv
  PROVE  /\ SearchWork \in [Job -> Nat] /\ LoopsLeft \in 0..2 /\ Cardinality(stack) \in Nat
         /\ \A j \in Job : KeepWork(j) \in Nat /\ VisitWork(j) \in Nat
         /\ \A j \in Job : VisitWork(j) <= NJobs + 3 /\ KeepWork(j) <= NJobs + 1
<1>1. \A j \in Job : Cardinality(todo[j]) \in 0..NJobs
  BY JobsFinite DEF TypeInv
<1>2. \A j \in Job : VisitWork(j) \in Nat /\ VisitWork(j) <= NJobs + 3
  BY <1>1, JobsFinite DEF TypeInv, VisitWork
<1>3. \A j \in Job : KeepWork(j) \in Nat /\ KeepWork(j) <= NJobs + 1
  BY JobsFinite DEF KeepWork
<1> QED BY <1>2, <1>3, JobsFinite DEF TypeInv, SearchWork, LoopsLeft

LEMMA SearchWorkNext ==
  ASSUME TypeInv'
  PROVE  /\ SearchWork' \in [Job -> Nat] /\ LoopsLeft' \in 0..2 /\ Cardinality(stack') \in Nat
         /\ \A j \in Job : SearchWork'[j] = KeepWork(j)' + VisitWork(j)'
         /\ SearchLeft' = SumOn(SearchWork', Job) + Cardinality(stack') + LoopsLeft'
<1>1. \A j \in Job : Cardinality(todo'[j]) \in 0..NJobs
  BY JobsFinite DEF TypeInv
<1>2. \A j \in Job : VisitWork(j)' \in Nat
  BY <1>1, JobsFinite DEF TypeInv, VisitWork
<1>3. \A j \in Job : KeepWork(j)' \in Nat
  BY JobsFinite DEF KeepWork
<1>4. SearchLeft' = SumOn(SearchWork', Job) + Cardinality(stack') + LoopsLeft'
  BY Zenon DEF SearchLeft, SumOn, MapThenSumSet, MapThenFoldSet
<1> QED BY <1>2, <1>3, <1>4, JobsFinite DEF TypeInv, SearchWork, LoopsLeft

\* A step of the visits takes work from one job, or from two.
LEMMA VisitCounts ==
  ASSUME TypeInv, TypeInv', UNCHANGED <<stack, keep, state>>, NEW x \in Job, NEW y \in Job,
         VisitWork(x)' < VisitWork(x), VisitWork(y)' <= VisitWork(y),
         \A j \in Job : j \notin {x, y} => VisitWork(j)' = VisitWork(j)
  PROVE  SearchLeft' < SearchLeft
<1> DEFINE h == [SearchWork EXCEPT ![x] = SearchWork'[x]]
<1>1. /\ SearchWork \in [Job -> Nat] /\ SearchWork' \in [Job -> Nat]
      /\ LoopsLeft \in 0..2 /\ Cardinality(stack) \in Nat
  BY SearchWorkIs, SearchWorkNext
<1>2. /\ SearchWork'[x] < SearchWork[x] /\ SearchWork'[y] <= SearchWork[y]
      /\ \A j \in Job : j \notin {x, y} => SearchWork'[j] = SearchWork[j]
  <2>1. \A j \in Job : KeepWork(j)' = KeepWork(j)
    BY DEF KeepWork
  <2>2. \A j \in Job : /\ SearchWork[j] = KeepWork(j) + VisitWork(j)
                       /\ SearchWork'[j] = KeepWork(j)' + VisitWork(j)'
    BY SearchWorkNext DEF SearchWork
  <2>3. \A j \in Job : KeepWork(j) \in Nat /\ VisitWork(j) \in Nat
    BY SearchWorkIs
  <2>4. \A j \in Job : VisitWork(j)' \in Nat
    <3>1. \A j \in Job : Cardinality(todo'[j]) \in 0..NJobs
      BY JobsFinite DEF TypeInv
    <3> QED BY <3>1, JobsFinite DEF TypeInv, VisitWork
  <2> HIDE DEF KeepWork, VisitWork, SearchWork
  <2> QED BY <2>1, <2>2, <2>3, <2>4
<1> HIDE DEF SearchWork
<1>3. h \in [Job -> Nat] /\ h[x] = SearchWork'[x] /\ \A j \in Job : j # x => h[j] = SearchWork[j]
  BY <1>1
<1> HIDE DEF h
<1>4. SumOn(h, Job) < SumOn(SearchWork, Job)
  BY <1>1, <1>2, <1>3, JobsFinite, SumFalls
<1>5. /\ SumOn(SearchWork', Job) + h[y] = SumOn(h, Job) + SearchWork'[y]
      /\ SumOn(SearchWork', Job) \in Nat /\ SumOn(h, Job) \in Nat
  <2>1. \A j \in Job : j # y => SearchWork'[j] = h[j]
    BY <1>2, <1>3
  <2> QED BY <1>1, <1>3, <2>1, JobsFinite, SumChanges
<1>6. SearchWork'[y] <= h[y] /\ SearchWork'[y] \in Nat /\ h[y] \in Nat
  BY <1>1, <1>2, <1>3
<1>7. SumOn(SearchWork, Job) \in Nat
  BY <1>1, JobsFinite, SumAdds
<1>8. SumOn(SearchWork', Job) < SumOn(SearchWork, Job)
  BY <1>4, <1>5, <1>6, <1>7
<1>9. LoopsLeft' = LoopsLeft /\ Cardinality(stack') = Cardinality(stack)
  BY DEF LoopsLeft
<1> QED BY <1>1, <1>5, <1>7, <1>8, <1>9, SearchWorkNext DEF SearchLeft

\* A loop ends, and what the jobs have before them stays.
LEMMA LoopCounts ==
  ASSUME TypeInv, TypeInv', UNCHANGED <<stack, keep, colour, todo>>, LoopsLeft' < LoopsLeft
  PROVE  SearchLeft' < SearchLeft
<1>1. SearchWork' = SearchWork
  BY DEF SearchWork, KeepWork, VisitWork
<1>2. SearchWork \in [Job -> Nat] /\ LoopsLeft \in 0..2 /\ Cardinality(stack) \in Nat
  BY SearchWorkIs
<1>3. SumOn(SearchWork, Job) \in Nat
  BY <1>2, JobsFinite, SumAdds
<1>4. LoopsLeft' \in 0..2 /\ SearchLeft' = SumOn(SearchWork', Job) + Cardinality(stack') + LoopsLeft'
  BY SearchWorkNext
<1> HIDE DEF SearchWork, LoopsLeft
<1> QED BY <1>1, <1>2, <1>3, <1>4 DEF SearchLeft

\* A job that is seen for the first time pushes less than it had before it, and one that
\* was seen pushes nothing.
LEMMA PopCounts ==
  ASSUME Inv, Inv', Pop
  PROVE  SearchLeft' < SearchLeft
<1>0. TypeInv /\ TypeInv'
  BY DEF Inv
<1>1. PICK j \in stack : /\ keep' = keep \cup {j}
                         /\ stack' = (stack \ {j}) \cup Pushed(j)
  BY DEF Pop
<1>2. /\ j \in Job /\ IsFiniteSet(stack) /\ stack \in SUBSET Job
      /\ UNCHANGED <<wf, colour, path, todo, state, cycle>>
  BY <1>0, <1>1, JobsFinite DEF Pop, TypeInv
<1>3. /\ SearchWork \in [Job -> Nat] /\ SearchWork' \in [Job -> Nat]
      /\ LoopsLeft \in 0..2 /\ Cardinality(stack) \in Nat /\ Cardinality(stack') \in Nat
      /\ SearchLeft' = SumOn(SearchWork', Job) + Cardinality(stack') + LoopsLeft'
  BY <1>0, SearchWorkIs, SearchWorkNext
<1>4. LoopsLeft' = LoopsLeft
  BY <1>2 DEF LoopsLeft
<1>5. SumOn(SearchWork, Job) \in Nat
  BY <1>3, JobsFinite, SumAdds
<1>6. \A i \in Job : /\ VisitWork(i)' = VisitWork(i)
                     /\ SearchWork[i] = KeepWork(i) + VisitWork(i)
                     /\ SearchWork'[i] = KeepWork(i)' + VisitWork(i)'
  BY <1>0, <1>2, SearchWorkNext DEF VisitWork, SearchWork
<1>7. CASE j \in keep
  <2>1. stack' = stack \ {j} /\ keep' = keep
    BY <1>1, <1>7 DEF Pushed
  <2>2. Cardinality(stack') = Cardinality(stack) - 1
    BY <1>2, <2>1, FS_RemoveElement
  <2>3. SearchWork' = SearchWork
    BY <1>2, <2>1 DEF SearchWork, KeepWork, VisitWork
  <2> HIDE DEF SearchWork, LoopsLeft
  <2> QED BY <1>3, <1>4, <1>5, <2>2, <2>3 DEF SearchLeft
<1>8. CASE j \notin keep
  <2>1. Cardinality(stack') <= NJobs /\ NJobs \in Nat /\ Cardinality(stack) >= 1
    <3>1. stack' \in SUBSET Job
      BY <1>0 DEF TypeInv
    <3>2. Cardinality(stack') \in 0..NJobs /\ NJobs \in Nat
      BY <3>1, JobsFinite
    <3>3. Cardinality(stack) # 0
      BY <1>1, <1>2, FS_EmptySet
    <3> QED BY <1>3, <3>2, <3>3
  <2>2. \A i \in Job : i # j => SearchWork'[i] = SearchWork[i]
    <3>1. \A i \in Job : i # j => KeepWork(i)' = KeepWork(i)
      BY <1>1 DEF KeepWork
    <3> QED BY <1>6, <3>1
  <2>3. SearchWork[j] = SearchWork'[j] + NJobs + 1
    <3>1. KeepWork(j) = NJobs + 1 /\ KeepWork(j)' = 0
      BY <1>1, <1>8 DEF KeepWork
    <3>2. VisitWork(j) \in Nat
      BY <1>0, <1>2, SearchWorkIs
    <3>3. /\ VisitWork(j)' = VisitWork(j)
          /\ SearchWork[j] = KeepWork(j) + VisitWork(j)
          /\ SearchWork'[j] = KeepWork(j)' + VisitWork(j)'
      BY <1>2, <1>6
    <3> HIDE DEF KeepWork, VisitWork, SearchWork
    <3> QED BY <2>1, <3>1, <3>2, <3>3
  <2> HIDE DEF SearchWork, LoopsLeft
  <2>4. /\ SumOn(SearchWork', Job) + SearchWork[j] = SumOn(SearchWork, Job) + SearchWork'[j]
        /\ SumOn(SearchWork', Job) \in Nat
    BY <1>2, <1>3, <2>2, JobsFinite, SumChanges
  <2>5. SearchWork[j] \in Nat /\ SearchWork'[j] \in Nat
    BY <1>2, <1>3
  <2>6. SumOn(SearchWork', Job) + NJobs + 1 = SumOn(SearchWork, Job)
    <3>1. PICK a \in Nat : a = SumOn(SearchWork', Job)
      BY <2>4
    <3>2. PICK b \in Nat : b = SumOn(SearchWork, Job)
      BY <1>5
    <3>3. PICK c \in Nat : c = SearchWork[j]
      BY <2>5
    <3>4. PICK d \in Nat : d = SearchWork'[j]
      BY <2>5
    <3>5. a + c = b + d /\ c = d + NJobs + 1
      BY <2>3, <2>4, <3>1, <3>2, <3>3, <3>4
    <3>6. a + NJobs + 1 = b
      BY <2>1, <3>5
    <3> QED BY <3>1, <3>2, <3>6
  <2> QED BY <1>3, <1>4, <1>5, <2>1, <2>4, <2>6 DEF SearchLeft
<1> QED BY <1>7, <1>8

\* The needs a frame looks at get fewer.
LEMMA LookingCounts ==
  ASSUME Inv, NEW n \in todo[Top], path # <<>>
  PROVE  /\ Top \in Job /\ colour[Top] = "grey"
         /\ LookedAt(n)[Top] = todo[Top] \ {n}
         /\ \A j \in Job : j # Top => LookedAt(n)[j] = todo[j]
         /\ Cardinality(todo[Top] \ {n}) \in Nat
         /\ Cardinality(todo[Top]) = Cardinality(todo[Top] \ {n}) + 1
<1>1. Top \in Job /\ colour[Top] = "grey"
  BY TopFacts
<1>2. todo \in [Job -> SUBSET Job] /\ todo[Top] \in SUBSET Job
  BY <1>1 DEF Inv, TypeInv
<1>3. IsFiniteSet(todo[Top]) /\ Cardinality(todo[Top]) \in Nat
  BY <1>2, JobsFinite
<1>4. Cardinality(todo[Top] \ {n}) = Cardinality(todo[Top]) - 1
  BY <1>3, FS_RemoveElement
<1>5. Cardinality(todo[Top] \ {n}) \in Nat
  <2>1. todo[Top] \ {n} \in SUBSET Job
    BY <1>2
  <2> QED BY <2>1, JobsFinite
<1>6. /\ LookedAt(n)[Top] = todo[Top] \ {n}
      /\ \A j \in Job : j # Top => LookedAt(n)[j] = todo[j]
  BY <1>1, <1>2 DEF LookedAt
<1> QED BY <1>1, <1>3, <1>4, <1>5, <1>6

LEMMA SkipCounts ==
  ASSUME Inv, Inv', NEW n \in Job, SkipNeed(n)
  PROVE  SearchLeft' < SearchLeft
<1>1. /\ path # <<>> /\ n \in todo[Top] /\ todo' = LookedAt(n)
      /\ UNCHANGED <<stack, keep, colour, state>>
  BY DEF SkipNeed, Looking
<1>2. PICK t \in Job : t = Top /\ colour[t] = "grey"
  BY <1>1, LookingCounts
<1>3. VisitWork(t)' < VisitWork(t)
  <2>1. /\ todo'[t] = todo[t] \ {n} /\ Cardinality(todo[t] \ {n}) \in Nat
        /\ Cardinality(todo[t]) = Cardinality(todo[t] \ {n}) + 1
    BY <1>1, <1>2, LookingCounts
  <2>2. /\ VisitWork(t) = 1 + Cardinality(todo[t])
        /\ VisitWork(t)' = 1 + Cardinality(todo'[t])
    BY <1>1, <1>2 DEF VisitWork
  <2> QED BY <2>1, <2>2
<1>4. \A j \in Job : j # t => VisitWork(j)' = VisitWork(j)
  BY <1>1, <1>2, LookingCounts DEF VisitWork
<1>5. TypeInv /\ TypeInv' /\ VisitWork(t) \in Nat
  BY <1>2, SearchWorkIs DEF Inv
<1>6. VisitWork(t)' <= VisitWork(t)
  <2>1. Cardinality(todo'[t]) \in Nat
    BY <1>2, <1>5, JobsFinite DEF TypeInv
  <2>2. VisitWork(t)' = 1 + Cardinality(todo'[t])
    BY <1>1, <1>2 DEF VisitWork
  <2> QED BY <1>3, <1>5, <2>1, <2>2
<1> HIDE DEF VisitWork
<1> QED BY <1>1, <1>3, <1>4, <1>5, <1>6, VisitCounts

\* A job that is entered has fewer needs to look at than it counted for while white.
LEMMA EnterCounts ==
  ASSUME Inv, Inv', NEW j \in keep, colour[j] = "white", NEW left, Enter(j, left),
         left \in [Job -> SUBSET Job], NEW t \in Job,
         t # j => Cardinality(left[t]) <= Cardinality(todo[t]),
         \A i \in Job : i \notin {j, t} => left[i] = todo[i]
  PROVE  SearchLeft' < SearchLeft
<1>1. /\ colour' = [colour EXCEPT ![j] = "grey"]
      /\ todo' = [left EXCEPT ![j] = wf.needs[j]]
      /\ UNCHANGED <<stack, keep, state>>
  BY DEF Enter
<1>2. /\ TypeInv /\ TypeInv' /\ j \in Job /\ wf.needs[j] \in SUBSET Job
      /\ colour \in [Job -> {"white", "grey", "black"}]
  BY WorkflowFacts DEF Inv, TypeInv
<1>3. /\ colour'[j] = "grey" /\ todo'[j] = wf.needs[j]
      /\ \A i \in Job : i # j => colour'[i] = colour[i] /\ todo'[i] = left[i]
  BY <1>1, <1>2
<1>4. VisitWork(j)' < VisitWork(j)
  <2>1. VisitWork(j) = NJobs + 3 /\ VisitWork(j)' = 1 + Cardinality(wf.needs[j])
    BY <1>3 DEF VisitWork
  <2>2. Cardinality(wf.needs[j]) \in 0..NJobs /\ NJobs \in Nat
    BY <1>2, JobsFinite
  <2> QED BY <2>1, <2>2
<1>5. VisitWork(t)' <= VisitWork(t)
  <2>1. CASE t = j
    <3>1. VisitWork(j) \in Nat /\ VisitWork(j)' \in Nat
      <4>1. Cardinality(todo'[j]) \in Nat
        BY <1>2, <1>3, JobsFinite
      <4> QED BY <1>2, <1>3, <4>1, SearchWorkIs DEF VisitWork
    <3> QED BY <1>4, <2>1, <3>1
  <2>2. CASE t # j
    <3>1. colour'[t] = colour[t] /\ todo'[t] = left[t] /\ VisitWork(t) \in Nat
      BY <1>2, <1>3, <2>2, SearchWorkIs
    <3>2. Cardinality(left[t]) \in Nat /\ Cardinality(todo[t]) \in Nat
      BY <1>2, <2>2, JobsFinite DEF TypeInv
    <3>3. CASE colour[t] = "grey"
      <4>1. /\ VisitWork(t) = 1 + Cardinality(todo[t])
            /\ VisitWork(t)' = 1 + Cardinality(left[t])
        BY <3>1, <3>3 DEF VisitWork
      <4> QED BY <2>2, <3>2, <3>3, <4>1
    <3>4. CASE colour[t] # "grey"
      <4>1. VisitWork(t)' = VisitWork(t)
        BY <1>2, <3>1, <3>4 DEF VisitWork
      <4> QED BY <3>1, <4>1
    <3> QED BY <3>3, <3>4
  <2> QED BY <2>1, <2>2
<1>6. \A i \in Job : i \notin {j, t} => VisitWork(i)' = VisitWork(i)
  BY <1>3 DEF VisitWork
<1> HIDE DEF VisitWork
<1> QED BY <1>1, <1>2, <1>4, <1>5, <1>6, VisitCounts

LEMMA SearchCounts == Inv /\ [Next]_vars => [SearchLeft' < SearchLeft]_vars
<1> SUFFICES ASSUME Inv, [Next]_vars, ~UNCHANGED vars PROVE SearchLeft' < SearchLeft
  OBVIOUS
<1>0. Inv' /\ TypeInv /\ TypeInv' /\ todo \in [Job -> SUBSET Job]
  BY StepInv DEF Inv, TypeInv
<1>1. CASE Pop
  BY <1>0, <1>1, PopCounts
<1>2. CASE Closed \/ Accept \/ \E n \in Job : FindCycle(n)
  <2>1. UNCHANGED <<stack, keep, colour, todo>> /\ LoopsLeft' < LoopsLeft
    BY <1>2 DEF Closed, Accept, FindCycle, Looking, LoopsLeft
  <2> QED BY <1>0, <2>1, LoopCounts
<1>3. CASE VisitRoot
  <2>1. PICK j \in keep : colour[j] = "white" /\ Enter(j, todo)
    BY <1>3 DEF VisitRoot
  <2>2. j \in Job
    BY <1>0 DEF TypeInv
  <2> QED BY <1>0, <2>1, <2>2, EnterCounts
<1>4. ASSUME NEW n \in Job, VisitNeed(n) PROVE SearchLeft' < SearchLeft
  <2>1. /\ path # <<>> /\ n \in todo[Top]
        /\ n \in keep /\ colour[n] = "white" /\ Enter(n, LookedAt(n))
    BY <1>4 DEF VisitNeed, Looking
  <2>2. PICK t \in Job : t = Top
    BY <2>1, LookingCounts
  <2>3. /\ LookedAt(n)[t] = todo[t] \ {n}
        /\ \A j \in Job : j # t => LookedAt(n)[j] = todo[j]
        /\ Cardinality(todo[t] \ {n}) \in Nat
        /\ Cardinality(todo[t]) = Cardinality(todo[t] \ {n}) + 1
    BY <2>1, <2>2, LookingCounts
  <2>4. LookedAt(n) \in [Job -> SUBSET Job]
    BY <1>0, <2>2 DEF LookedAt
  <2>5. Cardinality(LookedAt(n)[t]) <= Cardinality(todo[t])
    BY <2>3
  <2>6. \A i \in Job : i \notin {n, t} => LookedAt(n)[i] = todo[i]
    BY <2>3
  <2> HIDE DEF LookedAt
  <2> QED BY <1>0, <2>1, <2>4, <2>5, <2>6, EnterCounts
<1>5. CASE \E n \in Job : SkipNeed(n)
  BY <1>0, <1>5, SkipCounts
<1>6. CASE Leave
  <2>1. /\ path # <<>> /\ colour' = [colour EXCEPT ![Top] = "black"]
        /\ UNCHANGED <<stack, keep, todo, state>>
    BY <1>6 DEF Leave
  <2>2. PICK t \in Job : t = Top /\ colour[t] = "grey"
    BY <2>1, TopFacts
  <2>3. colour'[t] = "black" /\ \A j \in Job : j # t => colour'[j] = colour[j]
    BY <1>0, <2>1, <2>2 DEF TypeInv
  <2>4. VisitWork(t)' = 0 /\ VisitWork(t) = 1 + Cardinality(todo[t])
    BY <2>2, <2>3 DEF VisitWork
  <2>5. Cardinality(todo[t]) \in Nat
    BY <1>0, JobsFinite
  <2>6. \A j \in Job : j # t => VisitWork(j)' = VisitWork(j)
    BY <2>1, <2>3 DEF VisitWork
  <2>7. VisitWork(t)' < VisitWork(t) /\ VisitWork(t)' <= VisitWork(t)
    BY <2>4, <2>5
  <2> HIDE DEF VisitWork
  <2> QED BY <1>0, <2>1, <2>6, <2>7, VisitCounts
<1> QED BY <1>1, <1>2, <1>3, <1>4, <1>5, <1>6 DEF Next, Search, Decided

LEMMA SearchAtFirst == Init => SearchLeft <= NJobs * (2 * NJobs + 4) + 3
<1> SUFFICES ASSUME Init PROVE SearchLeft <= NJobs * (2 * NJobs + 4) + 3
  OBVIOUS
<1>1. TypeInv
  BY InitInv DEF Inv
<1>2. SearchWork \in [Job -> Nat] /\ \A j \in Job : SearchWork[j] <= 2 * NJobs + 4
  BY <1>1, SearchWorkIs, JobsFinite DEF SearchWork
<1>3. LoopsLeft = 2
  BY DEF Init, LoopsLeft
<1>4. Cardinality(stack) \in {0, 1}
  BY FS_EmptySet, FS_Singleton DEF Init
<1>5. SumOn(SearchWork, Job) <= NJobs * (2 * NJobs + 4) /\ SumOn(SearchWork, Job) \in Nat
  <2>1. 2 * NJobs + 4 \in Nat
    BY JobsFinite
  <2> HIDE DEF SearchWork
  <2> QED BY <1>2, <2>1, JobsFinite, SumAtMost, SumAdds
<1>6. NJobs * (2 * NJobs + 4) \in Nat
  BY JobsFinite
<1> HIDE DEF SearchWork, LoopsLeft
<1> QED BY <1>3, <1>4, <1>5, <1>6 DEF SearchLeft

\* For any workflow of N jobs, with cycles or without, expand takes at most 2 N N + 4 N + 3
\* steps, in whatever order it meets jobs and needs: each leaves fewer to take.
THEOREM ExpandCountsDown ==
  Spec => /\ SearchLeft <= NJobs * (2 * NJobs + 4) + 3
          /\ [](SearchLeft \in Nat) /\ [][SearchLeft' < SearchLeft]_vars
<1>1. Inv => SearchLeft \in Nat
  <2> SUFFICES ASSUME Inv PROVE SearchLeft \in Nat
    OBVIOUS
  <2>1. SearchWork \in [Job -> Nat] /\ LoopsLeft \in 0..2 /\ Cardinality(stack) \in Nat
    BY SearchWorkIs DEF Inv
  <2> HIDE DEF SearchWork, LoopsLeft
  <2>2. SumOn(SearchWork, Job) \in Nat
    BY <2>1, JobsFinite, SumAdds
  <2> QED BY <2>1, <2>2 DEF SearchLeft
<1> QED BY <1>1, SearchAtFirst, SpecInv, SearchCounts, PTL DEF Spec

-----------------------------------------------------------------------------
(* The command *)

AfterExpand == {"env", "images", "upgrade", "keys", "lockfile", "prefetch", "scheduling"}

AfterImages == {"upgrade", "keys", "lockfile", "prefetch", "scheduling"}

\* What each check has established, as long as the command goes on.
ChecksInv ==
  /\ place \in {"expand"} \cup AfterExpand => tier \in Tier /\ IsolatedEnough
  /\ place \in AfterExpand => state = "accepted"
  /\ place \in AfterImages => \A j \in keep : cmd.image[j] \in digests

\* Until the lockfile is read nothing is wanted.
NothingYet == /\ DOMAIN lock = {}
              /\ pending = {} /\ lost = FALSE

\* What is wanted is pinned by one of the lockfiles; what has been looked at is there,
\* unless something was lost.
PackagesInv ==
  /\ \A u \in DOMAIN lock : \E l \in Lockfiles : /\ u \in Url /\ lock[u] = l[u]
                                                 /\ l[u].kind = "pinned"
  /\ pending \subseteq DOMAIN lock
  /\ place \notin {"prefetch", "scheduling"} \cup Over => NothingYet
  /\ ~lost => \A u \in DOMAIN lock \ pending : place \notin Over => Cached(u)
  /\ place = "scheduling" => pending = {} /\ ~lost

\* The cache of the first run holds nothing, as long as the run goes on, but what fits one of
\* the packages wanted.
FirstRunInv ==
  (runs = 1 /\ place \notin Over) =>
    \A b \in Bytes : \/ cache[b] = "none"
                    \/ \E v \in DOMAIN lock : lock[v].first = b /\ cache[b] \in lock[v].hashes

\* The closure of --job never ends with a job that needs what is no job.
StrayInv == Astray => state = "closing"

CommandInv == /\ Inv /\ cmd \in Commands
              /\ ChecksInv
              /\ PackagesInv
              /\ FirstRunInv
              /\ StrayInv
              /\ cache \in [Bytes -> Bytes \cup Absent]
              /\ NamedByContent
              /\ runs \in Nat \ {0}
-----------------------------------------------------------------------------
LEMMA CommandFacts ==
  ASSUME cmd \in Commands
  PROVE  /\ cmd.flag \in Tier \cup {"none", "unknown"}
         /\ cmd.tier \in [Job -> Tier \cup {"none"}]
BY CommandAssumption DEF Command

\* The strongest of some tiers is one of them, and no other is stronger.
LEMMA StrongestIsThere ==
  ASSUME NEW D \in SUBSET Tier, D # {}
  PROVE  /\ StrongestOf(D) \in D
         /\ \A o \in D : Rank[StrongestOf(D)] >= Rank[o]
<1>1. Rank["microvm"] = 90 /\ Rank["container"] = 50
  BY DEF Rank, Tier
<1>2. \E t \in D : \A o \in D : Rank[t] >= Rank[o]
  <2>1. CASE "microvm" \in D
    BY <1>1, <2>1 DEF Tier
  <2>2. CASE "microvm" \notin D
    <3>1. D = {"container"}
      BY <2>2 DEF Tier
    <3>2. QED
      BY <1>1, <3>1
  <2>3. QED
    BY <2>1, <2>2
<1>3. QED
  BY <1>2 DEF StrongestOf

\* A tier at least as strong as the minimum is strong enough for everybody.
LEMMA MinTierSuffices ==
  ASSUME cmd \in Commands, MinTier \in Tier, NEW best \in Tier, Rank[best] >= Rank[MinTier]
  PROVE  IF cmd.flag # "none" THEN Rank[best] >= Rank[cmd.flag]
         ELSE /\ \A j \in Job : cmd.tier[j] # "none" => Rank[best] >= Rank[cmd.tier[j]]
              /\ (\A j \in Job : cmd.tier[j] = "none") => best = "microvm"
<1>1. Rank["microvm"] = 90 /\ Rank["container"] = 50
  BY DEF Rank, Tier
<1>2. cmd.tier \in [Job -> Tier \cup {"none"}]
  BY CommandFacts
<1>3. CASE cmd.flag # "none"
  BY <1>3 DEF MinTier
<1>4. CASE cmd.flag = "none" /\ Declared = {}
  <2>1. \A j \in Job : cmd.tier[j] = "none"
    BY <1>4 DEF Declared
  <2>2. best = "microvm"
    BY <1>1, <1>4 DEF MinTier, Tier
  <2>3. QED
    BY <1>4, <2>1, <2>2
<1>5. CASE cmd.flag = "none" /\ Declared # {}
  <2>1. Declared \in SUBSET Tier
    BY <1>2 DEF Declared
  <2>2. \A o \in Declared : Rank[MinTier] >= Rank[o]
    BY <1>5, <2>1, StrongestIsThere DEF MinTier
  <2>3. \A o \in Declared : Rank[best] >= Rank[o]
    BY <1>1, <2>1, <2>2 DEF Tier
  <2>4. \A j \in Job : cmd.tier[j] # "none" => cmd.tier[j] \in Declared
    BY DEF Declared
  <2>5. ~(\A j \in Job : cmd.tier[j] = "none")
    BY <1>5 DEF Declared
  <2>6. QED
    BY <1>5, <2>3, <2>4, <2>5
<1>6. QED
  BY <1>3, <1>4, <1>5

LEMMA InitIsInv == Init' => Inv'
<1>1. (Init => Inv)'
  BY InitInv, PTL
<1>2. QED
  BY <1>1

LEMMA CommandInitInv == CommandInit => CommandInv
<1> SUFFICES ASSUME CommandInit PROVE CommandInv
  OBVIOUS
<1>1. Inv /\ cmd \in Commands
  BY InitInv DEF CommandInit
<1>2. ChecksInv
  BY DEF CommandInit, ChecksInv, AfterExpand, AfterImages
<1>3. PackagesInv
  BY DEF CommandInit, PackagesInv, NothingYet, NoPackages, Over
<1>4. /\ cache \in [Bytes -> Bytes \cup Absent] /\ NamedByContent
      /\ FirstRunInv /\ runs \in Nat \ {0}
  BY DEF CommandInit, NamedByContent, Absent, FirstRunInv
<1>5. StrayInv
  BY DEF CommandInit, Init, StrayInv, Astray
<1>6. QED
  BY <1>1, <1>2, <1>3, <1>4, <1>5 DEF CommandInv

-----------------------------------------------------------------------------
(* The steps, by what they change *)

\* A refusal or a step to the next check, in a place that promises no more than this one.
LEMMA MovesInv ==
  ASSUME CommandInv,
         UNCHANGED <<vars, cmd, tier, digests, lock, pending, lost, cache, runs>>,
         \/ place' \in Over
         \/ /\ place' \in {"tier"} \cup AfterExpand
            /\ place' \in AfterExpand => /\ tier \in Tier /\ IsolatedEnough
                                         /\ state = "accepted"
            /\ place' \in AfterImages => \A j \in keep : cmd.image[j] \in digests
            /\ place' \notin {"prefetch", "scheduling"} => NothingYet
            /\ place \notin Over
            /\ place' = "scheduling" => pending = {} /\ ~lost
  PROVE  CommandInv'
<1>1. Inv'
  BY StepInv DEF CommandInv
<1>2. ChecksInv'
  BY DEF CommandInv, ChecksInv, AfterExpand, AfterImages, Over, IsolatedEnough, vars
<1>3. PackagesInv'
  BY DEF CommandInv, PackagesInv, NothingYet, Cached, File, Over, AfterExpand
<1>4. FirstRunInv' /\ StrayInv'
  BY DEF CommandInv, FirstRunInv, StrayInv, Astray, vars
<1>5. QED
  BY <1>1, <1>2, <1>3, <1>4 DEF CommandInv, NamedByContent

LEMMA ResolveTierInv ==
  ASSUME CommandInv, ResolveTier
  PROVE  CommandInv'
<1>1. CASE \E c \in {78} : Refuse(c)
  BY <1>1, MovesInv DEF Refuse, Over
<1>2. CASE ~(\E c \in {78} : Refuse(c))
  <2>1. PICK best \in Tier : /\ MinTier \in Tier
                             /\ Rank[best] >= Rank[MinTier]
                             /\ tier' = best /\ place' = "expand"
                             /\ UNCHANGED <<vars, cmd, code, digests, lock, pending, lost, cache, runs>>
    BY <1>2 DEF ResolveTier
  <2>2. Inv'
    BY <2>1, StepInv DEF CommandInv
  <2>3. cmd \in Commands /\ place = "tier"
    BY DEF CommandInv, ResolveTier
  <2>4. tier' \in Tier /\ IsolatedEnough'
    BY <2>1, <2>3, MinTierSuffices DEF IsolatedEnough
  <2>5. ChecksInv'
    BY <2>1, <2>4 DEF ChecksInv, AfterExpand, AfterImages
  <2>6. PackagesInv'
    BY <2>1, <2>3 DEF CommandInv, PackagesInv, NothingYet, Cached, File, Over
  <2>7. FirstRunInv' /\ StrayInv'
    BY <2>1, <2>3 DEF CommandInv, FirstRunInv, StrayInv, Astray, Over, vars
  <2>8. QED
    BY <2>1, <2>2, <2>5, <2>6, <2>7 DEF CommandInv, NamedByContent
<1>3. QED
  BY <1>1, <1>2

LEMMA ExpandingInv ==
  ASSUME CommandInv, Expanding
  PROVE  CommandInv'
<1>1. Inv'
  <2>1. Inv /\ [Next]_vars
    BY DEF CommandInv, Expanding, Next
  <2>2. QED
    BY <2>1, StepInv
<1>2. place = "expand" /\ UNCHANGED preVars
  BY DEF Expanding
<1>3. ChecksInv'
  BY <1>2 DEF CommandInv, ChecksInv, AfterExpand, AfterImages, IsolatedEnough, preVars
<1>4. PackagesInv'
  BY <1>2 DEF CommandInv, PackagesInv, NothingYet, Cached, File, Over, preVars
<1>5. FirstRunInv'
  BY <1>2 DEF CommandInv, FirstRunInv, preVars
<1>6. StrayInv'
  <2>1. StrayInv /\ ~Astray /\ cmd' = cmd
    BY <1>2 DEF CommandInv, Expanding, Astray, preVars
  <2>2. CASE Pop
    BY <2>1, <2>2 DEF StrayInv, Pop
  <2>3. CASE ~Pop
    <3>1. UNCHANGED <<wf, keep>>
      BY <2>3 DEF Expanding, Search, Closed, VisitRoot, SkipNeed, VisitNeed, FindCycle, Leave,
                  Accept, Enter
    <3>2. QED
      BY <2>1, <3>1 DEF StrayInv, Astray
  <2>4. QED
    BY <2>2, <2>3
<1>7. QED
  BY <1>1, <1>2, <1>3, <1>4, <1>5, <1>6 DEF CommandInv, NamedByContent, preVars

LEMMA FindImagesInv ==
  ASSUME CommandInv, FindImages
  PROVE  CommandInv'
<1>1. CASE \E c \in {78} : Refuse(c)
  BY <1>1, MovesInv DEF Refuse, Over
<1>2. CASE ~(\E c \in {78} : Refuse(c))
  <2>1. /\ \A j \in keep : cmd.image[j] \in digests'
        /\ place' = "upgrade" /\ place = "images"
        /\ UNCHANGED <<vars, cmd, code, tier, lock, pending, lost, cache, runs>>
    BY <1>2 DEF FindImages
  <2>2. Inv'
    BY <2>1, StepInv DEF CommandInv
  <2>3. ChecksInv'
    BY <2>1 DEF CommandInv, ChecksInv, AfterExpand, AfterImages, IsolatedEnough, vars
  <2>4. PackagesInv'
    BY <2>1 DEF CommandInv, PackagesInv, NothingYet, Cached, File, Over
  <2>5. FirstRunInv' /\ StrayInv'
    BY <2>1 DEF CommandInv, FirstRunInv, StrayInv, Astray, Over, vars
  <2>6. QED
    BY <2>1, <2>2, <2>3, <2>4, <2>5 DEF CommandInv, NamedByContent
<1>3. QED
  BY <1>1, <1>2

LEMMA ReadLockfileInv ==
  ASSUME CommandInv, ReadLockfile
  PROVE  CommandInv'
<1>1. CASE \E c \in {1, 2} : Refuse(c)
  BY <1>1, MovesInv DEF Refuse, Over
<1>2. CASE Prefetchers = {} /\ Proceed("scheduling")
  <2>1. NothingYet
    BY DEF CommandInv, PackagesInv, ReadLockfile, Over
  <2>2. ChecksInv /\ place = "lockfile"
    BY DEF CommandInv, ReadLockfile
  <2>3. QED
    BY <1>2, <2>1, <2>2, MovesInv
       DEF Proceed, ChecksInv, AfterExpand, AfterImages, Over, NothingYet
<1>3. CASE \E l \in Lockfiles : /\ Problems(l) = {}
                                 /\ lock' = Plan(l) /\ pending' = DOMAIN Plan(l)
                                 /\ place' = "prefetch"
                                 /\ UNCHANGED <<vars, cmd, code, tier, digests, lost, cache, runs>>
  <2>1. PICK l \in Lockfiles : /\ Problems(l) = {}
                               /\ lock' = Plan(l) /\ pending' = DOMAIN Plan(l)
                               /\ place' = "prefetch"
                               /\ UNCHANGED <<vars, cmd, code, tier, digests, lost, cache, runs>>
    BY <1>3
  <2>2. ChecksInv /\ place = "lockfile"
    BY DEF CommandInv, ReadLockfile
  <2>3. Inv'
    BY <2>1, StepInv DEF CommandInv
  <2>4. ChecksInv'
    BY <2>1, <2>2 DEF ChecksInv, AfterExpand, AfterImages, IsolatedEnough, vars
  <2>5. \A u \in Considered(l) : u \in Url /\ l[u].kind = "pinned"
    <3>1. l \in [Url -> Package]
      BY CommandAssumption
    <3>2. QED
      BY <2>1, <3>1 DEF Considered, Problems, Package
  <2>6. PackagesInv'
    BY <2>1, <2>5 DEF PackagesInv, Plan, Over
  <2>7. FirstRunInv'
    <3>1. FirstRunInv /\ NothingYet
      BY <2>2 DEF CommandInv, PackagesInv, Over
    <3>2. QED
      BY <2>1, <2>2, <3>1 DEF FirstRunInv, NothingYet, Over
  <2>8. StrayInv'
    BY <2>1 DEF CommandInv, StrayInv, Astray, vars
  <2>9. QED
    BY <2>1, <2>3, <2>4, <2>6, <2>7, <2>8 DEF CommandInv, NamedByContent
<1>4. QED
  BY <1>1, <1>2, <1>3 DEF ReadLockfile

\* What is wanted has a file.
LEMMA WantedFiles ==
  ASSUME CommandInv
  PROVE  \A u \in DOMAIN lock : File(u) \in Bytes
<1>1. SUFFICES ASSUME NEW u \in DOMAIN lock PROVE File(u) \in Bytes
  OBVIOUS
<1>2. PICK l \in Lockfiles : u \in Url /\ lock[u] = l[u]
  BY DEF CommandInv, PackagesInv
<1>3. l[u] \in Package
  BY <1>2, CommandAssumption
<1>4. QED
  BY <1>2, <1>3 DEF File, Package

\* The package looked at is one that some lockfile pins.
LEMMA PackageFacts ==
  ASSUME CommandInv, NEW u \in pending
  PROVE  /\ u \in DOMAIN lock /\ File(u) \in Bytes
         /\ \E l \in Lockfiles, v \in Url : /\ l[v].kind = "pinned" /\ l[v].first = File(u)
                                            /\ l[v].hashes = lock[u].hashes
<1>1. PICK l \in Lockfiles : u \in Url /\ lock[u] = l[u] /\ l[u].kind = "pinned"
  BY DEF CommandInv, PackagesInv
<1>2. l[u] \in Package
  BY <1>1, CommandAssumption
<1>3. u \in DOMAIN lock
  BY DEF CommandInv, PackagesInv
<1>4. QED
  BY <1>1, <1>2, <1>3 DEF File, Package

\* Writing a file, whole or not, leaves every file named by what it holds.
LEMMA WrittenInv ==
  ASSUME CommandInv, NEW u \in pending,
         NEW put \in Bytes \cup Absent,
         put \in Bytes => Fits(u, put),
         cache' = [cache EXCEPT ![File(u)] = put]
  PROVE  cache' \in [Bytes -> Bytes \cup Absent] /\ NamedByContent'
<1>1. cache \in [Bytes -> Bytes \cup Absent] /\ NamedByContent
  BY DEF CommandInv
<1>2. PICK l \in Lockfiles, v \in Url : /\ l[v].kind = "pinned" /\ l[v].first = File(u)
                                         /\ l[v].hashes = lock[u].hashes
  BY PackageFacts
<1>3. \A b \in Bytes : cache'[b] = IF b = File(u) THEN put ELSE cache[b]
  BY <1>1
<1>4. NamedByContent'
  BY <1>1, <1>2, <1>3 DEF NamedByContent, Fits
<1>5. QED
  BY <1>1, <1>4

\* Looking at a package keeps the invariant when it ends the run, loses the package, or
\* leaves a file for it and takes none away.
LEMMA LookAtInv ==
  ASSUME CommandInv, NEW u \in Url, LookAt(u),
         cache' \in [Bytes -> Bytes \cup Absent], NamedByContent', FirstRunInv',
         \/ place' \in Over
         \/ /\ UNCHANGED place
            /\ \/ lost'
               \/ /\ UNCHANGED lost /\ Cached(u)'
                  /\ \A v \in DOMAIN lock : Cached(v) => Cached(v)'
  PROVE  CommandInv'
<1>1. /\ place = "prefetch" /\ u \in pending /\ pending' = pending \ {u}
      /\ UNCHANGED <<vars, cmd, tier, digests, lock, runs>>
  BY DEF LookAt
<1>2. Inv' /\ cmd' \in Commands
  BY <1>1, StepInv DEF CommandInv
<1>3. ChecksInv'
  BY <1>1 DEF CommandInv, ChecksInv, AfterExpand, AfterImages, Over, IsolatedEnough, vars
<1>4. PackagesInv'
  BY <1>1 DEF CommandInv, PackagesInv, Over
<1>5. StrayInv' /\ runs' \in Nat \ {0}
  BY <1>1 DEF CommandInv, StrayInv, Astray, vars
<1>6. QED
  BY <1>2, <1>3, <1>4, <1>5 DEF CommandInv

LEMMA SkipCachedInv ==
  ASSUME CommandInv, NEW u \in Url, SkipCached(u)
  PROVE  CommandInv'
<1>1. UNCHANGED <<place, lost, cache, lock>> /\ Cached(u) /\ LookAt(u)
  BY DEF SkipCached, LookAt
<1>2. \A v \in DOMAIN lock \cup {u} : Cached(v)' <=> Cached(v)
  BY <1>1 DEF Cached, File
<1>3. cache' \in [Bytes -> Bytes \cup Absent] /\ NamedByContent' /\ FirstRunInv'
  BY <1>1 DEF CommandInv, NamedByContent, FirstRunInv, LookAt
<1>4. QED
  BY <1>1, <1>2, <1>3, LookAtInv

LEMMA LoseInv ==
  ASSUME CommandInv, NEW u \in Url, Lose(u)
  PROVE  CommandInv'
<1>1. UNCHANGED <<place, cache>> /\ lost' /\ LookAt(u)
  BY DEF Lose
<1>2. cache' \in [Bytes -> Bytes \cup Absent] /\ NamedByContent' /\ FirstRunInv'
  BY <1>1 DEF CommandInv, NamedByContent, FirstRunInv, LookAt
<1>3. QED
  BY <1>1, <1>2, LookAtInv

LEMMA KeepStepInv ==
  ASSUME CommandInv, NEW u \in Url, Keep(u)
  PROVE  CommandInv'
<1>1. PICK bytes \in Bytes : Fits(u, bytes) /\ cache' = [cache EXCEPT ![File(u)] = bytes]
  BY DEF Keep
<1>2. u \in pending /\ LookAt(u) /\ UNCHANGED <<place, lost, lock>>
  BY DEF Keep, LookAt
<1>3. cache' \in [Bytes -> Bytes \cup Absent] /\ NamedByContent'
  BY <1>1, <1>2, WrittenInv
<1>4. File(u) \in Bytes /\ cache \in [Bytes -> Bytes \cup Absent] /\ bytes # "none"
  BY <1>2, PackageFacts, CommandAssumption DEF CommandInv, Absent
<1>5. \A b \in Bytes : cache'[b] = IF b = File(u) THEN bytes ELSE cache[b]
  BY <1>1, <1>4
<1>6. \A v \in DOMAIN lock : File(v) \in Bytes
  BY WantedFiles
<1>7. \A v \in DOMAIN lock : Cached(v) => Cached(v)'
  BY <1>2, <1>4, <1>5, <1>6 DEF Cached, File
<1>8. Cached(u)'
  BY <1>2, <1>4, <1>5 DEF Cached, File
<1>9. FirstRunInv'
  <2>1. u \in DOMAIN lock /\ bytes \in lock[u].hashes /\ UNCHANGED <<runs, place, lock>>
    BY <1>1, <1>2, PackageFacts DEF Fits, LookAt
  <2>2. FirstRunInv
    BY DEF CommandInv
  <2>3. QED
    BY <1>5, <2>1, <2>2 DEF FirstRunInv, File
<1>10. QED
  BY <1>2, <1>3, <1>7, <1>8, <1>9, LookAtInv

LEMMA KeepFailsInv ==
  ASSUME CommandInv, NEW u \in Url, KeepFails(u)
  PROVE  CommandInv'
<1>1. PICK part \in Absent : cache' = [cache EXCEPT ![File(u)] = part]
  BY DEF KeepFails
<1>2. u \in pending /\ LookAt(u) /\ place' \in Over
  BY DEF KeepFails, LookAt, Over
<1>3. part \notin Bytes
  BY CommandAssumption
<1>4. cache' \in [Bytes -> Bytes \cup Absent] /\ NamedByContent'
  BY <1>1, <1>2, <1>3, WrittenInv
<1>5. FirstRunInv'
  BY <1>2 DEF FirstRunInv
<1>6. QED
  BY <1>2, <1>4, <1>5, LookAtInv

\* A new run finds the cache as it was left and everything else as at first.
LEMMA AgainInv ==
  ASSUME CommandInv, Again
  PROVE  CommandInv'
<1>1. wf \in Workflows
  BY DEF CommandInv, Inv, TypeInv
<1>2. Init'
  BY <1>1 DEF Again, Init
<1>3. Inv'
  BY <1>2, InitIsInv
<1>4. ChecksInv'
  BY DEF Again, ChecksInv, AfterExpand, AfterImages
<1>5. PackagesInv'
  BY DEF Again, PackagesInv, NothingYet, NoPackages, Over
<1>6. FirstRunInv' /\ runs' \in Nat \ {0}
  BY DEF CommandInv, Again, FirstRunInv
<1>7. StrayInv'
  BY DEF Again, StrayInv
<1>8. QED
  BY <1>3, <1>4, <1>5, <1>6, <1>7 DEF CommandInv, Again, NamedByContent

\* The checks that only pass or refuse.
LEMMA ChecksStepInv ==
  ASSUME CommandInv,
         Parse \/ Expanded \/ CheckEnv \/ CheckUpgrade \/ CheckKeys \/ PrefetchEnds \/ Die
  PROVE  CommandInv'
<1>1. ChecksInv /\ PackagesInv
  BY DEF CommandInv
<1>2. CASE \E c \in {1, 2, 78} : Refuse(c)
  BY <1>2, MovesInv DEF Refuse, Over
<1>3. CASE Parse /\ Proceed("tier")
  BY <1>1, <1>3, MovesInv DEF Parse, Proceed, PackagesInv, AfterExpand, AfterImages, Over
<1>4. CASE Expanded /\ state = "accepted" /\ Proceed("env")
  BY <1>1, <1>4, MovesInv
     DEF Expanded, Proceed, ChecksInv, PackagesInv, AfterExpand, AfterImages, Over
<1>5. CASE CheckEnv /\ Proceed("images")
  BY <1>1, <1>5, MovesInv
     DEF CheckEnv, Proceed, ChecksInv, PackagesInv, AfterExpand, AfterImages, Over
<1>6. CASE CheckUpgrade /\ Proceed("keys")
  BY <1>1, <1>6, MovesInv
     DEF CheckUpgrade, Proceed, ChecksInv, PackagesInv, AfterExpand, AfterImages, Over
<1>7. CASE CheckKeys /\ Proceed("lockfile")
  BY <1>1, <1>7, MovesInv
     DEF CheckKeys, Proceed, ChecksInv, PackagesInv, AfterExpand, AfterImages, Over
<1>8. CASE PrefetchEnds /\ ~lost /\ Proceed("scheduling")
  BY <1>1, <1>8, MovesInv
     DEF PrefetchEnds, Proceed, ChecksInv, PackagesInv, AfterExpand, AfterImages, Over
<1>9. CASE Die
  BY <1>9, MovesInv DEF Die, Proceed, Over
<1>10. QED
  BY <1>2, <1>3, <1>4, <1>5, <1>6, <1>7, <1>8, <1>9
     DEF Parse, Expanded, CheckEnv, CheckUpgrade, CheckKeys, PrefetchEnds

LEMMA FinishInv ==
  ASSUME CommandInv, Finish
  PROVE  CommandInv'
BY MovesInv DEF Finish, Over

LEMMA CommandStutters ==
  ASSUME CommandInv, UNCHANGED allVars
  PROVE  CommandInv'
<1>1. UNCHANGED <<vars, cmd, place, code, tier, digests, lock, pending, lost, cache, runs>>
  BY DEF allVars, preVars
<1>2. Inv'
  BY <1>1, StepInv DEF CommandInv
<1>3. ChecksInv'
  BY <1>1 DEF CommandInv, ChecksInv, IsolatedEnough, vars
<1>4. PackagesInv'
  BY <1>1 DEF CommandInv, PackagesInv, NothingYet, Cached, File
<1>5. FirstRunInv' /\ StrayInv'
  BY <1>1 DEF CommandInv, FirstRunInv, StrayInv, Astray, vars
<1>6. QED
  BY <1>1, <1>2, <1>3, <1>4, <1>5 DEF CommandInv, NamedByContent

LEMMA CommandStepInv == CommandInv /\ [CommandNext]_allVars => CommandInv'
<1> SUFFICES ASSUME CommandInv, [CommandNext]_allVars PROVE CommandInv'
  OBVIOUS
<1>1. CASE Parse \/ Expanded \/ CheckEnv \/ CheckUpgrade \/ CheckKeys \/ PrefetchEnds \/ Die
  BY <1>1, ChecksStepInv
<1>2. CASE ResolveTier
  BY <1>2, ResolveTierInv
<1>3. CASE Expanding
  BY <1>3, ExpandingInv
<1>4. CASE FindImages
  BY <1>4, FindImagesInv
<1>5. CASE ReadLockfile
  BY <1>5, ReadLockfileInv
<1>6. CASE \E u \in Url : SkipCached(u) \/ Lose(u) \/ Keep(u) \/ KeepFails(u)
  BY <1>6, SkipCachedInv, LoseInv, KeepStepInv, KeepFailsInv
<1>7. CASE Finish
  BY <1>7, FinishInv
<1>8. CASE Again
  BY <1>8, AgainInv
<1>9. CASE Ended \/ UNCHANGED allVars
  BY <1>9, CommandStutters DEF Ended
<1>10. QED
  BY <1>1, <1>2, <1>3, <1>4, <1>5, <1>6, <1>7, <1>8, <1>9 DEF CommandNext, Preflight, Checks

LEMMA CommandSpecInv == CommandSpec => []CommandInv
<1>1. QED
  BY CommandInitInv, CommandStepInv, PTL DEF CommandSpec

-----------------------------------------------------------------------------
\* What every check has established by the time of the schedule.
LEMMA PreparedByThen == CommandInv => StartsPrepared
<1> SUFFICES ASSUME CommandInv, place = "scheduling"
             PROVE  /\ state = "accepted" /\ AcyclicJobs
                    /\ tier \in Tier /\ IsolatedEnough
                    /\ \A j \in keep : cmd.image[j] \in digests
                    /\ \A u \in DOMAIN lock : Cached(u) /\ (runs = 1 => Verified(u))
  BY DEF StartsPrepared
<1>1. /\ state = "accepted"
      /\ tier \in Tier /\ IsolatedEnough
      /\ \A j \in keep : cmd.image[j] \in digests
  BY DEF CommandInv, ChecksInv, AfterExpand, AfterImages
<1>2. \A u \in DOMAIN lock : Cached(u)
  BY DEF CommandInv, PackagesInv, Over
<1>3. keep \subseteq Black
  BY <1>1 DEF CommandInv, Inv, PhaseInv, TypeInv, Black
<1>4. AcyclicJobs
  BY <1>3 DEF CommandInv, Inv, BlackAcyclic, AcyclicJobs
<1>5. ASSUME NEW u \in DOMAIN lock, runs = 1 PROVE Verified(u)
  <2>1. File(u) \in Bytes /\ cache[File(u)] # "none"
    BY <1>2, WantedFiles DEF Cached
  <2>2. PICK v \in DOMAIN lock : lock[v].first = File(u) /\ cache[File(u)] \in lock[v].hashes
    BY <1>5, <2>1 DEF CommandInv, FirstRunInv, Over
  <2>3. QED
    BY <2>2 DEF Verified, File
<1>6. QED
  BY <1>1, <1>2, <1>4, <1>5

\* For any workflow and command line: a task starts only when the search has accepted the
\* jobs, the isolation is what --tier says or else what every job declares, every image is
\* known, and every package of the one lockfile read has a file; in the first run with a
\* cache a file that has been verified, in later ones any that is not empty.
THEOREM CommandStartsPrepared == CommandSpec => []StartsPrepared
BY PreparedByThen, CommandSpecInv, PTL

\* For any lockfiles and any number of runs with one cache, ended anywhere: each file holds
\* what some lockfile allows under its name, or is missing or cut.
THEOREM CommandNamedByContent == CommandSpec => []NamedByContent
<1>1. CommandInv => NamedByContent
  BY DEF CommandInv
<1>2. QED
  BY <1>1, CommandSpecInv, PTL

\* No step replaces what has been verified.
LEMMA VerifiedStep ==
  CommandInv /\ [CommandNext]_allVars
    => [\A b \in Bytes : cache[b] \in Bytes => cache'[b] = cache[b]]_allVars
<1> SUFFICES ASSUME CommandInv, CommandNext, NEW b \in Bytes, cache[b] \in Bytes
             PROVE  cache'[b] = cache[b]
  OBVIOUS
<1>1. CASE \E u \in Url : Keep(u) \/ KeepFails(u)
  <2>1. PICK u \in Url : Keep(u) \/ KeepFails(u)
    BY <1>1
  <2>2. /\ ~Cached(u)
        /\ \E put \in Bytes \cup Absent : cache' = [cache EXCEPT ![File(u)] = put]
    BY <2>1 DEF Keep, KeepFails
  <2>3. File(u) # b
    BY <2>2, CommandAssumption DEF Cached, Absent
  <2>4. QED
    BY <2>2, <2>3 DEF CommandInv
<1>2. CASE ~(\E u \in Url : Keep(u) \/ KeepFails(u))
  <2>1. UNCHANGED cache
    BY <1>2 DEF CommandNext, Preflight, Checks, Parse, ResolveTier, Expanding, Expanded, CheckEnv,
                FindImages, CheckUpgrade, CheckKeys, ReadLockfile, SkipCached, Lose,
                PrefetchEnds, Finish, Die, Again, Ended, Refuse, Proceed, allVars, preVars
  <2>2. QED
    BY <2>1
<1>3. QED
  BY <1>1, <1>2

\* Verified bytes stay as they are, across all runs.
THEOREM CommandVerifiedStays == CommandSpec => VerifiedStays
BY VerifiedStep, CommandSpecInv, PTL DEF CommandSpec, VerifiedStays

-----------------------------------------------------------------------------
(* parse, and the command after it *)

NeedsOf(j) == file.jobs[j].needs

\* Neither the job nor any job upstream of it needs what is no job.
Clean(j) == \A u \in {j} \cup Upstream(j) : Inherited \notin NeedsOf(u)

\* Some job upstream of a publish job makes what it publishes, and looking finds it.
Made(j) == file.jobs[j].publishes =>
             /\ \E u \in Upstream(j) : \E name \in file.jobs[u].out :
                  Matches(name, file.jobs[j].artifact)
             /\ Clean(j)

Resolves(j) == NeedsOf(j) \subseteq (Job \ {j}) \cup {Inherited}

\* What each loop of parse has established for the jobs before the one it is at.
LoopsInv ==
  /\ loop # "load" => file.sound
  /\ loop = "jobs" => \A j \in Job : j < at => Complete(file.jobs[j])
  /\ loop \in {"needs", "publish", "upstream"} => \A j \in Job : Complete(file.jobs[j])
  /\ loop = "needs" => \A j \in Job : j < at => Resolves(j)
  /\ loop \in {"publish", "upstream"} => \A j \in Job : /\ Resolves(j)
                                                        /\ j < at => Made(j)

\* The closure: nothing but what is upstream, and all of it once the stack is empty.
ClosureInv ==
  loop = "upstream" =>
    /\ at \in Job /\ file.jobs[at].publishes
    /\ NeedsOf(at) \subseteq reachable \cup unvisited
    /\ \A r \in reachable : NeedsOf(r) \subseteq reachable \cup unvisited
    /\ reachable \subseteq Upstream(at)
    /\ unvisited \subseteq Upstream(at) \cup {Inherited}
    /\ Inherited \in unvisited => ~Clean(at)

\* What parse has said of the file, as long as the run goes on and when it was refused.
VerdictInv ==
  /\ place \notin {"parse", "refused"} => Valid
  /\ (place = "refused" /\ code = 1 /\ tier = "none") => ~Valid

SchemaInv == CommandInv /\ SchemaTypeOK /\ LoopsInv /\ ClosureInv /\ VerdictInv

-----------------------------------------------------------------------------
\* Upstream holds what the job needs, and what they need.
LEMMA UpstreamIsClosed ==
  ASSUME NEW j \in Job, \A i \in Job : Resolves(i)
  PROVE  /\ Upstream(j) \subseteq Job
         /\ NeedsOf(j) \subseteq Upstream(j) \cup {Inherited}
         /\ \A u \in Upstream(j) : NeedsOf(u) \subseteq Upstream(j) \cup {Inherited}
<1>1. \A i \in Job : NeedsOf(i) \subseteq Needs(i) \cup {Inherited}
  BY DEF Resolves, Needs, NeedsOf
<1>2. \A i \in Job : Needs(i) \subseteq Job
  BY DEF Needs
<1>3. Needs(j) \subseteq Upstream(j)
  BY <1>2 DEF Upstream
<1>4. Upstream(j) \subseteq Job
  BY DEF Upstream
<1>5. ASSUME NEW u \in Upstream(j), NEW v \in Needs(u)
      PROVE  v \in Upstream(j)
  BY <1>2, <1>4, <1>5 DEF Upstream
<1>6. QED
  BY <1>1, <1>3, <1>4, <1>5

\* And it is within anything else that does.
LEMMA UpstreamIsLeast ==
  ASSUME NEW j \in Job, NEW S \in SUBSET Job,
         NeedsOf(j) \subseteq S, \A s \in S : NeedsOf(s) \subseteq S
  PROVE  Upstream(j) \subseteq S
BY DEF Upstream, Needs, NeedsOf

-----------------------------------------------------------------------------
(* Every step is one of the command's, or none of its *)

\* What parse does is the command's first check, once, at its end.
LEMMA SchemaStepIsCommandStep ==
  ASSUME SchemaNext
  PROVE  CommandNext \/ UNCHANGED allVars
<1>1. CASE ParseFile
  <2>1. ASSUME NEW to, Parsed(to) PROVE CommandNext
    BY <2>1 DEF Parsed, CommandNext, Preflight
  <2>2. ASSUME NEW l, NEW j, GoOn(l, j) PROVE UNCHANGED allVars
    BY <2>2 DEF GoOn
  <2>3. QED
    BY <1>1, <2>1, <2>2 DEF ParseFile, Load, NormalizeJob, ResolveNeeds, FindPublishJob,
                            VisitUpstream, UpstreamThrows, MatchArtifact
<1>2. CASE AfterParse
  BY <1>2 DEF AfterParse, CommandNext, Preflight
<1>3. QED
  BY <1>1, <1>2 DEF SchemaNext

\* For any workflow files: the command with parse in it is the command that finds by chance
\* whether its file is good.
THEOREM SchemaImplementsCommand == SchemaSpec => CommandInit /\ [][CommandNext]_allVars
<1>1. SchemaInit => CommandInit
  BY DEF SchemaInit
<1>2. [SchemaNext]_schemaVars => [CommandNext]_allVars
  BY SchemaStepIsCommandStep DEF schemaVars
<1>3. QED
  BY <1>1, <1>2, PTL DEF SchemaSpec

LEMMA SchemaInitInv == SchemaInit => SchemaInv
<1> SUFFICES ASSUME SchemaInit PROVE SchemaInv
  OBVIOUS
<1>1. CommandInv
  BY CommandInitInv DEF SchemaInit
<1>2. place = "parse" /\ code = 0
  BY DEF SchemaInit, CommandInit
<1>3. SchemaTypeOK
  BY WorkflowsAssumption DEF SchemaInit, SchemaTypeOK
<1>4. LoopsInv /\ ClosureInv
  BY DEF SchemaInit, LoopsInv, ClosureInv
<1>5. VerdictInv
  BY <1>2 DEF VerdictInv
<1>6. QED
  BY <1>1, <1>3, <1>4, <1>5 DEF SchemaInv

-----------------------------------------------------------------------------
(* The steps *)

LEMMA ValidIsOfTheFile ==
  ASSUME UNCHANGED file
  PROVE  Valid' <=> Valid
BY DEF Valid, Upstream, Needs, Complete, Matches

\* After parse a run is refused with exit code 1 only once it has a tier.
LEMMA LaterRefusals ==
  ASSUME SchemaInv, AfterParse
  PROVE  /\ place # "parse"
         /\ place' \notin {"parse", "refused"} => place \notin {"parse", "refused"}
         /\ (place' = "refused" /\ code' = 1 /\ tier' = "none")
              => (place = "refused" /\ code = 1 /\ tier = "none")
<1>1. place \in {"expand"} \cup AfterExpand => tier # "none"
  BY DEF SchemaInv, CommandInv, ChecksInv, Tier
<1>2. CASE ResolveTier
  BY <1>2 DEF ResolveTier, Refuse
<1>3. CASE Expanding \/ Expanded \/ CheckEnv
  BY <1>1, <1>3 DEF Expanding, Expanded, CheckEnv, Refuse, Proceed, preVars, AfterExpand
<1>4. CASE FindImages \/ CheckUpgrade \/ CheckKeys
  BY <1>1, <1>4 DEF FindImages, CheckUpgrade, CheckKeys, Refuse, Proceed, AfterExpand
<1>5. CASE ReadLockfile \/ PrefetchEnds
  BY <1>1, <1>5 DEF ReadLockfile, PrefetchEnds, Refuse, Proceed, AfterExpand
<1>6. CASE \E u \in Url : SkipCached(u) \/ Lose(u) \/ Keep(u) \/ KeepFails(u)
  BY <1>1, <1>6 DEF SkipCached, Lose, Keep, KeepFails, LookAt, AfterExpand
<1>7. CASE Finish \/ Die \/ Again \/ Ended
  BY <1>7 DEF Finish, Die, Again, Ended, Proceed, Over, allVars, preVars
<1>8. QED
  BY <1>2, <1>3, <1>4, <1>5, <1>6, <1>7 DEF AfterParse, Checks

LEMMA AfterParseInv ==
  ASSUME SchemaInv, AfterParse
  PROVE  SchemaInv'
<1>1. CommandInv'
  BY CommandStepInv DEF SchemaInv, AfterParse, CommandNext, Preflight
<1>2. UNCHANGED <<file, loop, at, unvisited, reachable>>
  BY DEF AfterParse, fileVars
<1>3. loop = "load" /\ place # "parse"
  BY LaterRefusals DEF SchemaInv, SchemaTypeOK
<1>4. UNCHANGED cmd
  BY DEF AfterParse, Checks, ResolveTier, Expanding, Expanded, CheckEnv, FindImages,
         CheckUpgrade, CheckKeys, ReadLockfile, SkipCached, Lose, Keep, KeepFails, LookAt,
         PrefetchEnds, Finish, Die, Again, Ended, Refuse, Proceed, allVars, preVars
<1>5. SchemaTypeOK'
  BY <1>2, <1>3, <1>4 DEF SchemaInv, SchemaTypeOK, Read
<1>6. LoopsInv' /\ ClosureInv'
  BY <1>2, <1>3 DEF LoopsInv, ClosureInv
<1>7. VerdictInv'
  BY <1>2, ValidIsOfTheFile, LaterRefusals DEF SchemaInv, VerdictInv
<1>8. QED
  BY <1>1, <1>5, <1>6, <1>7 DEF SchemaInv

\* Parsing ends with what the file deserves.
LEMMA ParsedInv ==
  ASSUME SchemaInv, UNCHANGED file, NEW to \in {"tier", "refused"}, Parsed(to),
         IF to = "tier" THEN Valid ELSE ~Valid
  PROVE  SchemaInv'
<1>1. CommandInv'
  BY CommandStepInv DEF SchemaInv, Parsed, CommandNext, Preflight
<1>2. UNCHANGED cmd /\ place' = to
  BY DEF Parsed, Parse, Refuse, Proceed
<1>3. SchemaTypeOK'
  BY <1>2, WorkflowsAssumption DEF SchemaInv, SchemaTypeOK, Parsed
<1>4. LoopsInv' /\ ClosureInv'
  BY DEF Parsed, LoopsInv, ClosureInv
<1>5. VerdictInv'
  BY <1>2, ValidIsOfTheFile DEF VerdictInv
<1>6. QED
  BY <1>1, <1>3, <1>4, <1>5 DEF SchemaInv

\* Parsing goes on with its own state in order.
LEMMA ParsingInv ==
  ASSUME SchemaInv, place = "parse", UNCHANGED <<allVars, file>>,
         loop' \in {"load", "jobs", "needs", "publish", "upstream"},
         at' \in 1..(NJobs + 1), unvisited' \subseteq Job \cup {Inherited},
         reachable' \subseteq Job,
         LoopsInv', ClosureInv'
  PROVE  SchemaInv'
<1>1. CommandInv'
  BY CommandStepInv DEF SchemaInv
<1>2. UNCHANGED <<cmd, place, code, tier>>
  BY DEF allVars, preVars
<1>3. SchemaTypeOK'
  BY <1>2 DEF SchemaInv, SchemaTypeOK
<1>4. VerdictInv'
  BY <1>2, ValidIsOfTheFile DEF SchemaInv, VerdictInv
<1>5. QED
  BY <1>1, <1>3, <1>4 DEF SchemaInv

\* What GoOn leaves to be shown.
LEMMA GoOnInv ==
  ASSUME SchemaInv, place = "parse", UNCHANGED file,
         NEW l \in {"jobs", "needs", "publish"}, NEW j \in 1..(NJobs + 1), GoOn(l, j), LoopsInv'
  PROVE  SchemaInv'
<1>1. /\ UNCHANGED <<allVars, unvisited, reachable>>
      /\ loop' = l /\ at' = j
  BY DEF GoOn
<1>2. unvisited' \subseteq Job \cup {Inherited} /\ reachable' \subseteq Job
  BY <1>1 DEF SchemaInv, SchemaTypeOK
<1>3. ClosureInv'
  BY <1>1 DEF ClosureInv
<1>4. QED
  BY <1>1, <1>2, <1>3, ParsingInv

LEMMA LoadInv ==
  ASSUME SchemaInv, Load
  PROVE  SchemaInv'
<1>1. place = "parse" /\ UNCHANGED file
  BY DEF Load, Reading
<1>2. CASE file.sound
  <2>1. GoOn("jobs", 1)
    BY <1>2 DEF Load
  <2>2. LoopsInv'
    BY <1>1, <1>2, <2>1, WorkflowsAssumption DEF GoOn, LoopsInv, Job
  <2>3. QED
    BY <1>1, <2>1, <2>2, GoOnInv, WorkflowsAssumption
<1>3. CASE ~file.sound
  BY <1>1, <1>3, ParsedInv DEF Load, Valid
<1>4. QED
  BY <1>2, <1>3

\* A loop over the jobs is at one of them or past the last.
LEMMA WhereTheLoopIs ==
  ASSUME SchemaInv
  PROVE  /\ at > NJobs => \A j \in Job : j < at
         /\ ~(at > NJobs) => /\ at \in Job /\ at + 1 \in 1..(NJobs + 1)
                             /\ \A j \in Job : j < at + 1 <=> (j < at \/ j = at)
         /\ 1 \in 1..(NJobs + 1) /\ \A j \in Job : ~(j < 1)
BY WorkflowsAssumption DEF SchemaInv, SchemaTypeOK, Job

LEMMA NormalizeJobInv ==
  ASSUME SchemaInv, NormalizeJob
  PROVE  SchemaInv'
<1>1. place = "parse" /\ loop = "jobs" /\ UNCHANGED file
  BY DEF NormalizeJob, Reading
<1>2. file.sound /\ \A j \in Job : j < at => Complete(file.jobs[j])
  BY <1>1 DEF SchemaInv, LoopsInv
<1>3. CASE at > NJobs
  <2>1. GoOn("needs", 1)
    BY <1>3 DEF NormalizeJob
  <2>2. LoopsInv'
    BY <1>1, <1>2, <1>3, <2>1, WhereTheLoopIs DEF GoOn, LoopsInv, Complete
  <2>3. QED
    BY <1>1, <2>1, <2>2, WhereTheLoopIs, GoOnInv
<1>4. CASE ~(at > NJobs) /\ Complete(Raw)
  <2>1. GoOn("jobs", at + 1)
    BY <1>4 DEF NormalizeJob
  <2>2. LoopsInv'
    BY <1>1, <1>2, <1>4, <2>1, WhereTheLoopIs DEF GoOn, LoopsInv, Complete, Raw
  <2>3. QED
    BY <1>1, <1>4, <2>1, <2>2, WhereTheLoopIs, GoOnInv
<1>5. CASE ~(at > NJobs) /\ ~Complete(Raw)
  <2>1. ~Valid
    BY <1>5, WhereTheLoopIs DEF Valid, Raw
  <2>2. QED
    BY <1>1, <1>5, <2>1, ParsedInv DEF NormalizeJob
<1>6. QED
  BY <1>3, <1>4, <1>5

LEMMA ResolveNeedsInv ==
  ASSUME SchemaInv, ResolveNeeds
  PROVE  SchemaInv'
<1>1. place = "parse" /\ loop = "needs" /\ UNCHANGED file
  BY DEF ResolveNeeds, Reading
<1>2. /\ file.sound /\ \A j \in Job : Complete(file.jobs[j])
      /\ \A j \in Job : j < at => Resolves(j)
  BY <1>1 DEF SchemaInv, LoopsInv
<1>3. CASE at > NJobs
  <2>1. GoOn("publish", 1)
    BY <1>3 DEF ResolveNeeds
  <2>2. LoopsInv'
    BY <1>1, <1>2, <1>3, <2>1, WhereTheLoopIs
       DEF GoOn, LoopsInv, Complete, Resolves, NeedsOf
  <2>3. QED
    BY <1>1, <2>1, <2>2, WhereTheLoopIs, GoOnInv
<1>4. CASE ~(at > NJobs) /\ Resolves(at)
  <2>1. GoOn("needs", at + 1)
    BY <1>4, WhereTheLoopIs, FilesAssumption DEF ResolveNeeds, IsThere, Raw, Resolves, NeedsOf
  <2>2. LoopsInv'
    BY <1>1, <1>2, <1>4, <2>1, WhereTheLoopIs
       DEF GoOn, LoopsInv, Complete, Resolves, NeedsOf
  <2>3. QED
    BY <1>1, <1>4, <2>1, <2>2, WhereTheLoopIs, GoOnInv
<1>5. CASE ~(at > NJobs) /\ ~Resolves(at)
  <2>1. ~Valid
    BY <1>5, WhereTheLoopIs DEF Valid, Resolves, NeedsOf
  <2>2. QED
    BY <1>1, <1>5, <2>1, ParsedInv DEF ResolveNeeds, IsThere, Raw, Resolves, NeedsOf
<1>6. QED
  BY <1>3, <1>4, <1>5

\* What the loop over the publish jobs knows.
PublishLoop == /\ place = "parse" /\ file.sound
               /\ \A j \in Job : Complete(file.jobs[j]) /\ Resolves(j)
               /\ \A j \in Job : j < at => Made(j)

LEMMA InPublishLoop ==
  ASSUME SchemaInv, Reading(loop), loop \in {"publish", "upstream"}
  PROVE  PublishLoop
BY DEF SchemaInv, LoopsInv, Reading, PublishLoop

LEMMA FindPublishJobInv ==
  ASSUME SchemaInv, FindPublishJob
  PROVE  SchemaInv'
<1>1. place = "parse" /\ loop = "publish" /\ UNCHANGED file
  BY DEF FindPublishJob, Reading
<1>2. PublishLoop
  BY <1>1, InPublishLoop DEF FindPublishJob
<1>3. CASE at > NJobs
  <2>1. \A j \in Job : Made(j)
    BY <1>2, <1>3, WhereTheLoopIs DEF PublishLoop
  <2>2. Valid
    BY <1>2, <2>1 DEF PublishLoop, Made, Clean, Resolves, NeedsOf, Valid
  <2>3. QED
    BY <1>1, <1>3, <2>2, ParsedInv DEF FindPublishJob
<1>4. CASE ~(at > NJobs) /\ ~Raw.publishes
  <2>1. GoOn("publish", at + 1)
    BY <1>4 DEF FindPublishJob
  <2>2. Made(at)
    BY <1>4 DEF Made, Raw
  <2>3. LoopsInv'
    BY <1>1, <1>2, <1>4, <2>1, <2>2, WhereTheLoopIs
       DEF GoOn, PublishLoop, LoopsInv, Complete, Resolves, NeedsOf, Made, Clean, Upstream, Needs, Matches
  <2>4. QED
    BY <1>1, <1>4, <2>1, <2>3, WhereTheLoopIs, GoOnInv
<1>5. CASE ~(at > NJobs) /\ Raw.publishes
  <2>1. /\ unvisited' = NeedsOf(at) /\ reachable' = {}
        /\ loop' = "upstream"
        /\ UNCHANGED <<allVars, at>>
    BY <1>5 DEF FindPublishJob, Raw, NeedsOf
  <2>2. /\ at \in Job /\ NeedsOf(at) \subseteq Job \cup {Inherited}
        /\ NeedsOf(at) \subseteq Upstream(at) \cup {Inherited}
        /\ Inherited \in NeedsOf(at) => ~Clean(at)
    BY <1>2, <1>5, WhereTheLoopIs, UpstreamIsClosed DEF PublishLoop, Resolves, Clean
  <2>3. LoopsInv'
    BY <1>1, <1>2, <2>1
       DEF PublishLoop, LoopsInv, Complete, Resolves, NeedsOf, Made, Clean, Upstream, Needs, Matches
  <2>4. ClosureInv'
    BY <1>1, <1>5, <2>1, <2>2 DEF ClosureInv, NeedsOf, Raw, Clean, Upstream, Needs
  <2>5. at' \in 1..(NJobs + 1)
    BY <2>1 DEF SchemaInv, SchemaTypeOK
  <2>6. QED
    BY <1>1, <2>1, <2>2, <2>3, <2>4, <2>5, ParsingInv
<1>6. QED
  BY <1>3, <1>4, <1>5

\* The stack and what has been reached lose no job, and gain what the job popped needs.
LEMMA VisitUpstreamInv ==
  ASSUME SchemaInv, VisitUpstream
  PROVE  SchemaInv'
<1>1. place = "parse" /\ loop = "upstream" /\ UNCHANGED <<file, allVars, loop, at>>
  BY DEF VisitUpstream, Reading
<1>2. PublishLoop
  BY <1>1, InPublishLoop DEF VisitUpstream
<1>3. PICK j \in unvisited \cap Job :
        /\ unvisited' = (unvisited \ {j}) \cup (IF j \in reachable THEN {} ELSE NeedsOf(j))
        /\ reachable' = reachable \cup {j}
  BY DEF VisitUpstream, NeedsOf
<1>4. ClosureInv /\ at \in Job /\ at \in 1..(NJobs + 1)
  BY <1>1 DEF SchemaInv, SchemaTypeOK, ClosureInv
<1>5. j \in Upstream(at)
  BY <1>1, <1>3, <1>4, FilesAssumption DEF ClosureInv
<1>6. /\ Upstream(at) \subseteq Job
      /\ NeedsOf(j) \subseteq Upstream(at) \cup {Inherited}
  BY <1>2, <1>4, <1>5, UpstreamIsClosed DEF PublishLoop
<1>7. /\ reachable' \subseteq Upstream(at) /\ unvisited' \subseteq Upstream(at) \cup {Inherited}
      /\ reachable \cup unvisited \subseteq reachable' \cup unvisited'
      /\ Inherited \in unvisited' => ~Clean(at)
  BY <1>1, <1>3, <1>4, <1>5, <1>6 DEF ClosureInv, Clean
<1>8. \A r \in reachable' : NeedsOf(r) \subseteq reachable' \cup unvisited'
  <2>1. SUFFICES ASSUME NEW r \in reachable' PROVE NeedsOf(r) \subseteq reachable' \cup unvisited'
    OBVIOUS
  <2>2. CASE r \in reachable
    BY <1>1, <1>4, <1>7, <2>2 DEF ClosureInv
  <2>3. CASE r \notin reachable
    BY <1>3, <2>3
  <2>4. QED
    BY <2>2, <2>3
<1>9. ClosureInv'
  BY <1>1, <1>4, <1>7, <1>8 DEF ClosureInv, NeedsOf, Clean, Upstream, Needs
<1>10. LoopsInv'
  BY <1>1, <1>2
     DEF PublishLoop, LoopsInv, Complete, Resolves, NeedsOf, Made, Clean, Upstream, Needs, Matches
<1>11. QED
  BY <1>1, <1>4, <1>6, <1>7, <1>9, <1>10, ParsingInv

\* What is no job ends the parse, of a file that has it upstream of a publish job.
LEMMA UpstreamThrowsInv ==
  ASSUME SchemaInv, UpstreamThrows
  PROVE  SchemaInv'
<1>1. UNCHANGED file /\ Parsed("refused")
  BY DEF UpstreamThrows, Reading
<1>2. at \in Job /\ file.jobs[at].publishes /\ ~Clean(at)
  BY DEF SchemaInv, ClosureInv, UpstreamThrows, Reading
<1>3. ~Valid
  BY <1>2 DEF Valid, Clean, NeedsOf
<1>4. QED
  BY <1>1, <1>3, ParsedInv

\* With nothing left on the stack, what has been reached is what is upstream, jobs only.
LEMMA ReachedIsUpstream ==
  ASSUME SchemaInv, Reading("upstream"), unvisited = {}
  PROVE  at \in Job /\ file.jobs[at].publishes /\ reachable = Upstream(at) /\ Clean(at)
<1>1. /\ at \in Job /\ file.jobs[at].publishes
      /\ NeedsOf(at) \subseteq reachable
      /\ \A r \in reachable : NeedsOf(r) \subseteq reachable
      /\ reachable \subseteq Upstream(at)
      /\ reachable \subseteq Job
  BY DEF SchemaInv, SchemaTypeOK, ClosureInv, Reading
<1>2. Upstream(at) \subseteq reachable
  BY <1>1, UpstreamIsLeast
<1>3. Clean(at)
  BY <1>1, <1>2, FilesAssumption DEF Clean
<1>4. QED
  BY <1>1, <1>2, <1>3

LEMMA MatchArtifactInv ==
  ASSUME SchemaInv, MatchArtifact
  PROVE  SchemaInv'
<1>1. place = "parse" /\ loop = "upstream" /\ UNCHANGED file
  BY DEF MatchArtifact, Reading
<1>2. PublishLoop
  BY <1>1, InPublishLoop DEF MatchArtifact
<1>3. at \in Job /\ Raw.publishes /\ reachable = Upstream(at) /\ Clean(at)
  BY ReachedIsUpstream DEF MatchArtifact, Raw
<1>4. (\E name \in Produced : Matches(name, Raw.artifact)) <=> Made(at)
  BY <1>3 DEF Produced, Made, Raw
<1>5. CASE Made(at)
  <2>1. GoOn("publish", at + 1)
    BY <1>4, <1>5 DEF MatchArtifact
  <2>2. ~(at > NJobs)
    BY <1>3, WorkflowsAssumption DEF Job
  <2>3. LoopsInv'
    BY <1>1, <1>2, <1>5, <2>1, <2>2, WhereTheLoopIs
       DEF GoOn, PublishLoop, LoopsInv, Complete, Resolves, NeedsOf, Made, Clean, Upstream, Needs, Matches
  <2>4. QED
    BY <1>1, <2>1, <2>2, <2>3, WhereTheLoopIs, GoOnInv
<1>6. CASE ~Made(at)
  <2>1. ~Valid
    BY <1>3, <1>6 DEF Valid, Made, Clean, NeedsOf
  <2>2. QED
    BY <1>1, <1>4, <1>6, <2>1, ParsedInv DEF MatchArtifact
<1>7. QED
  BY <1>5, <1>6

LEMMA SchemaStutters ==
  ASSUME SchemaInv, UNCHANGED schemaVars
  PROVE  SchemaInv'
<1>1. UNCHANGED <<allVars, file, loop, at, unvisited, reachable, cmd, place, code, tier>>
  BY DEF schemaVars, fileVars, allVars, preVars
<1>2. CommandInv'
  BY <1>1, CommandStepInv DEF SchemaInv
<1>3. SchemaTypeOK'
  BY <1>1 DEF SchemaInv, SchemaTypeOK
<1>4. LoopsInv'
  BY <1>1 DEF SchemaInv, LoopsInv, Complete, Resolves, NeedsOf, Made, Clean, Upstream, Needs, Matches
<1>5. ClosureInv'
  BY <1>1 DEF SchemaInv, ClosureInv, NeedsOf, Clean, Upstream, Needs
<1>6. VerdictInv'
  BY <1>1, ValidIsOfTheFile DEF SchemaInv, VerdictInv
<1>7. QED
  BY <1>2, <1>3, <1>4, <1>5, <1>6 DEF SchemaInv

LEMMA SchemaStepInv == SchemaInv /\ [SchemaNext]_schemaVars => SchemaInv'
<1> SUFFICES ASSUME SchemaInv, [SchemaNext]_schemaVars PROVE SchemaInv'
  OBVIOUS
<1>1. CASE ParseFile
  BY <1>1, LoadInv, NormalizeJobInv, ResolveNeedsInv, FindPublishJobInv, VisitUpstreamInv,
     UpstreamThrowsInv, MatchArtifactInv DEF ParseFile
<1>2. CASE AfterParse
  BY <1>2, AfterParseInv
<1>3. CASE UNCHANGED schemaVars
  BY <1>3, SchemaStutters
<1>4. QED
  BY <1>1, <1>2, <1>3 DEF SchemaNext

LEMMA SchemaSpecInv == SchemaSpec => []SchemaInv
BY SchemaInitInv, SchemaStepInv, PTL DEF SchemaSpec

-----------------------------------------------------------------------------
(* The theorems *)

\* For any workflow files, the state of parse is what it is said to be, and what the
\* command works with is what parse makes of the file.
THEOREM SchemaIsTyped == SchemaSpec => []SchemaTypeOK
<1>1. SchemaInv => SchemaTypeOK
  BY DEF SchemaInv
<1>2. QED
  BY <1>1, SchemaSpecInv, PTL

\* What a run that schedules is isolated by, when the command line asks for nothing.
LEMMA IsolatedAsAsked ==
  ASSUME SchemaInv, place = "scheduling", cmd.flag = "none",
         NEW j \in Job \ cmd.publish, AsksFor(j) # "none"
  PROVE  Rank[tier] >= Rank[AsksFor(j)]
<1>1. cmd = Read(file)
  BY DEF SchemaInv, SchemaTypeOK
<1>2. cmd.publish = {i \in Job : file.jobs[i].publishes} /\ cmd.tier = [i \in Job |-> TierOfJob(file, i)]
  BY <1>1 DEF Read
<1>3. ~file.jobs[j].publishes /\ cmd.tier[j] = TierOfJob(file, j)
  BY <1>2
<1>4. cmd.tier[j] = AsksFor(j)
  BY <1>3 DEF TierOfJob, AsksFor
<1>5. IsolatedEnough
  BY DEF SchemaInv, CommandInv, ChecksInv, AfterExpand
<1>6. QED
  BY <1>4, <1>5 DEF IsolatedEnough

\* A run of --job that schedules has kept no job that needs what is no job.
LEMMA KeptNeedJobs ==
  ASSUME SchemaInv, place = "scheduling", wf.only # 0, NEW j \in keep
  PROVE  Inherited \notin file.jobs[j].needs
<1>1. ~Astray /\ j \in Job
  BY DEF SchemaInv, CommandInv, ChecksInv, AfterExpand, StrayInv, Inv, TypeInv
<1>2. cmd.stray = {i \in Job : Inherited \in file.jobs[i].needs}
  BY DEF SchemaInv, SchemaTypeOK, Read
<1>3. QED
  BY <1>1, <1>2 DEF Astray

\* For any number of jobs, any needs among them, around cycles too, and any names: parse
\* refuses exactly the files that Valid finds something wrong with, a need with a name that
\* every object has being wrong only upstream of a publish job; a run of --job that keeps a
\* job with such a need schedules nothing; and a run that schedules is isolated as every job
\* of its file asks.
THEOREM SchemaRunsOnlyValidFiles == SchemaSpec => []RunsOnlyValidFiles
<1>1. SchemaInv => RunsOnlyValidFiles
  BY IsolatedAsAsked, KeptNeedJobs DEF SchemaInv, VerdictInv, RunsOnlyValidFiles
<1>2. QED
  BY <1>1, SchemaSpecInv, PTL

\* What the command promises it promises with parse in it, for any files: the search that
\* follows parse and the checks up to the schedule, and the cache over any number of runs.
THEOREM SchemaStartsPrepared ==
  SchemaSpec => [](AcceptedIsAcyclic /\ CycleIsReal /\ KeepsWhatIsNeeded /\ StartsPrepared)
<1>1. SchemaInv => AcceptedIsAcyclic /\ CycleIsReal /\ KeepsWhatIsNeeded /\ StartsPrepared
  BY AcyclicOnceAccepted, ClosedOnceKept, PreparedByThen DEF SchemaInv, CommandInv, Inv
<1>2. QED
  BY <1>1, SchemaSpecInv, PTL

\* Files of the cache are named by what they hold, and verified ones stay, across all runs
\* of any files.
THEOREM SchemaKeepsTheCache == SchemaSpec => []NamedByContent /\ VerifiedStays
<1>1. SchemaInv => NamedByContent
  BY DEF SchemaInv, CommandInv
<1>2. SchemaInv /\ [SchemaNext]_schemaVars
        => [\A b \in Bytes : cache[b] \in Bytes => cache'[b] = cache[b]]_allVars
  <2>1. [SchemaNext]_schemaVars => [CommandNext]_allVars
    BY SchemaStepIsCommandStep DEF schemaVars
  <2>2. QED
    BY <2>1, VerifiedStep DEF SchemaInv
<1>3. QED
  BY <1>1, <1>2, SchemaSpecInv, PTL DEF SchemaSpec, VerifiedStays

-----------------------------------------------------------------------------
(* What the scheduler is given *)

\* A plan of N tasks, whatever their kinds and the options are.
PlanOf(N) == INSTANCE TaskPlan WITH NTasks <- N, Plans <- {}

\* However the tasks of a run are numbered, who waits for whom is a plan as TaskPlan has them.
TasksAreAPlan ==
  place = "scheduling" =>
    \A N \in Nat : \A task \in [1..N -> Tasks] :
      PlanOf(N)!Acyclic([t \in 1..N |-> {n \in 1..N : task[n] \in TaskNeeds(task[t])}])

LEMMA PlanOnceScheduled == ASSUME SchemaInv PROVE TasksAreAPlan
<1> SUFFICES ASSUME place = "scheduling", NEW N \in Nat, NEW task \in [1..N -> Tasks]
             PROVE  PlanOf(N)!Acyclic([t \in 1..N |->
                                        {n \in 1..N : task[n] \in TaskNeeds(task[t])}])
  BY DEF TasksAreAPlan
<1> DEFINE needs == [t \in 1..N |-> {n \in 1..N : task[n] \in TaskNeeds(task[t])}]
<1>1. \A S \in SUBSET Tasks : S # {} => \E t \in S : TaskNeeds(t) \cap S = {}
  <2>1. StartsPrepared /\ AcceptedIsAcyclic
    BY AcyclicOnceAccepted, PreparedByThen DEF SchemaInv, CommandInv, Inv
  <2> QED BY <2>1 DEF StartsPrepared, AcceptedIsAcyclic
<1>2. ASSUME NEW S \in SUBSET (1..N), S # {} PROVE \E t \in S : needs[t] \cap S = {}
  <2> DEFINE Hit == {task[t] : t \in S}
  <2>1. Hit \in SUBSET Tasks /\ Hit # {}
    BY <1>2
  <2>2. PICK t \in S : TaskNeeds(task[t]) \cap Hit = {}
    BY <1>1, <2>1
  <2>3. needs[t] \cap S = {}
    BY <2>2
  <2> QED BY <2>3
<1> QED BY <1>2 DEF PlanOf!Acyclic, PlanOf!Task

\* For any workflow files and command lines: who waits for whom among the tasks of a run that
\* schedules, however many they are and however they are numbered, is what TaskPlan assumes of
\* the plans that Scheduler is proved for, and ArtifactFlow of its flows.
THEOREM SchemaMakesPlans == SchemaSpec => []TasksAreAPlan
BY PlanOnceScheduled, SchemaSpecInv, PTL
=============================================================================
