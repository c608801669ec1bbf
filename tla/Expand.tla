------------------------------- MODULE Expand -------------------------------
(***************************************************************************)
(* expand (lib/graph.js): which jobs a run keeps, the tasks they make, and *)
(* the depth-first search that refuses a cycle.  What this module accepts  *)
(* is what Scheduler is given: the acyclicity TaskPlan assumes is shown    *)
(* here.                                                                   *)
(*                                                                         *)
(* A job is its rank in the order its name is compared with, so the        *)
(* smallest member of a cycle is the smallest number.  The orders in which *)
(* the code iterates over keys, needs and the stack are left open.         *)
(*                                                                         *)
(* An operator that no action uses is the following definition with a bug  *)
(* in it, kept to show that the properties notice.                         *)
(***************************************************************************)
EXTENDS Naturals, Sequences

CONSTANTS NJobs,      \* number of jobs
          Target,     \* targets
          Workflows   \* validated workflows, with the --job of the command line

Job == 1..NJobs

Workflow == [needs : [Job -> SUBSET Job],
             targets : [Job -> SUBSET Target],
             only : 0..NJobs]     \* --job, 0 without it

\* What the schema guarantees: needs resolve, and a job does not need itself.
ASSUME WorkflowsAssumption == /\ NJobs \in Nat
                              /\ Workflows \subseteq Workflow
                              /\ \A w \in Workflows, j \in Job : j \notin w.needs[j]

VARIABLES wf,       \* the workflow
          stack,    \* transitive: jobs to look at
          keep,     \* transitive: jobs seen; afterwards, the jobs of this run
          colour,   \* detectCycles: Job -> white, grey, black
          path,     \* the grey jobs in the order they were entered
          todo,     \* Job -> the needs its visit has still to look at
          state,    \* closing, visiting, then accepted or cycle
          cycle     \* the cycle reported

vars == <<wf, stack, keep, colour, path, todo, state, cycle>>

TypeOK == /\ wf \in Workflows
          /\ stack \in SUBSET Job
          /\ keep \in SUBSET Job
          /\ colour \in [Job -> {"white", "grey", "black"}]
          /\ path \in Seq(keep)
          /\ Len(path) <= NJobs
          /\ todo \in [Job -> SUBSET Job]
          /\ state \in {"closing", "visiting", "accepted", "cycle"}
          /\ cycle \in Seq(keep)

Init == /\ wf \in Workflows
        /\ stack = IF wf.only = 0 THEN {} ELSE {wf.only}
        /\ keep = IF wf.only = 0 THEN Job ELSE {}
        /\ colour = [j \in Job |-> "white"]
        /\ path = <<>>
        /\ todo = [j \in Job |-> {}]
        /\ state = "closing"
        /\ cycle = <<>>

-----------------------------------------------------------------------------
(* transitive *)

PushedForSeen(j) == IF j \in keep THEN wf.needs[j] ELSE {}

\* What looking at j pushes: nothing when it has been seen.
Pushed(j) == IF j \in keep THEN {} ELSE wf.needs[j]

Pop == /\ state = "closing"
       /\ \E j \in stack : /\ keep' = keep \cup {j}
                           /\ stack' = (stack \ {j}) \cup Pushed(j)
       /\ UNCHANGED <<wf, colour, path, todo, state, cycle>>

Closed == /\ state = "closing" /\ stack = {}
          /\ state' = "visiting"
          /\ UNCHANGED <<wf, stack, keep, colour, path, todo, cycle>>

-----------------------------------------------------------------------------
(* The tasks: every kept job at each of its targets, waiting for every target of its needs *)

Tasks == {t \in Job \X Target : t[1] \in keep /\ t[2] \in wf.targets[t[1]]}

TaskNeeds(t) == {n \in Tasks : n[1] \in wf.needs[t[1]]}

-----------------------------------------------------------------------------
(* detectCycles *)

Top == path[Len(path)]

\* The beginning of visit(j), called from the frame of Top or from the outer loop.
Enter(j, left) == /\ colour' = [colour EXCEPT ![j] = "grey"]
                  /\ path' = Append(path, j)
                  /\ todo' = [left EXCEPT ![j] = wf.needs[j]]
                  /\ UNCHANGED <<wf, stack, keep, state, cycle>>

VisitRoot == /\ state = "visiting" /\ path = <<>>
             /\ \E j \in keep : colour[j] = "white" /\ Enter(j, todo)

\* The next of the needs the frame on top looks at.
Looking(n) == /\ state = "visiting" /\ path # <<>>
              /\ n \in todo[Top]

LookedAt(n) == [todo EXCEPT ![Top] = @ \ {n}]

SkipNeedEvenGrey(n) == /\ Looking(n)
                       /\ n \notin keep \/ colour[n] # "white"
                       /\ todo' = LookedAt(n)
                       /\ UNCHANGED <<wf, stack, keep, colour, path, state, cycle>>

SkipNeed(n) == /\ Looking(n)
               /\ n \notin keep \/ colour[n] = "black"
               /\ todo' = LookedAt(n)
               /\ UNCHANGED <<wf, stack, keep, colour, path, state, cycle>>

VisitNeed(n) == /\ Looking(n)
                /\ n \in keep /\ colour[n] = "white"
                /\ Enter(n, LookedAt(n))

RotatedWhole(c, m) == c \o <<c[1]>>

\* normalizeCycle: from the smallest member round to itself.
Rotated(c, m) == SubSeq(c, m, Len(c)) \o SubSeq(c, 1, m - 1) \o <<c[m]>>

\* A grey need closes a cycle.
FindCycle(n) ==
  /\ Looking(n)
  /\ n \in keep /\ colour[n] = "grey"
  /\ \E from \in 1..Len(path) :
       LET c == SubSeq(path, from, Len(path))
       IN  /\ path[from] = n
           /\ \E m \in 1..Len(c) : /\ \A i \in 1..Len(c) : c[m] <= c[i]
                                   /\ cycle' = Rotated(c, m)
  /\ state' = "cycle"
  /\ UNCHANGED <<wf, stack, keep, colour, path, todo>>

LeaveWhite == /\ state = "visiting" /\ path # <<>> /\ todo[Top] = {}
              /\ colour' = [colour EXCEPT ![Top] = "white"]
              /\ path' = SubSeq(path, 1, Len(path) - 1)
              /\ UNCHANGED <<wf, stack, keep, todo, state, cycle>>

\* The end of visit.
Leave == /\ state = "visiting" /\ path # <<>> /\ todo[Top] = {}
         /\ colour' = [colour EXCEPT ![Top] = "black"]
         /\ path' = SubSeq(path, 1, Len(path) - 1)
         /\ UNCHANGED <<wf, stack, keep, todo, state, cycle>>

\* The outer loop has found no white job left: expand returns the tasks.
Accept == /\ state = "visiting" /\ path = <<>>
          /\ \A j \in keep : colour[j] # "white"
          /\ state' = "accepted"
          /\ UNCHANGED <<wf, stack, keep, colour, path, todo, cycle>>

Decided == state \in {"accepted", "cycle"} /\ UNCHANGED vars

Search == Pop \/ Closed \/ VisitRoot
          \/ (\E n \in Job : SkipNeed(n) \/ VisitNeed(n) \/ FindCycle(n))
          \/ Leave \/ Accept

Next == Search \/ Decided

Spec == Init /\ [][Next]_vars

-----------------------------------------------------------------------------
(* Properties *)

\* No set of kept jobs in which each needs another of the set.
AcyclicJobs == \A S \in SUBSET keep : S # {} => \E j \in S : wf.needs[j] \cap S = {}

\* Accepting is right: the tasks handed to the scheduler can be put in an order, across
\* all their targets; this is what TaskPlan assumes of them.
AcceptedIsAcyclic ==
  state = "accepted" =>
    \A S \in SUBSET Tasks : S # {} => \E t \in S : TaskNeeds(t) \cap S = {}

\* Refusing is right: what is reported is a cycle of needs among the kept jobs, told from
\* its smallest member and back to it, without a job that is not on it.
CycleIsReal ==
  state = "cycle" =>
    /\ Len(cycle) > 2
    /\ cycle[Len(cycle)] = cycle[1]
    /\ \A i \in 1..(Len(cycle) - 1) : /\ cycle[i + 1] \in wf.needs[cycle[i]]
                                      /\ cycle[1] <= cycle[i]
                                      /\ \A j \in 1..(i - 1) : cycle[i] # cycle[j]

\* --job keeps the job, everything it transitively needs, and nothing else.
KeepsWhatIsNeeded ==
  (state # "closing" /\ wf.only # 0) =>
    /\ wf.only \in keep
    /\ \A j \in keep : wf.needs[j] \subseteq keep
    /\ \A S \in SUBSET keep :
         (wf.only \in S /\ \A j \in S : wf.needs[j] \subseteq S) => S = keep
=============================================================================
