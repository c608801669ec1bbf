------------------------------ MODULE TaskPlan ------------------------------
(***************************************************************************)
(* The input of a scheduled run: what lib/graph.js expand returns, reduced *)
(* to who needs whom, with the options bin.js passes to schedule.          *)
(***************************************************************************)
EXTENDS Naturals, FiniteSets

CONSTANTS NTasks,     \* number of tasks; a task is its place in expansion order
          Plans       \* the calls of schedule considered

Task == 1..NTasks

Kind == {"sandbox",       \* runs in a sandbox
         "publish",       \* runs on the runner, from the store
         "unsupported"}   \* a target this host cannot build

Plan == [needs : [Task -> SUBSET Task],
         kind : [Task -> Kind],
         concurrency : Nat,
         failFast : BOOLEAN]

\* A task that concluded this way lets its dependents go ahead.
Good == {"success", "unsupported"}

\* Why a task was skipped without having been started.
Skip == {"depFailed", "stopped", "notScheduled"}

Verdict == {"none", "failure"} \cup Good \cup Skip

\* No set of tasks in which everyone waits for somebody else of the set.
Acyclic(needs) == \A S \in SUBSET Task : S # {} => \E t \in S : needs[t] \cap S = {}

\* What expand guarantees about the tasks it returns: it throws on a cycle.
ASSUME PlansAssumption == /\ NTasks \in Nat
                          /\ Plans \subseteq Plan
                          /\ \A p \in Plans : Acyclic(p.needs)

\* Math.max(1, opts.concurrency || 1)
Limit(p) == IF p.concurrency = 0 THEN 1 ELSE p.concurrency
=============================================================================
