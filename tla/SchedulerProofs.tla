-------------------------- MODULE SchedulerProofs --------------------------
(***************************************************************************)
(* Theorems about the scheduler for any number of tasks, any acyclic needs *)
(* and any options.  Inv is the inductive invariant: it ties the pending   *)
(* counts and the ready queue to the verdicts, which is what makes the     *)
(* properties of Scheduler.tla follow.                                     *)
(***************************************************************************)
EXTENDS Scheduler, Induction

Unmet(t) == {n \in plan.needs[t] : results[n] \notin Good}
Idle(t) == phase[t] = "idle" /\ results[t] = "none"

\* phase, answer, results and inflight agree about each launch.
PhaseInv ==
  \A t \in Task :
    /\ phase[t] = "idle" => answer[t] = "none" /\ t \notin inflight
                            /\ results[t] \in {"none"} \cup Skip
    /\ phase[t] = "executing" => answer[t] = "none" /\ t \in inflight /\ results[t] = "none"
                                 /\ plan.kind[t] # "unsupported"
    /\ phase[t] = "returned" => answer[t] # "none" /\ t \in inflight /\ results[t] = "none"
    /\ phase[t] = "settled" => answer[t] # "none" /\ results[t] = answer[t]
    /\ answer[t] = "success" /\ plan.kind[t] = "sandbox" => jobResults[t] = "success"
    /\ answer[t] = "success" => t \in attested
    /\ answer[t] = "unsupported" => plan.kind[t] = "unsupported"

\* Only the final sweep hands out these two verdicts.
SweepInv ==
  /\ loop = "finished" => inflight = {} /\ \A t \in Task : results[t] # "none"
  /\ loop # "finished" => \A t \in Task : results[t] \notin {"stopped", "notScheduled"}
  /\ failed <=> \E t \in Task : results[t] = "failure"

\* A pending count is the number of needs that have not concluded well.
CountInv == \A t \in Task : results[t] = "none" => pending[t] = Cardinality(Unmet(t))

\* The queue holds exactly the tasks that may start, each once.
ReadyInv ==
  loop # "finished" =>
    /\ \A i \in DOMAIN ready : Idle(ready[i]) /\ Unmet(ready[i]) = {}
    /\ \A i, j \in DOMAIN ready : ready[i] = ready[j] => i = j
    /\ \A t \in Task : Idle(t) /\ Unmet(t) = {} => \E i \in DOMAIN ready : ready[i] = t

Inv == TypeOK /\ PhaseInv /\ SweepInv /\ CountInv /\ ReadyInv /\ CascadeExact /\ StartsAfterNeeds
-----------------------------------------------------------------------------
LEMMA TaskSetsFinite ==
  ASSUME NEW S \in SUBSET Task
  PROVE  IsFiniteSet(S) /\ Cardinality(S) \in Nat
<1>1. IsFiniteSet(Task)
  BY PlansAssumption, FS_Interval DEF Task
<1>2. QED
  BY <1>1, FS_Subset, FS_CardinalityType

\* InTaskOrder lists a set of tasks completely and without repetition.
LEMMA TaskOrder ==
  ASSUME NEW S \in SUBSET Task, NEW s \in InTaskOrder(S)
  PROVE  /\ s \in Seq(Task)
         /\ DOMAIN s = 1..Len(s)
         /\ \A i \in DOMAIN s : s[i] \in S
         /\ \A i, j \in DOMAIN s : s[i] = s[j] => i = j
         /\ \A x \in S : \E i \in DOMAIN s : s[i] = x
<1> DEFINE n == Cardinality(S)
<1>1. n \in Nat /\ IsFiniteSet(S)
  BY TaskSetsFinite
<1>2. s \in [1..n -> S] /\ \A i, j \in DOMAIN s : i < j => s[i] < s[j]
  BY DEF InTaskOrder
<1>3. s \in Seq(Task) /\ Len(s) = n /\ DOMAIN s = 1..n
  <2>1. s \in Seq(S)
    BY <1>1, <1>2
  <2>2. QED
    BY <1>1, <1>2, <2>1
<1>4. \A i, j \in DOMAIN s : s[i] = s[j] => i = j
  <2> SUFFICES ASSUME NEW i \in 1..n, NEW j \in 1..n, s[i] = s[j], i # j
               PROVE  FALSE
    BY <1>3
  <2>1. s[i] \in Nat /\ s[j] \in Nat
    <3>1. s[i] \in Task /\ s[j] \in Task
      BY <1>2
    <3>2. QED
      BY <3>1, PlansAssumption DEF Task
  <2>2. i < j \/ j < i
    BY <1>1
  <2>3. QED
    BY <1>2, <1>3, <2>1, <2>2
<1>5. IsFiniteSet(1..n) /\ Cardinality(1..n) = n
  BY <1>1, FS_Interval
<1>6. s \in Injection(1..n, S)
  BY <1>2, <1>3, <1>4 DEF Injection, IsInjective
<1>7. s \in Surjection(1..n, S)
  BY <1>1, <1>5, <1>6, FS_Injection
<1>8. \A x \in S : \E i \in DOMAIN s : s[i] = x
  BY <1>3, <1>7 DEF Surjection
<1>9. QED
  BY <1>2, <1>3, <1>4, <1>8

\* The cascade touches only tasks that are open, and it is complete.
LEMMA Cascade ==
  ASSUME NEW t \in Task
  PROVE  LET open == {d \in Task : results[d] = "none" /\ d \notin running}
             K == skipDependents(t)
         IN  /\ K \subseteq open
             /\ \A e \in open : plan.needs[e] \cap (K \cup {t}) # {} => e \in K
             /\ \A e \in K : plan.needs[e] \cap (K \cup {t}) # {}
<1> DEFINE open == {d \in Task : results[d] = "none" /\ d \notin running}
           K == skipDependents(t)
           Closed(S) == \A e \in open : plan.needs[e] \cap (S \cup {t}) # {} => e \in S
<1>0. K = {d \in Task : \A S \in SUBSET open : Closed(S) => d \in S}
  BY DEF skipDependents
<1>1. K \subseteq open
  <2>1. Closed(open)
    OBVIOUS
  <2>2. QED
    BY <1>0, <2>1
<1>2. Closed(K)
  <2> SUFFICES ASSUME NEW e \in open, plan.needs[e] \cap (K \cup {t}) # {},
                      NEW S \in SUBSET open, Closed(S)
               PROVE  e \in S
    BY <1>0
  <2>1. K \subseteq S
    BY <1>0
  <2>2. QED
    BY <2>1
<1>3. ASSUME NEW e \in K, plan.needs[e] \cap (K \cup {t}) = {}
      PROVE  FALSE
  <2> DEFINE S == K \ {e}
  <2>1. S \in SUBSET open
    BY <1>1
  <2>2. Closed(S)
    <3> SUFFICES ASSUME NEW d \in open, plan.needs[d] \cap (S \cup {t}) # {}
                 PROVE  d \in S
      OBVIOUS
    <3>1. d \in K
      BY <1>2
    <3>2. d # e
      BY <1>3
    <3>3. QED
      BY <3>1, <3>2
  <2>3. e \in S
    BY <1>0, <2>1, <2>2
  <2>4. QED
    BY <2>3
<1>4. QED
  BY <1>1, <1>2, <1>3
-----------------------------------------------------------------------------
LEMMA InitInv == Init => Inv
<1> SUFFICES ASSUME Init PROVE Inv
  OBVIOUS
<1>1. plan \in Plan
  BY PlansAssumption DEF Init
<1>2. \A t \in Task : plan.needs[t] \in SUBSET Task
  BY <1>1 DEF Plan
<1>3. \A t \in Task : Unmet(t) = plan.needs[t] /\ Cardinality(plan.needs[t]) \in Nat
  BY <1>2, TaskSetsFinite DEF Init, Unmet, Good
<1> DEFINE R == {t \in Task : plan.needs[t] = {}}
<1>4. /\ ready \in Seq(Task)
      /\ \A i \in DOMAIN ready : ready[i] \in R
      /\ \A i, j \in DOMAIN ready : ready[i] = ready[j] => i = j
      /\ \A x \in R : \E i \in DOMAIN ready : ready[i] = x
  <2>1. R \in SUBSET Task /\ ready \in InTaskOrder(R)
    BY DEF Init
  <2>2. QED
    BY <2>1, TaskOrder
<1>5. TypeOK
  <2>1. pending \in [Task -> Nat]
    BY <1>3 DEF Init
  <2>2. QED
    BY <1>4, <2>1 DEF Init, TypeOK, Verdict
<1>6. PhaseInv /\ SweepInv
  BY DEF Init, PhaseInv, SweepInv, Skip
<1>7. CountInv
  BY <1>3 DEF Init, CountInv
<1>8. ReadyInv
  <2>1. \A t \in Task : Idle(t)
    BY DEF Init, Idle
  <2>2. \A t \in Task : t \in R <=> Unmet(t) = {}
    BY <1>3
  <2>3. \A i \in DOMAIN ready : ready[i] \in Task
    BY <1>4
  <2>4. QED
    BY <1>4, <2>1, <2>2, <2>3 DEF ReadyInv
<1>9. CascadeExact /\ StartsAfterNeeds
  BY <1>2 DEF Init, CascadeExact, StartsAfterNeeds
<1>10. QED
  BY <1>5, <1>6, <1>7, <1>8, <1>9 DEF Inv

LEMMA PlanFacts ==
  ASSUME TypeOK
  PROVE  /\ plan.needs \in [Task -> SUBSET Task]
         /\ \A t \in Task : plan.needs[t] \in SUBSET Task /\ Unmet(t) \in SUBSET Task
         /\ plan.kind \in [Task -> Kind]
         /\ Acyclic(plan.needs)
         /\ plan.concurrency \in Nat
<1>1. plan \in Plan /\ Acyclic(plan.needs)
  BY PlansAssumption DEF TypeOK
<1>2. QED
  BY <1>1 DEF Plan, Unmet

LEMMA LaunchInv ==
  ASSUME Inv, Launch
  PROVE  Inv'
<1>0. PICK t \in Task : t = Head(ready)
  BY DEF Launch, CanLaunch, Inv, TypeOK
<1>1. /\ ready \in Seq(Task) /\ ready # <<>>
      /\ loop = "filling" /\ loop' = loop
      /\ ready' = Tail(ready)
  BY DEF Launch, CanLaunch, Inv, TypeOK
<1>2. /\ t = ready[1] /\ 1 \in DOMAIN ready /\ t \in Task
      /\ ready' \in Seq(Task)
      /\ \A i \in DOMAIN ready' : i + 1 \in DOMAIN ready /\ ready'[i] = ready[i + 1] /\ i + 1 # 1
      /\ \A i \in DOMAIN ready : i # 1 => i - 1 \in DOMAIN ready' /\ ready'[i - 1] = ready[i]
  BY <1>0, <1>1
<1>3. Idle(t) /\ Unmet(t) = {}
  BY <1>1, <1>2 DEF Inv, ReadyInv
<1>4. /\ inflight' = inflight \cup {t}
      /\ IF plan.kind[t] = "unsupported"
         THEN /\ phase' = [phase EXCEPT ![t] = "returned"]
              /\ answer' = [answer EXCEPT ![t] = "unsupported"]
         ELSE /\ phase' = [phase EXCEPT ![t] = "executing"]
              /\ UNCHANGED answer
      /\ UNCHANGED <<plan, pending, results, failed, woken, loop, jobResults, attested, exitCode>>
  BY <1>0, <1>3 DEF Launch, Idle
<1>5. \A x \in Task : Unmet(x)' = Unmet(x)
  BY <1>4 DEF Unmet
<1>6. \A x \in Task : Idle(x)' <=> Idle(x) /\ x # t
  BY <1>2, <1>4 DEF Idle, Inv, TypeOK
<1>7. TypeOK'
  BY <1>1, <1>2, <1>4 DEF Inv, TypeOK
<1>8. PhaseInv'
  BY <1>2, <1>3, <1>4 DEF Inv, TypeOK, PhaseInv, Idle
<1>9. SweepInv' /\ CountInv' /\ CascadeExact'
  BY <1>1, <1>4, <1>5 DEF Inv, SweepInv, CountInv, CascadeExact
<1>10. ReadyInv'
  <2>1. \A i \in DOMAIN ready' : ready'[i] \in Task /\ ready'[i] # t
    BY <1>1, <1>2 DEF Inv, ReadyInv
  <2>2. \A i \in DOMAIN ready' : (Idle(ready[i]) /\ Unmet(ready[i]) = {})'
    <3> SUFFICES ASSUME NEW i \in DOMAIN ready'
                 PROVE  (Idle(ready[i]) /\ Unmet(ready[i]) = {})'
      OBVIOUS
    <3>1. PICK x \in Task : x = ready'[i] /\ x = ready[i + 1] /\ x # t
      BY <1>2, <2>1
    <3>2. Idle(x) /\ Unmet(x) = {}
      BY <1>1, <1>2, <3>1 DEF Inv, ReadyInv
    <3>3. Idle(x)' /\ Unmet(x)' = {}
      BY <1>5, <1>6, <3>1, <3>2
    <3>4. QED
      BY <3>1, <3>3 DEF Idle, Unmet
  <2>3. \A i, j \in DOMAIN ready' : ready'[i] = ready'[j] => i = j
    <3> SUFFICES ASSUME NEW i \in DOMAIN ready', NEW j \in DOMAIN ready', ready'[i] = ready'[j]
                 PROVE  i = j
      OBVIOUS
    <3>1. i + 1 = j + 1
      BY <1>1, <1>2 DEF Inv, ReadyInv
    <3>2. i \in Int /\ j \in Int
      BY <1>2
    <3>3. QED
      BY <3>1, <3>2
  <2>4. \A x \in Task : Idle(x)' /\ Unmet(x)' = {} => \E i \in DOMAIN ready' : ready'[i] = x
    <3> SUFFICES ASSUME NEW x \in Task, Idle(x), x # t, Unmet(x) = {}
                 PROVE  \E i \in DOMAIN ready' : ready'[i] = x
      BY <1>5, <1>6
    <3>1. PICK i \in DOMAIN ready : ready[i] = x
      BY <1>1 DEF Inv, ReadyInv
    <3>2. i # 1
      BY <1>2, <3>1
    <3>3. QED
      BY <1>2, <3>1, <3>2
  <2>5. QED
    BY <2>2, <2>3, <2>4 DEF ReadyInv
<1>11. StartsAfterNeeds'
  <2>1. \A n \in plan.needs[t] :
           /\ results[n] \in Good
           /\ plan.kind[n] = "sandbox" => jobResults[n] = "success"
           /\ plan.kind[n] # "unsupported" => n \in attested
    <3> SUFFICES ASSUME NEW n \in plan.needs[t]
                 PROVE  /\ results[n] \in Good
                        /\ plan.kind[n] = "sandbox" => jobResults[n] = "success"
                        /\ plan.kind[n] # "unsupported" => n \in attested
      OBVIOUS
    <3>1. n \in Task /\ results[n] \in Good
      BY <1>2, <1>3, PlanFacts DEF Unmet, Inv
    <3>2. phase[n] = "settled"
      BY <3>1 DEF Inv, TypeOK, PhaseInv, Good, Skip
    <3>3. QED
      BY <3>1, <3>2 DEF Inv, PhaseInv, Good
  <2>2. \A x \in Task : phase'[x] # "idle" => x = t \/ phase[x] # "idle"
    BY <1>2, <1>4 DEF Inv, TypeOK
  <2>3. plan' = plan /\ results' = results /\ jobResults' = jobResults /\ attested' = attested
    BY <1>4
  <2>4. ASSUME NEW x \in Task, phase'[x] # "idle", NEW n \in plan.needs[x]
        PROVE  /\ results[n] \in Good
               /\ plan.kind[n] = "sandbox" => jobResults[n] = "success"
               /\ plan.kind[n] # "unsupported" => n \in attested
    <3>1. CASE x = t
      BY <2>1, <2>4, <3>1
    <3>2. CASE phase[x] # "idle"
      BY <2>4, <3>2 DEF Inv, StartsAfterNeeds
    <3>3. QED
      BY <2>2, <2>4, <3>1, <3>2
  <2>5. QED
    BY <2>3, <2>4 DEF StartsAfterNeeds
<1>12. QED
  BY <1>7, <1>8, <1>9, <1>10, <1>11 DEF Inv

\* Actions that only move a promise or the loop along.
LEMMA QuietInv ==
  ASSUME Inv,
         UNCHANGED <<plan, pending, ready, results, failed, phase, answer, jobResults>>,
         /\ inflight' \in SUBSET inflight
         /\ \A t \in Task : t \in inflight /\ t \notin inflight' => phase[t] = "settled",
         woken' \in BOOLEAN,
         loop # "finished" /\ loop' \in {"filling", "racing"},
         attested' = attested /\ exitCode' = exitCode
  PROVE  Inv'
<1>1. \A x \in Task : (Unmet(x)' = Unmet(x)) /\ (Idle(x)' <=> Idle(x))
  BY DEF Unmet, Idle
<1>2. TypeOK'
  BY DEF Inv, TypeOK
<1>3. PhaseInv'
  BY DEF Inv, TypeOK, PhaseInv
<1>4. SweepInv' /\ CountInv'
  BY <1>1 DEF Inv, SweepInv, CountInv
<1>5. ReadyInv'
  BY DEF Inv, ReadyInv, Idle, Unmet
<1>6. CascadeExact' /\ StartsAfterNeeds'
  BY DEF Inv, CascadeExact, StartsAfterNeeds
<1>7. QED
  BY <1>2, <1>3, <1>4, <1>5, <1>6 DEF Inv

LEMMA ReturnInv ==
  ASSUME Inv, NEW t \in Task, NEW status \in {"success", "failure"},
         Returns(t, status),
         plan.kind[t] # "unsupported",
         jobResults' \in [Task -> {"none", "success", "failure"}],
         \A x \in Task : x # t => jobResults'[x] = jobResults[x],
         status = "success" /\ plan.kind[t] = "sandbox" => jobResults'[t] = "success",
         attested' \in SUBSET Task,
         attested \subseteq attested',
         status = "success" => t \in attested'
  PROVE  Inv'
<1>1. /\ phase' = [phase EXCEPT ![t] = "returned"]
      /\ answer' = [answer EXCEPT ![t] = status]
      /\ phase[t] = "executing"
      /\ UNCHANGED <<plan, pending, ready, results, failed, inflight, woken, loop, exitCode>>
  BY DEF Returns
<1>2. \A x \in Task : (Unmet(x)' = Unmet(x)) /\ (Idle(x)' <=> Idle(x))
  BY <1>1 DEF Unmet, Idle, Inv, TypeOK
<1>3. TypeOK'
  BY <1>1 DEF Inv, TypeOK
<1>4. PhaseInv'
  BY <1>1 DEF Inv, TypeOK, PhaseInv
<1>5. SweepInv' /\ CountInv' /\ CascadeExact'
  BY <1>1, <1>2 DEF Inv, SweepInv, CountInv, CascadeExact
<1>6. ReadyInv'
  <2>1. \A i \in DOMAIN ready : ready[i] \in Task
    BY DEF Inv, TypeOK
  <2>2. ready' = ready /\ loop' = loop
    BY <1>1
  <2>3. \A i \in DOMAIN ready : (Idle(ready[i])' <=> Idle(ready[i])) /\ Unmet(ready[i])' = Unmet(ready[i])
    <3> SUFFICES ASSUME NEW i \in DOMAIN ready
                 PROVE  (Idle(ready[i])' <=> Idle(ready[i])) /\ Unmet(ready[i])' = Unmet(ready[i])
      OBVIOUS
    <3>1. PICK x \in Task : x = ready[i]
      BY <2>1
    <3>2. QED
      BY <1>1, <2>2, <3>1 DEF Unmet, Idle, Inv, TypeOK
  <2>4. QED
    BY <1>2, <2>2, <2>3 DEF Inv, ReadyInv
<1>7. StartsAfterNeeds'
  <2>1. \A x \in Task : phase'[x] # "idle" => phase[x] # "idle"
    BY <1>1 DEF Inv, TypeOK
  <2>2. \A n \in Task : results[n] \in Good => n # t
    BY <1>1 DEF Inv, PhaseInv, Good
  <2>3. QED
    BY <1>1, <2>1, <2>2, PlanFacts DEF Inv, StartsAfterNeeds
<1>8. QED
  BY <1>3, <1>4, <1>5, <1>6, <1>7 DEF Inv

LEMMA FinishInv ==
  ASSUME Inv, Finish
  PROVE  Inv'
<1>1. /\ loop = "filling" /\ loop' = "finished" /\ inflight = {}
      /\ results' = [t \in Task |-> IF results[t] # "none" THEN results[t]
                                     ELSE IF failed THEN "stopped" ELSE "notScheduled"]
      /\ exitCode' \in {"one", "zero"}
      /\ UNCHANGED <<plan, pending, ready, failed, phase, answer, inflight, woken, jobResults, attested>>
  BY DEF Finish
<1>2. \A t \in Task : results[t] \in Verdict /\ results'[t] \in Verdict /\ results'[t] # "none"
  BY <1>1 DEF Inv, TypeOK, Verdict, Skip, Good
<1>3. TypeOK'
  BY <1>1, <1>2 DEF Inv, TypeOK
<1>4. \A t \in Task : phase[t] \in {"idle", "settled"}
  BY <1>1 DEF Inv, TypeOK, PhaseInv
<1>5. \A t \in Task : phase[t] = "settled" => results'[t] = results[t] /\ results[t] # "none"
  BY <1>1 DEF Inv, TypeOK, PhaseInv
<1>6. PhaseInv'
  BY <1>1, <1>2, <1>4, <1>5 DEF Inv, PhaseInv, Skip
<1>7. SweepInv'
  BY <1>1, <1>2 DEF Inv, SweepInv
<1>8. CountInv' /\ ReadyInv'
  BY <1>1, <1>2 DEF CountInv, ReadyInv
<1>9. CascadeExact'
  <2>1. \A t \in Task : \A v \in {"depFailed", "failure"} : results'[t] = v <=> results[t] = v
    BY <1>1
  <2>2. QED
    BY <1>1, <2>1, PlanFacts DEF Inv, CascadeExact
<1>10. StartsAfterNeeds'
  <2>1. \A t \in Task : results[t] \in Good => results'[t] \in Good
    BY <1>1 DEF Good
  <2>2. QED
    BY <1>1, <2>1, PlanFacts DEF Inv, StartsAfterNeeds
<1>11. QED
  BY <1>3, <1>6, <1>7, <1>8, <1>9, <1>10 DEF Inv

LEMMA SettleFailureInv ==
  ASSUME Inv, NEW t \in Task, SettleFailure(t)
  PROVE  Inv'
<1> DEFINE K == skipDependents(t)
           open == {d \in Task : results[d] = "none" /\ d \notin running}
<1>1. /\ loop = "racing" /\ phase[t] = "returned" /\ answer[t] = "failure"
      /\ phase' = [phase EXCEPT ![t] = "settled"]
      /\ failed' = TRUE
      /\ results' = [d \in Task |-> IF d = t THEN "failure"
                                     ELSE IF d \in K THEN "depFailed" ELSE results[d]]
      /\ UNCHANGED <<plan, pending, ready, answer, inflight, woken, loop, jobResults, attested,
                     exitCode>>
  BY DEF SettleFailure
<1>2. /\ K \subseteq open
      /\ \A e \in open : plan.needs[e] \cap (K \cup {t}) # {} => e \in K
      /\ \A e \in K : plan.needs[e] \cap (K \cup {t}) # {}
  BY Cascade
<1>3. results[t] = "none" /\ t \notin K
  BY <1>1, <1>2 DEF Inv, PhaseInv, running
<1>4. \A d \in K : d \in Task /\ d # t /\ results[d] = "none" /\ phase[d] = "idle"
  BY <1>2, <1>3 DEF running, Inv, TypeOK, PhaseInv
<1> HIDE DEF K, open
<1>5. \A d \in Task : results'[d] \in Good <=> results[d] \in Good
  BY <1>1, <1>3, <1>4 DEF Good
<1>6. \A d \in Task : Unmet(d)' = Unmet(d)
  BY <1>1, <1>5, PlanFacts DEF Unmet, Inv
<1>7. TypeOK'
  BY <1>1, <1>4 DEF Inv, TypeOK, Verdict, Skip
<1>8. PhaseInv'
  BY <1>1, <1>3, <1>4 DEF Inv, TypeOK, PhaseInv, Skip
<1>9. SweepInv'
  BY <1>1, <1>4 DEF Inv, TypeOK, SweepInv
<1>10. CountInv'
  BY <1>1, <1>6, <1>3, <1>4 DEF Inv, TypeOK, CountInv
<1>11. CascadeExact'
  <2> DEFINE bad(n) == results[n] \in {"failure", "depFailed"}
  <2>1. \A n \in Task : results'[n] \in {"failure", "depFailed"} <=> n \in K \cup {t} \/ bad(n)
    BY <1>1
  <2>2. \A d \in Task : results'[d] = "depFailed" <=> d \in K \/ results[d] = "depFailed"
    BY <1>1, <1>3
  <2>3. ASSUME NEW d \in Task
        PROVE  d \in K \/ results[d] = "depFailed"
               <=> \E n \in plan.needs[d] : n \in K \cup {t} \/ bad(n)
    <3>1. results[d] = "depFailed" <=> \E n \in plan.needs[d] : bad(n)
      BY DEF Inv, CascadeExact
    <3>2. d \in K => \E n \in plan.needs[d] : n \in K \cup {t}
      BY <1>2
    <3>3. ASSUME NEW n \in plan.needs[d], n \in K \cup {t}
          PROVE  d \in K \/ results[d] = "depFailed"
      <4>1. results[n] = "none"
        BY <1>3, <1>4, <3>3
      <4>2. phase[d] = "idle"
        BY <4>1 DEF Inv, StartsAfterNeeds, Good
      <4>3. results[d] \notin {"stopped", "notScheduled"}
        BY <1>1 DEF Inv, SweepInv
      <4>4. results[d] = "none" \/ results[d] = "depFailed"
        BY <4>2, <4>3 DEF Inv, PhaseInv, Skip
      <4>5. CASE results[d] = "none"
        <5>1. d \in open
          BY <4>2, <4>5 DEF open, running
        <5>2. QED
          BY <1>2, <3>3, <5>1
      <4>6. QED
        BY <4>4, <4>5
    <3>4. QED
      BY <3>1, <3>2, <3>3
  <2>4. plan' = plan /\ \A d \in Task : plan.needs[d] \subseteq Task
    BY <1>1, PlanFacts DEF Inv
  <2>5. QED
    BY <2>1, <2>2, <2>3, <2>4 DEF CascadeExact
<1>12. StartsAfterNeeds'
  <2>1. \A x \in Task : phase'[x] # "idle" => phase[x] # "idle"
    BY <1>1 DEF Inv, TypeOK
  <2>2. QED
    BY <1>1, <1>5, <2>1, PlanFacts DEF Inv, StartsAfterNeeds
<1>13. ReadyInv'
  <2>1. ASSUME NEW x \in Task
        PROVE  Idle(x)' /\ Unmet(x)' = {} <=> Idle(x) /\ Unmet(x) = {}
    <3>1. CASE x \in K
      <4>1. Unmet(x) # {}
        <5>1. PICK n \in plan.needs[x] : n \in K \cup {t}
          BY <1>2, <3>1
        <5>2. results[n] = "none"
          BY <1>3, <1>4, <5>1
        <5>3. QED
          BY <5>1, <5>2 DEF Unmet, Good
      <4>2. QED
        BY <1>6, <4>1
    <3>2. CASE x = t
      BY <1>1, <3>2 DEF Idle, Inv, TypeOK
    <3>3. CASE x \notin K /\ x # t
      BY <1>1, <1>6, <3>3 DEF Idle, Inv, TypeOK
    <3>4. QED
      BY <3>1, <3>2, <3>3
  <2>2. loop' = loop /\ ready' = ready /\ loop # "finished"
    BY <1>1
  <2>3. ASSUME NEW i \in DOMAIN ready
        PROVE  (Idle(ready[i]) /\ Unmet(ready[i]) = {})'
    <3>1. PICK x \in Task : x = ready[i]
      BY DEF Inv, TypeOK
    <3>2. Idle(x)' /\ Unmet(x)' = {}
      BY <2>1, <2>2, <3>1 DEF Inv, ReadyInv
    <3>3. QED
      BY <2>2, <3>1, <3>2 DEF Idle, Unmet
  <2>4. QED
    BY <2>1, <2>2, <2>3 DEF Inv, ReadyInv
<1>14. QED
  BY <1>7, <1>8, <1>9, <1>10, <1>11, <1>12, <1>13 DEF Inv

LEMMA SettleGoodInv ==
  ASSUME Inv, NEW t \in Task, SettleGood(t)
  PROVE  Inv'
<1> DEFINE counted == {d \in dependents(t) : results'[d] = "none"}
           F == freed(counted, pending')
<1>1. /\ loop = "racing" /\ phase[t] = "returned" /\ answer[t] \in Good
      /\ phase' = [phase EXCEPT ![t] = "settled"]
      /\ results' = [results EXCEPT ![t] = answer[t]]
      /\ pending' = [d \in Task |-> IF d \in counted THEN pending[d] - 1 ELSE pending[d]]
      /\ UNCHANGED <<plan, failed, answer, inflight, woken, loop, jobResults, attested, exitCode>>
  BY DEF SettleGood
<1>2. PICK pushed \in InTaskOrder(F) : ready' = ready \o pushed
  BY DEF SettleGood
<1>3. results[t] = "none" /\ t \in Task
  BY <1>1 DEF Inv, PhaseInv
<1>4. /\ counted \subseteq Task
      /\ \A d \in counted : t \in plan.needs[d] /\ results[d] = "none" /\ d # t
      /\ \A d \in Task : t \in plan.needs[d] /\ results[d] = "none" /\ d # t => d \in counted
  BY <1>1, <1>3 DEF dependents, Inv, TypeOK, Good
<1>5. F = {d \in counted : pending'[d] = 0}
  BY DEF freed
<1> HIDE DEF counted, F
<1>6. \A n \in Task : results'[n] \in Good <=> (n = t \/ results[n] \in Good)
  BY <1>1 DEF Inv, TypeOK
<1>7. \A d \in Task : Unmet(d)' = Unmet(d) \ {t}
  BY <1>1, <1>6, PlanFacts DEF Unmet, Inv
<1>8. \A d \in Task : /\ IsFiniteSet(Unmet(d)) /\ Cardinality(Unmet(d)) \in Nat
                      /\ IsFiniteSet(Unmet(d)') /\ Cardinality(Unmet(d)') \in Nat
  BY <1>7, PlanFacts, TaskSetsFinite DEF Inv
<1>9. \A d \in counted : /\ t \in Unmet(d)
                         /\ pending[d] = Cardinality(Unmet(d))
                         /\ Cardinality(Unmet(d)') = Cardinality(Unmet(d)) - 1
  <2> SUFFICES ASSUME NEW d \in counted
               PROVE  /\ t \in Unmet(d)
                      /\ pending[d] = Cardinality(Unmet(d))
                      /\ Cardinality(Unmet(d)') = Cardinality(Unmet(d)) - 1
    OBVIOUS
  <2>1. t \in Unmet(d)
    BY <1>3, <1>4 DEF Unmet, Good
  <2>2. pending[d] = Cardinality(Unmet(d))
    BY <1>4 DEF Inv, CountInv
  <2>3. Unmet(d)' = Unmet(d) \ {t} /\ IsFiniteSet(Unmet(d))
    BY <1>4, <1>7, <1>8
  <2>4. Cardinality(Unmet(d) \ {t}) = Cardinality(Unmet(d)) - 1
    BY <2>1, <2>3, FS_RemoveElement
  <2>5. QED
    BY <2>1, <2>2, <2>3, <2>4
<1>10. \A d \in counted : pending'[d] = Cardinality(Unmet(d)') /\ pending'[d] \in Nat
  <2> SUFFICES ASSUME NEW d \in counted
               PROVE  pending'[d] = Cardinality(Unmet(d)') /\ pending'[d] \in Nat
    OBVIOUS
  <2>1. d \in Task /\ pending'[d] = pending[d] - 1
    BY <1>1, <1>4
  <2>2. Cardinality(Unmet(d)') = pending[d] - 1
    BY <1>9
  <2>3. QED
    BY <1>8, <2>1, <2>2
<1>11. \A d \in F : /\ d \in counted /\ Unmet(d)' = {} /\ Idle(d) /\ Idle(d)'
                    /\ Unmet(d) # {}
  <2> SUFFICES ASSUME NEW d \in F
               PROVE  d \in counted /\ Unmet(d)' = {} /\ Idle(d) /\ Idle(d)' /\ Unmet(d) # {}
    OBVIOUS
  <2>1. d \in counted /\ Cardinality(Unmet(d)') = 0 /\ IsFiniteSet(Unmet(d)')
    BY <1>4, <1>5, <1>8, <1>10
  <2>2. Unmet(d)' = {}
    BY <2>1, FS_EmptySet
  <2>3. phase[d] = "idle"
    BY <1>3, <1>4, <2>1 DEF Inv, StartsAfterNeeds, Good
  <2>4. QED
    BY <1>1, <1>4, <1>9, <2>1, <2>2, <2>3 DEF Idle, Inv, TypeOK
<1>12. /\ pushed \in Seq(Task)
       /\ \A i \in DOMAIN pushed : pushed[i] \in F
       /\ \A i, j \in DOMAIN pushed : pushed[i] = pushed[j] => i = j
       /\ \A x \in F : \E i \in DOMAIN pushed : pushed[i] = x
  <2>1. F \in SUBSET Task
    BY <1>4, <1>5
  <2>2. QED
    BY <1>2, <2>1, TaskOrder
<1>13. ready' \in Seq(Task)
  BY <1>2, <1>12 DEF Inv, TypeOK
<1>14. TypeOK'
  <2>1. pending' \in [Task -> Nat]
    BY <1>1, <1>10 DEF Inv, TypeOK
  <2>2. results' \in [Task -> Verdict]
    BY <1>1 DEF Inv, TypeOK, Verdict, Good
  <2>3. QED
    BY <1>1, <1>13, <2>1, <2>2 DEF Inv, TypeOK
<1>15. PhaseInv'
  BY <1>1, <1>3 DEF Inv, TypeOK, PhaseInv, Good
<1>16. SweepInv'
  BY <1>1, <1>3 DEF Inv, TypeOK, SweepInv, Good
<1>17. CountInv'
  <2> SUFFICES ASSUME NEW d \in Task, results'[d] = "none"
               PROVE  pending'[d] = Cardinality(Unmet(d)')
    BY DEF CountInv
  <2>1. d # t /\ results[d] = "none"
    BY <1>1 DEF Inv, TypeOK, Good
  <2>2. CASE d \in counted
    BY <1>10, <2>2
  <2>3. CASE d \notin counted
    <3>1. Unmet(d)' = Unmet(d)
      BY <1>4, <1>7, <2>1, <2>3 DEF Unmet
    <3>2. QED
      BY <1>1, <2>1, <2>3, <3>1 DEF Inv, CountInv
  <2>4. QED
    BY <2>2, <2>3
<1>18. CascadeExact'
  <2>1. \A d \in Task : \A v \in {"failure", "depFailed"} : results'[d] = v <=> results[d] = v
    BY <1>1, <1>3 DEF Inv, TypeOK, Good
  <2>2. QED
    BY <1>1, <2>1, PlanFacts DEF Inv, CascadeExact
<1>19. StartsAfterNeeds'
  <2>1. \A x \in Task : phase'[x] # "idle" => phase[x] # "idle"
    BY <1>1 DEF Inv, TypeOK
  <2>2. QED
    BY <1>1, <1>6, <2>1, PlanFacts DEF Inv, StartsAfterNeeds
<1>20. ReadyInv'
  <2>1. loop # "finished"
    BY <1>1
  <2>2. \A x \in Task : Idle(x)' <=> Idle(x)
    BY <1>1 DEF Idle, Inv, TypeOK
  <2>3. /\ DOMAIN ready = 1..Len(ready) /\ Len(ready) \in Nat
        /\ DOMAIN pushed = 1..Len(pushed) /\ Len(pushed) \in Nat
        /\ DOMAIN ready' = 1..(Len(ready) + Len(pushed))
        /\ \A i \in DOMAIN ready : i \in DOMAIN ready' /\ ready'[i] = ready[i]
        /\ \A i \in DOMAIN pushed : Len(ready) + i \in DOMAIN ready' /\ ready'[Len(ready) + i] = pushed[i]
        /\ \A i \in DOMAIN ready' : i \notin DOMAIN ready =>
              i - Len(ready) \in DOMAIN pushed /\ ready'[i] = pushed[i - Len(ready)]
    BY <1>2, <1>12 DEF Inv, TypeOK
  <2>4. \A i \in DOMAIN ready : ready[i] \in Task /\ Idle(ready[i]) /\ Unmet(ready[i]) = {}
    BY <2>1 DEF Inv, TypeOK, ReadyInv
  <2>5. ASSUME NEW i \in DOMAIN ready'
        PROVE  (Idle(ready[i]) /\ Unmet(ready[i]) = {})'
    <3>1. PICK x \in Task : x = ready'[i]
      BY <1>13
    <3>2. Idle(x)' /\ Unmet(x)' = {}
      <4>1. CASE i \in DOMAIN ready
        <5>1. x = ready[i] /\ Idle(x) /\ Unmet(x) = {}
          BY <2>3, <2>4, <3>1, <4>1
        <5>2. QED
          BY <1>7, <2>2, <5>1
      <4>2. CASE i \notin DOMAIN ready
        <5>1. x \in F
          BY <1>12, <2>3, <3>1, <4>2
        <5>2. QED
          BY <1>11, <5>1
      <4>3. QED
        BY <4>1, <4>2
    <3>3. QED
      BY <3>1, <3>2 DEF Idle, Unmet
  <2>6. ASSUME NEW i \in DOMAIN ready', NEW j \in DOMAIN ready', ready'[i] = ready'[j]
        PROVE  i = j
    <3>1. CASE i \in DOMAIN ready /\ j \in DOMAIN ready
      BY <2>1, <2>3, <2>6, <3>1 DEF Inv, ReadyInv
    <3>2. CASE i \notin DOMAIN ready /\ j \notin DOMAIN ready
      <4>1. i - Len(ready) = j - Len(ready)
        BY <1>12, <2>3, <2>6, <3>2
      <4>2. i \in Int /\ j \in Int
        BY <2>3
      <4>3. QED
        BY <2>3, <4>1, <4>2
    <3>3. ASSUME NEW k \in DOMAIN ready, NEW l \in DOMAIN ready', l \notin DOMAIN ready,
                 ready'[k] = ready'[l]
          PROVE  FALSE
      <4>1. ready'[l] \in F
        BY <1>12, <2>3, <3>3
      <4>2. ready[k] \in F
        BY <2>3, <3>3, <4>1
      <4>3. QED
        BY <1>11, <2>4, <4>2
    <3>4. QED
      BY <2>6, <3>1, <3>2, <3>3
  <2>7. ASSUME NEW x \in Task, Idle(x)', Unmet(x)' = {}
        PROVE  \E i \in DOMAIN ready' : ready'[i] = x
    <3>1. CASE Unmet(x) = {}
      <4>1. PICK i \in DOMAIN ready : ready[i] = x
        BY <2>1, <2>2, <2>7, <3>1 DEF Inv, ReadyInv
      <4>2. QED
        BY <2>3, <4>1
    <3>2. CASE Unmet(x) # {}
      <4>1. t \in Unmet(x)
        BY <1>7, <2>7, <3>2
      <4>2. x # t /\ results[x] = "none"
        BY <1>1, <2>2, <2>7 DEF Idle
      <4>3. x \in counted
        BY <1>4, <4>1, <4>2 DEF Unmet
      <4>4. pending'[x] = 0
        BY <1>10, <2>7, <4>3, FS_EmptySet
      <4>5. x \in F
        BY <1>5, <4>3, <4>4
      <4>6. QED
        BY <1>12, <2>3, <4>5
    <3>3. QED
      BY <3>1, <3>2
  <2>8. QED
    BY <2>5, <2>6, <2>7 DEF ReadyInv
<1>21. QED
  BY <1>14, <1>15, <1>16, <1>17, <1>18, <1>19, <1>20 DEF Inv

\* Every step keeps the invariant: one case per action of Next.
LEMMA StepInv == Inv /\ [Next]_vars => Inv'
<1> SUFFICES ASSUME Inv, [Next]_vars PROVE Inv'
  OBVIOUS
<1>1. CASE Launch
  BY <1>1, LaunchInv
<1>2. CASE AwaitRace
  <2>1. loop' = "racing" /\ woken' = FALSE /\ loop = "filling" /\ inflight' = inflight
    BY <1>2 DEF AwaitRace
  <2>2. QED
    BY <1>2, <2>1, QuietInv DEF AwaitRace
<1>3. CASE Resume
  <2>1. loop' = "filling" /\ loop = "racing" /\ woken' \in BOOLEAN /\ inflight' = inflight
    BY <1>3 DEF Resume, Inv, TypeOK
  <2>2. QED
    BY <1>3, <2>1, QuietInv DEF Resume
<1>4. CASE Finish
  BY <1>4, FinishInv
<1>5. ASSUME NEW t \in Task, TaskStep(t)
      PROVE  Inv'
  <2>1. CASE ExecuteReturns(t)
    <3>1. PICK status \in {"success", "failure"} :
            /\ plan.kind[t] = "sandbox" /\ Returns(t, status)
            /\ jobResults' = [jobResults EXCEPT ![t] = status]
            /\ attested' = attested \cup {t}
      BY <2>1 DEF ExecuteReturns
    <3>2. /\ jobResults' \in [Task -> {"none", "success", "failure"}]
          /\ \A x \in Task : x # t => jobResults'[x] = jobResults[x]
          /\ jobResults'[t] = status
          /\ attested' \in SUBSET Task /\ attested \subseteq attested'
      BY <3>1 DEF Inv, TypeOK
    <3>3. QED
      BY <3>1, <3>2, ReturnInv
  <2>2. CASE ExecuteThrows(t)
    <3>1. /\ plan.kind[t] = "sandbox" /\ Returns(t, "failure")
          /\ jobResults' = jobResults /\ attested' = attested
      BY <2>2 DEF ExecuteThrows
    <3>2. /\ jobResults' \in [Task -> {"none", "success", "failure"}]
          /\ attested' \in SUBSET Task /\ attested \subseteq attested'
      BY <3>1 DEF Inv, TypeOK
    <3>3. QED
      BY <3>1, <3>2, ReturnInv
  <2>3. CASE AttestationFails(t)
    <3>1. PICK status \in {"success", "failure"} :
            /\ plan.kind[t] = "sandbox" /\ Returns(t, "failure")
            /\ jobResults' = [jobResults EXCEPT ![t] = status]
            /\ attested' = attested
      BY <2>3 DEF AttestationFails
    <3>2. /\ jobResults' \in [Task -> {"none", "success", "failure"}]
          /\ \A x \in Task : x # t => jobResults'[x] = jobResults[x]
          /\ attested' \in SUBSET Task /\ attested \subseteq attested'
      BY <3>1 DEF Inv, TypeOK
    <3>3. QED
      BY <3>1, <3>2, ReturnInv
  <2>4. CASE PublishReturns(t)
    <3>1. PICK status \in {"success", "failure"} :
            /\ plan.kind[t] = "publish" /\ Returns(t, status)
            /\ jobResults' = jobResults
            /\ attested' = IF status = "success" THEN attested \cup {t} ELSE attested
      BY <2>4 DEF PublishReturns
    <3>2. /\ jobResults' \in [Task -> {"none", "success", "failure"}]
          /\ attested' \in SUBSET Task /\ attested \subseteq attested'
      BY <3>1 DEF Inv, TypeOK
    <3>3. QED
      BY <3>1, <3>2, ReturnInv
  <2>5. CASE SettleFailure(t)
    BY <2>5, SettleFailureInv
  <2>6. CASE SettleGood(t)
    BY <2>6, SettleGoodInv
  <2>7. CASE Deleted(t)
    <3>1. /\ inflight' = inflight \ {t} /\ phase[t] = "settled"
          /\ woken' = TRUE /\ loop = "racing" /\ loop' = loop
      BY <2>7 DEF Deleted
    <3>2. \A x \in Task : x \in inflight /\ x \notin inflight' => phase[x] = "settled"
      BY <3>1
    <3>3. QED
      BY <2>7, <3>1, <3>2, QuietInv DEF Deleted
  <2>8. QED
    BY <1>5, <2>1, <2>2, <2>3, <2>4, <2>5, <2>6, <2>7 DEF TaskStep, Answers, Settles
<1>6. CASE UNCHANGED vars
  <2>1. \A x \in Task : (Unmet(x)' = Unmet(x)) /\ (Idle(x)' <=> Idle(x))
    BY <1>6 DEF Unmet, Idle, vars
  <2>2. TypeOK' /\ PhaseInv' /\ SweepInv' /\ CascadeExact' /\ StartsAfterNeeds'
    BY <1>6 DEF Inv, TypeOK, PhaseInv, SweepInv, CascadeExact, StartsAfterNeeds, vars
  <2>3. CountInv' /\ ReadyInv'
    BY <1>6, <2>1 DEF Inv, CountInv, ReadyInv, Unmet, Idle, vars
  <2>4. QED
    BY <2>2, <2>3 DEF Inv
<1>7. QED
  BY <1>1, <1>2, <1>3, <1>4, <1>5, <1>6 DEF Next, LoopStep, Terminated

THEOREM Invariance == Spec => []Inv
<1>1. QED
  BY InitInv, StepInv, PTL DEF Spec

\* Every variable keeps its type.
THEOREM SchedulerTypeOK == Spec => []TypeOK
<1>1. Inv => TypeOK
  BY DEF Inv
<1>2. QED
  BY <1>1, Invariance, PTL

\* No task starts before everything it needs concluded well and left its outputs and its
\* attestation.
THEOREM SchedulerStartsAfterNeeds == Spec => []StartsAfterNeeds
<1>1. Inv => StartsAfterNeeds
  BY DEF Inv
<1>2. QED
  BY <1>1, Invariance, PTL

\* The skip cascade reaches exactly the tasks downstream of a failure.
THEOREM SchedulerCascadeExact == Spec => []CascadeExact
<1>1. Inv => CascadeExact
  BY DEF Inv
<1>2. QED
  BY <1>1, Invariance, PTL

-----------------------------------------------------------------------------
\* While the loop sleeps undisturbed with room to spare, the queue is empty.
RaceInv ==
  (loop = "racing" /\ ~woken /\ ~(failed /\ plan.failFast)
     /\ Cardinality(inflight) < Limit(plan) /\ \A t \in inflight : phase[t] # "settled")
  => ready = <<>>

LEMMA RaceInvStep == Inv /\ RaceInv /\ [Next]_vars => RaceInv'
<1> SUFFICES ASSUME Inv, RaceInv, [Next]_vars PROVE RaceInv'
  OBVIOUS
<1>1. CASE Launch \/ Resume \/ Finish
  <2>1. loop' # "racing"
    BY <1>1 DEF Launch, Resume, Finish
  <2>2. QED
    BY <2>1 DEF RaceInv
<1>2. CASE AwaitRace
  BY <1>2 DEF AwaitRace, CanLaunch, RaceInv
<1>3. ASSUME NEW t \in Task, TaskStep(t)
      PROVE  RaceInv'
  <2>1. ASSUME NEW status, Returns(t, status)
        PROVE  RaceInv'
    <3>1. /\ UNCHANGED <<plan, ready, failed, inflight, woken, loop>>
          /\ phase' = [phase EXCEPT ![t] = "returned"] /\ phase[t] = "executing"
      BY <2>1 DEF Returns
    <3>2. \A x \in Task : phase'[x] = "settled" <=> phase[x] = "settled"
      BY <3>1 DEF Inv, TypeOK
    <3>3. QED
      BY <3>1, <3>2 DEF RaceInv, Inv, TypeOK
  <2>2. CASE SettleFailure(t) \/ SettleGood(t)
    <3>1. phase'[t] = "settled" /\ t \in inflight'
      BY <2>2 DEF SettleFailure, SettleGood, Inv, TypeOK, PhaseInv
    <3>2. QED
      BY <3>1 DEF RaceInv
  <2>3. CASE Deleted(t)
    BY <2>3 DEF Deleted, RaceInv
  <2>4. QED
    BY <1>3, <2>1, <2>2, <2>3
       DEF TaskStep, Answers, Settles, ExecuteReturns, ExecuteThrows, AttestationFails, PublishReturns
<1>4. CASE UNCHANGED vars
  BY <1>4 DEF RaceInv, vars
<1>5. QED
  BY <1>1, <1>2, <1>3, <1>4 DEF Next, LoopStep, Terminated

\* The loop never sleeps on a task that could run: when it waits with room to spare,
\* whatever may start has started.  The queue is then empty, and by ReadyInv a task
\* that may start is either in the queue or no longer idle.
THEOREM SchedulerNoBarrier == Spec => []NoBarrier
<1>1. Init => RaceInv
  BY DEF Init, RaceInv
<1>2. Inv /\ RaceInv => NoBarrier
  <2> SUFFICES ASSUME Inv, RaceInv,
                      loop = "racing", ~woken, ~(failed /\ plan.failFast),
                      Cardinality(inflight) < Limit(plan),
                      \A t \in inflight : phase[t] # "settled",
                      NEW t \in Task, \A n \in plan.needs[t] : results[n] \in Good,
                      phase[t] = "idle"
               PROVE  FALSE
    BY DEF NoBarrier
  <2>1. ready = <<>>
    BY DEF RaceInv
  <2>2. Unmet(t) = {}
    BY DEF Unmet
  <2>3. results[t] # "none"
    BY <2>1, <2>2 DEF Inv, ReadyInv, Idle
  <2>4. results[t] = "depFailed"
    BY <2>3 DEF Inv, PhaseInv, SweepInv, Skip
  <2>5. \E n \in plan.needs[t] : results[n] \in {"failure", "depFailed"}
    BY <2>4 DEF Inv, CascadeExact
  <2>6. QED
    BY <2>5 DEF Good
<1>3. QED
  BY <1>1, <1>2, Invariance, RaceInvStep, PTL DEF Spec
-----------------------------------------------------------------------------
\* When the loop ends, only fail-fast can have left a task without a verdict: by
\* acyclicity some task without one waits for no other such task, and then it would
\* be in the queue.
LEMMA NothingLeft ==
  ASSUME Inv, Finish, NEW u \in Task, results[u] = "none"
  PROVE  failed /\ plan.failFast
<1> SUFFICES ASSUME ~(failed /\ plan.failFast) PROVE FALSE
  OBVIOUS
<1>1. loop = "filling" /\ ~CanLaunch /\ inflight = {}
  BY DEF Finish
<1>2. Cardinality(inflight) < Limit(plan)
  <2>1. Cardinality(inflight) = 0
    BY <1>1, FS_EmptySet
  <2>2. plan.concurrency \in Nat
    BY PlanFacts DEF Inv
  <2>3. QED
    BY <2>1, <2>2 DEF Limit
<1>3. ready = <<>>
  BY <1>1, <1>2 DEF CanLaunch
<1> DEFINE S == {t \in Task : results[t] = "none"}
<1>4. PICK t \in S : plan.needs[t] \cap S = {}
  <2>1. S \in SUBSET Task /\ S # {}
    OBVIOUS
  <2>2. QED
    BY <2>1, PlanFacts DEF Acyclic, Inv
<1>5. \A n \in plan.needs[t] : results[n] \in Good
  <2> SUFFICES ASSUME NEW n \in plan.needs[t]
               PROVE  results[n] \in Good
    OBVIOUS
  <2>1. n \in Task /\ results[n] # "none"
    BY <1>4, PlanFacts DEF Inv
  <2>2. results[n] \notin {"stopped", "notScheduled"}
    BY <1>1, <2>1 DEF Inv, SweepInv
  <2>3. results[n] \notin {"failure", "depFailed"}
    BY <1>4 DEF Inv, CascadeExact
  <2>4. results[n] \in Verdict
    BY <2>1 DEF Inv, TypeOK
  <2>5. QED
    BY <2>1, <2>2, <2>3, <2>4 DEF Verdict, Skip
<1>6. Unmet(t) = {}
  BY <1>5 DEF Unmet
<1>7. phase[t] = "idle"
  BY <1>1, <1>4 DEF Inv, TypeOK, PhaseInv
<1>8. QED
  BY <1>1, <1>3, <1>4, <1>6, <1>7 DEF Inv, ReadyInv, Idle

\* Nobody is forgotten: the reason "not scheduled" is never given, and a task that
\* neither ran nor sits below a failure was stopped by fail-fast.
THEOREM SchedulerNobodyForgotten == Spec => []NobodyForgotten
<1>1. Init => NobodyForgotten
  BY DEF Init, NobodyForgotten
<1>2. Inv /\ NobodyForgotten /\ [Next]_vars => NobodyForgotten'
  <2> SUFFICES ASSUME Inv, NobodyForgotten, [Next]_vars PROVE NobodyForgotten'
    OBVIOUS
  <2>1. CASE Finish
    <3> SUFFICES ASSUME NEW t \in Task
                 PROVE  /\ results'[t] # "notScheduled"
                        /\ results'[t] = "stopped" => failed' /\ plan'.failFast
                        /\ results'[t] \in Good \cup {"failure"} <=> phase'[t] = "settled"
      BY DEF NobodyForgotten
    <3>1. /\ results'[t] = IF results[t] # "none" THEN results[t]
                           ELSE IF failed THEN "stopped" ELSE "notScheduled"
          /\ UNCHANGED <<plan, failed, phase>> /\ loop = "filling" /\ inflight = {}
      BY <2>1 DEF Finish
    <3>2. results[t] = "none" => failed /\ plan.failFast
      BY <2>1, NothingLeft
    <3>3. results[t] \notin {"stopped", "notScheduled"}
      BY <3>1 DEF Inv, SweepInv
    <3>4. phase[t] = "settled" => results[t] \in Good \cup {"failure"}
      BY DEF Inv, TypeOK, PhaseInv, Good
    <3>5. phase[t] # "settled" => results[t] \in {"none"} \cup Skip
      BY <3>1 DEF Inv, TypeOK, PhaseInv
    <3>6. QED
      BY <3>1, <3>2, <3>3, <3>4, <3>5 DEF Good, Skip
  <2>2. CASE Terminated \/ UNCHANGED vars
    BY <2>2 DEF Terminated, vars, NobodyForgotten
  <2>3. CASE Launch \/ AwaitRace \/ Resume \/ \E t \in Task : TaskStep(t)
    <3>1. loop' # "finished"
      BY <2>3 DEF Launch, AwaitRace, Resume, TaskStep, Answers, Settles, ExecuteReturns, ExecuteThrows,
                  AttestationFails, PublishReturns, Returns, SettleFailure, SettleGood, Deleted
    <3>2. QED
      BY <3>1 DEF NobodyForgotten
  <2>4. QED
    BY <2>1, <2>2, <2>3 DEF Next, LoopStep
<1>3. QED
  BY <1>1, <1>2, Invariance, PTL DEF Spec
-----------------------------------------------------------------------------
(* How the loop ends *)

\* What the loop waits for when it sleeps.
SleepInv == loop = "racing" /\ ~woken => inflight # {}

\* A launch that has still to do something of its own, or to be removed.
Underway(t) == \/ phase[t] \in {"executing", "settled"}
               \/ phase[t] = "returned" /\ answer[t] \in Good \cup {"failure"}

\* Whenever the loop sleeps there is something to sleep on: the race has been won, or one of
\* the launches in flight has its callback or the rest of its own code still to come.
NeverSleepsOnNothing == loop = "racing" => woken \/ \E t \in inflight : Underway(t)

LEMMA SleepInvStep == Inv /\ SleepInv /\ [Next]_vars => SleepInv'
<1> SUFFICES ASSUME Inv, SleepInv, [Next]_vars PROVE SleepInv'
  OBVIOUS
<1>1. CASE LoopStep
  BY <1>1 DEF LoopStep, Launch, AwaitRace, Resume, Finish, SleepInv
<1>2. ASSUME NEW t \in Task, TaskStep(t) PROVE SleepInv'
  BY <1>2 DEF TaskStep, Answers, Settles, ExecuteReturns, ExecuteThrows, AttestationFails, PublishReturns, Returns,
              SettleFailure, SettleGood, Deleted, SleepInv
<1>3. CASE UNCHANGED vars
  BY <1>3 DEF vars, SleepInv
<1> QED BY <1>1, <1>2, <1>3 DEF Next, Terminated

\* For any plan, while schedule sleeps in Promise.race, the race is won, or some launch in
\* flight still has its runTask or the rest of its own code to come.
THEOREM SchedulerNeverSleepsOnNothing == Spec => []NeverSleepsOnNothing
<1>1. Init => SleepInv
  BY DEF Init, SleepInv
<1>2. Inv /\ SleepInv => NeverSleepsOnNothing
  BY DEF Inv, TypeOK, PhaseInv, SleepInv, NeverSleepsOnNothing, Underway, Good
<1> QED BY <1>1, <1>2, Invariance, SleepInvStep, PTL DEF Spec

\* What a launch has still before it.
WorkIn(place, listed) == CASE place = "idle" -> 4
                            [] place = "executing" -> 3
                            [] place = "returned" -> 2
                            [] place = "settled" -> IF listed THEN 1 ELSE 0

Work == [t \in Task |-> WorkIn(phase[t], t \in inflight)]

\* What the loop has still before it till the next launch or the end of one.
Turns == IF loop = "filling" THEN 1 ELSE IF loop = "racing" /\ woken THEN 2 ELSE 0

\* How many steps the call of schedule can still take, at most.
Left == 3 * SumOn(Work, Task) + Turns

LEMMA WorkIs == TypeOK => Work \in [Task -> Nat] /\ Turns \in 0..2
BY DEF TypeOK, Work, WorkIn, Turns

\* A step that brings one launch on takes work away, whatever the loop has before it then.
LEMMA LessWork ==
  ASSUME TypeOK, TypeOK', NEW t \in Task, Work'[t] < Work[t],
         \A u \in Task : u # t => Work'[u] = Work[u]
  PROVE  Left' < Left
<1>1. IsFiniteSet(Task)
  BY TaskSetsFinite
<1>2. Work \in [Task -> Nat] /\ Turns \in 0..2
  BY WorkIs
<1>3. Work' \in [Task -> Nat] /\ Turns' \in 0..2
  BY DEF TypeOK, Work, WorkIn, Turns
<1>4. SumOn(Work', Task) < SumOn(Work, Task)
  BY <1>1, <1>2, <1>3, SumFalls
<1>5. SumOn(Work, Task) \in Nat /\ SumOn(Work', Task) \in Nat
  BY <1>1, <1>2, <1>3, SumAdds
<1>6. Left' = 3 * SumOn(Work', Task) + Turns'
  BY Zenon DEF Left, SumOn, MapThenSumSet, MapThenFoldSet
<1> HIDE DEF Work, Turns
<1> QED BY <1>2, <1>3, <1>4, <1>5, <1>6 DEF Left

\* The loop itself goes on, and what the launches have before them stays.
LEMMA SameWork ==
  ASSUME TypeOK, UNCHANGED <<phase, inflight>>, Turns' < Turns
  PROVE  Left' < Left
<1>1. Work \in [Task -> Nat] /\ Turns \in 0..2
  BY WorkIs
<1>2. SumOn(Work, Task) \in Nat
  <2>1. IsFiniteSet(Task)
    BY TaskSetsFinite
  <2> QED BY <1>1, <2>1, SumAdds
<1>3. Work' = Work
  BY DEF Work
<1>4. Left' = 3 * SumOn(Work', Task) + Turns'
  BY Zenon DEF Left, SumOn, MapThenSumSet, MapThenFoldSet
<1>5. Turns' \in 0..2
  BY DEF Turns
<1> HIDE DEF Work, Turns
<1> QED BY <1>1, <1>2, <1>3, <1>4, <1>5 DEF Left

LEMMA EachStepCounts == Inv /\ [Next]_vars => [Left' < Left]_vars
<1> SUFFICES ASSUME Inv, [Next]_vars, ~UNCHANGED vars PROVE Left' < Left
  OBVIOUS
<1>0. TypeOK /\ TypeOK'
  BY StepInv DEF Inv
<1>1. CASE Launch
  <2> DEFINE t == Head(ready)
  <2>1. t \in Task /\ phase[t] = "idle" /\ results[t] = "none"
    <3>1. ready \in Seq(Task) /\ ready # <<>> /\ loop # "finished"
      BY <1>0, <1>1 DEF TypeOK, Launch, CanLaunch
    <3>2. 1 \in DOMAIN ready /\ t = ready[1]
      BY <3>1
    <3> QED BY <3>1, <3>2 DEF Inv, ReadyInv, Idle
  <2>2. /\ inflight' = inflight \cup {t} /\ phase'[t] \in {"executing", "returned"}
        /\ \A u \in Task : u # t => phase'[u] = phase[u]
    BY <1>0, <1>1, <2>1 DEF Launch, TypeOK
  <2> HIDE DEF t
  <2>3. \A u \in Task : u # t => Work'[u] = Work[u]
    <3>1. \A u \in Task : u # t => (u \in inflight' <=> u \in inflight)
      BY <2>2
    <3> QED BY <2>2, <3>1 DEF Work
  <2>4. Work'[t] < Work[t]
    <3>1. Work[t] = 4
      BY <2>1 DEF Work, WorkIn
    <3>2. Work'[t] \in {2, 3}
      BY <2>1, <2>2 DEF Work, WorkIn
    <3> QED BY <3>1, <3>2
  <2> QED BY <1>0, <2>1, <2>3, <2>4, LessWork
<1>2. CASE AwaitRace \/ Resume \/ Finish
  <2>1. UNCHANGED <<phase, inflight>> /\ Turns' < Turns
    BY <1>2 DEF AwaitRace, Resume, Finish, Turns
  <2> QED BY <1>0, <2>1, SameWork
<1>3. ASSUME NEW t \in Task, NEW status, Returns(t, status) PROVE Left' < Left
  <2>1. /\ inflight' = inflight /\ phase[t] = "executing" /\ phase'[t] = "returned"
        /\ \A u \in Task : u # t => phase'[u] = phase[u]
    BY <1>0, <1>3 DEF Returns, TypeOK
  <2>2. \A u \in Task : u # t => Work'[u] = Work[u]
    BY <2>1 DEF Work
  <2>3. Work'[t] < Work[t]
    BY <2>1 DEF Work, WorkIn
  <2> QED BY <1>0, <2>2, <2>3, LessWork
<1>4. ASSUME NEW t \in Task, SettleFailure(t) \/ SettleGood(t) PROVE Left' < Left
  <2>1. /\ inflight' = inflight /\ phase[t] = "returned" /\ phase'[t] = "settled"
        /\ \A u \in Task : u # t => phase'[u] = phase[u]
    BY <1>0, <1>4 DEF SettleFailure, SettleGood, TypeOK
  <2>2. \A u \in Task : u # t => Work'[u] = Work[u]
    BY <2>1 DEF Work
  <2>3. Work'[t] < Work[t]
    BY <2>1 DEF Work, WorkIn
  <2> QED BY <1>0, <2>2, <2>3, LessWork
<1>5. ASSUME NEW t \in Task, Deleted(t) PROVE Left' < Left
  <2>1. /\ phase' = phase /\ phase[t] = "settled" /\ t \in inflight
        /\ inflight' = inflight \ {t}
    BY <1>5 DEF Deleted
  <2>2. \A u \in Task : u # t => Work'[u] = Work[u]
    BY <2>1 DEF Work
  <2>3. Work'[t] < Work[t]
    BY <2>1 DEF Work, WorkIn
  <2> QED BY <1>0, <2>2, <2>3, LessWork
<1>6. ASSUME NEW t \in Task, TaskStep(t) PROVE Left' < Left
  BY <1>3, <1>4, <1>5, <1>6
     DEF TaskStep, Answers, Settles, ExecuteReturns, ExecuteThrows, AttestationFails, PublishReturns
<1> QED BY <1>1, <1>2, <1>6 DEF Next, LoopStep, Terminated

\* Before the first launch every task has four steps before it.
LEMMA LeftAtFirst == Init => Left = 12 * NTasks + 1
<1> SUFFICES ASSUME Init PROVE Left = 12 * NTasks + 1
  OBVIOUS
<1> DEFINE T == {n \in Nat : \A S \in SUBSET Task : Cardinality(S) <= n => SumOn(Work, S) = 4 * Cardinality(S)}
<1>0. /\ IsFiniteSet(Task) /\ NTasks \in Nat /\ Cardinality(Task) = NTasks
      /\ \A S \in SUBSET Task : IsFiniteSet(S) /\ Cardinality(S) \in Nat
  BY TaskSetsFinite, PlansAssumption, FS_Interval DEF Task
<1>1. Work \in [Task -> Nat] /\ \A t \in Task : Work[t] = 4
  BY DEF Init, Work, WorkIn
<1>2. Turns = 1
  BY DEF Init, Turns
<1> HIDE DEF Work, Turns
<1>3. 0 \in T
  <2>1. \A S \in SUBSET Task : Cardinality(S) <= 0 => S = {} /\ Cardinality(S) = 0
    BY <1>0, FS_EmptySet
  <2> QED BY <2>1, SumEmpty
<1>4. ASSUME NEW n \in Nat, n \in T PROVE n + 1 \in T
  <2>1. ASSUME NEW S \in SUBSET Task, Cardinality(S) <= n + 1, S # {}
        PROVE  SumOn(Work, S) = 4 * Cardinality(S)
    <3>1. PICK t : t \in S
      BY <2>1
    <3>2. Cardinality(S \ {t}) = Cardinality(S) - 1 /\ S \ {t} \in SUBSET Task
      BY <1>0, <3>1, FS_RemoveElement
    <3>3. SumOn(Work, S \ {t}) = 4 * Cardinality(S \ {t})
      BY <1>0, <1>4, <2>1, <3>2
    <3>4. SumOn(Work, S) = Work[t] + SumOn(Work, S \ {t})
      BY <1>0, <1>1, <3>1, SumAdds
    <3>5. Work[t] = 4 /\ Cardinality(S) \in Nat
      BY <1>0, <1>1, <3>1
    <3> QED BY <3>2, <3>3, <3>4, <3>5
  <2>2. SumOn(Work, {}) = 4 * Cardinality({})
    BY SumEmpty, FS_EmptySet
  <2> QED BY <2>1, <2>2
<1>5. Nat \subseteq T
  <2> HIDE DEF T
  <2> QED BY <1>3, <1>4, SetInduction
<1>6. SumOn(Work, Task) = 4 * NTasks
  BY <1>0, <1>5
<1> QED BY <1>0, <1>2, <1>6 DEF Left

\* For any plan of N tasks, a call of schedule takes at most 12 N + 1 steps: each leaves fewer
\* to take, whatever the launches do and in whatever order they end.
THEOREM SchedulerCountsDown ==
  Spec => Left = 12 * NTasks + 1 /\ [](Left \in Nat) /\ [][Left' < Left]_vars
<1>1. Inv => Left \in Nat
  <2> SUFFICES ASSUME Inv PROVE Left \in Nat
    OBVIOUS
  <2>1. Work \in [Task -> Nat] /\ Turns \in 0..2
    BY WorkIs DEF Inv
  <2>2. SumOn(Work, Task) \in Nat
    <3>1. IsFiniteSet(Task)
      BY TaskSetsFinite
    <3> QED BY <2>1, <3>1, SumAdds
  <2> HIDE DEF Work, Turns
  <2> QED BY <2>1, <2>2 DEF Left
<1> QED BY <1>1, LeftAtFirst, Invariance, EachStepCounts, PTL DEF Spec
-----------------------------------------------------------------------------
(* Scheduler implements TaskGraph *)

\* The instance speaks of the same tasks, verdicts and cap.
LEMMA GraphNames ==
  Graph!Task = Task /\ Graph!Good = Good /\ \A p \in Plan : Graph!Limit(p) = Limit(p)
BY DEF Graph!Task, Task, Graph!Good, Good, Graph!Limit, Limit

LEMMA GraphCardinality == ASSUME NEW S PROVE Graph!Cardinality(S) = Cardinality(S)
BY DEF Graph!Cardinality, Cardinality

\* The cascade through the open tasks reaches everything downstream that did not
\* already have its verdict.
LEMMA CascadeIsDownstream ==
  ASSUME Inv, NEW t \in Task, SettleFailure(t)
  PROVE  /\ skipDependents(t) \subseteq Graph!Downstream(t)
         /\ \A d \in Graph!Downstream(t) : d \in skipDependents(t) \/ results[d] = "depFailed"
<1> USE GraphNames
<1> DEFINE K == skipDependents(t)
           open == {d \in Task : results[d] = "none" /\ d \notin running}
           D == K \cup {d \in Task : results[d] = "depFailed"}
<1>1. /\ K \subseteq open
      /\ \A e \in open : plan.needs[e] \cap (K \cup {t}) # {} => e \in K
  BY Cascade
<1>2. K = {d \in Task : \A S \in SUBSET open :
             (\A e \in open : plan.needs[e] \cap (S \cup {t}) # {} => e \in S) => d \in S}
  BY DEF skipDependents
<1>3. K \subseteq Graph!Downstream(t)
  <2> SUFFICES ASSUME NEW d \in K, NEW S \in SUBSET Task,
                      \A e \in Task : plan.needs[e] \cap (S \cup {t}) # {} => e \in S
               PROVE  d \in S
    BY <1>1 DEF Graph!Downstream
  <2>1. \A e \in open : plan.needs[e] \cap ((S \cap open) \cup {t}) # {} => e \in S \cap open
    OBVIOUS
  <2>2. K \subseteq S \cap open
    BY <1>2, <2>1
  <2>3. QED
    BY <2>2
<1>4. results[t] = "none" /\ loop = "racing"
  BY DEF SettleFailure, Inv, PhaseInv
<1>5. ASSUME NEW e \in Task, NEW n \in plan.needs[e], n \in D \cup {t}
      PROVE  e \in D
  <2>1. CASE n \in Task /\ results[n] = "depFailed"
    BY <2>1 DEF Inv, CascadeExact
  <2>2. CASE n \in K \cup {t}
    <3>1. results[n] = "none"
      BY <1>1, <1>4, <2>2
    <3>2. phase[e] = "idle"
      BY <3>1 DEF Inv, StartsAfterNeeds, Good
    <3>3. results[e] \in {"none", "depFailed"}
      BY <1>4, <3>2 DEF Inv, PhaseInv, SweepInv, Skip
    <3>4. results[e] = "none" => e \in open
      BY <3>2 DEF running
    <3>5. QED
      BY <1>1, <2>2, <3>3, <3>4
  <2>3. QED
    BY <1>5, <2>1, <2>2
<1>6. Graph!Downstream(t) \subseteq D
  <2>1. D \in SUBSET Task
    BY <1>1
  <2>2. \A e \in Task : plan.needs[e] \cap (D \cup {t}) # {} => e \in D
    BY <1>5
  <2>3. QED
    BY <2>1, <2>2 DEF Graph!Downstream
<1>7. QED
  BY <1>3, <1>6

LEMMA GraphStep == Inv /\ [Next]_vars => [Graph!Next]_Graph!vars
<1> SUFFICES ASSUME Inv, [Next]_vars PROVE [Graph!Next]_Graph!vars
  OBVIOUS
<1> USE GraphNames
<1> DEFINE begun == {t \in Task : phase[t] # "idle"}
<1>1. CASE Launch
  <2>1. PICK t \in Task : t = Head(ready)
    BY <1>1 DEF Launch, CanLaunch, Inv, TypeOK
  <2>2. /\ Idle(t) /\ Unmet(t) = {}
    <3>1. 1 \in DOMAIN ready /\ t = ready[1] /\ loop # "finished"
      BY <1>1, <2>1 DEF Launch, CanLaunch, Inv, TypeOK
    <3>2. QED
      BY <3>1 DEF Inv, ReadyInv
  <2>3. /\ inflight' = inflight \cup {t} /\ UNCHANGED <<plan, results>>
        /\ phase' = [phase EXCEPT ![t] = "returned"] \/ phase' = [phase EXCEPT ![t] = "executing"]
        /\ Cardinality(inflight) < Limit(plan) /\ ~(failed /\ plan.failFast)
    BY <1>1, <2>1, <2>2 DEF Launch, CanLaunch, Idle
  <2>4. begun' = begun \cup {t} /\ t \notin begun
    BY <2>2, <2>3 DEF Idle, Inv, TypeOK
  <2>5. \A n \in plan.needs[t] : results[n] \in Good
    BY <2>2 DEF Unmet
  <2>6. ~(plan.failFast /\ \E u \in Task : results[u] = "failure")
    BY <2>3 DEF Inv, SweepInv
  <2>7. Cardinality(Graph!Running') <= Limit(plan)
    <3>1. Graph!Running' \subseteq inflight'
      <4> SUFFICES ASSUME NEW x \in Task, phase'[x] # "idle", results[x] = "none", x # t
                   PROVE  x \in inflight
        BY <2>3 DEF Graph!Running
      <4>1. phase[x] \in {"executing", "returned", "settled"}
        BY <2>3 DEF Inv, TypeOK
      <4>2. QED
        BY <4>1 DEF Inv, PhaseInv
    <3>2. IsFiniteSet(inflight) /\ Cardinality(inflight) \in Nat
      BY TaskSetsFinite DEF Inv, TypeOK
    <3>3. IsFiniteSet(inflight') /\ Cardinality(inflight') <= Cardinality(inflight) + 1
      BY <2>3, <3>2, FS_AddElement
    <3>4. Cardinality(Graph!Running') <= Cardinality(inflight')
      BY <3>1, <3>3, FS_Subset
    <3>5. Limit(plan) \in Nat /\ Cardinality(inflight') \in Nat /\ Cardinality(Graph!Running') \in Nat
      BY <3>1, <3>3, PlanFacts, FS_CardinalityType, FS_Subset DEF Inv, Limit
    <3>6. QED
      BY <2>3, <3>2, <3>3, <3>4, <3>5
  <2>8. Graph!Cardinality(Graph!Running') <= Graph!Limit(plan)
    BY <2>7, GraphCardinality, PlansAssumption DEF Inv, TypeOK
  <2>9. Graph!Start(t)
    BY <2>2, <2>3, <2>4, <2>5, <2>6, <2>8 DEF Graph!Start, Idle
  <2>10. QED
    BY <2>9 DEF Graph!Next
<1>2. CASE AwaitRace \/ Resume
  BY <1>2 DEF AwaitRace, Resume, Graph!vars
<1>3. CASE Finish
  <2>1. /\ results' = [t \in Task |-> IF results[t] # "none" THEN results[t]
                                       ELSE IF failed THEN "stopped" ELSE "notScheduled"]
        /\ UNCHANGED <<plan, phase>> /\ inflight = {}
    BY <1>3 DEF Finish
  <2>2. CASE \E u \in Task : results[u] = "none"
    <3>1. failed /\ plan.failFast
      BY <1>3, <2>2, NothingLeft
    <3>2. Graph!Running = {}
      BY <2>1 DEF Graph!Running, Inv, TypeOK, PhaseInv
    <3>3. results' = [t \in Task |-> IF results[t] = "none" THEN "stopped" ELSE results[t]]
      BY <2>1, <3>1
    <3>4. Graph!GiveUp
      BY <2>1, <3>1, <3>2, <3>3 DEF Graph!GiveUp, Inv, SweepInv
    <3>5. QED
      BY <3>4 DEF Graph!Next
  <2>3. CASE \A u \in Task : results[u] # "none"
    <3>1. results' = results
      BY <2>1, <2>3 DEF Inv, TypeOK
    <3>2. QED
      BY <2>1, <3>1 DEF Graph!vars
  <2>4. QED
    BY <2>2, <2>3
<1>4. ASSUME NEW t \in Task, TaskStep(t)
      PROVE  [Graph!Next]_Graph!vars
  <2>1. ASSUME NEW status, Returns(t, status)
        PROVE  UNCHANGED Graph!vars
    <3>1. begun' = begun
      BY <2>1 DEF Returns, Inv, TypeOK
    <3>2. QED
      BY <2>1, <3>1 DEF Returns, Graph!vars
  <2>2. CASE SettleFailure(t)
    <3>1. /\ phase[t] = "returned" /\ phase' = [phase EXCEPT ![t] = "settled"]
          /\ results' = [d \in Task |-> IF d = t THEN "failure"
                                         ELSE IF d \in skipDependents(t) THEN "depFailed"
                                         ELSE results[d]]
          /\ UNCHANGED plan
      BY <2>2 DEF SettleFailure
    <3>2. begun' = begun /\ t \in Graph!Running
      BY <3>1 DEF Inv, TypeOK, PhaseInv, Graph!Running
    <3>3. results' = [d \in Task |-> IF d = t THEN "failure"
                                      ELSE IF d \in Graph!Downstream(t) THEN "depFailed"
                                      ELSE results[d]]
      BY <2>2, <3>1, CascadeIsDownstream
    <3>4. Graph!Fail(t)
      BY <3>1, <3>2, <3>3 DEF Graph!Fail
    <3>5. QED
      BY <3>4 DEF Graph!Next
  <2>3. CASE SettleGood(t)
    <3>1. /\ phase[t] = "returned" /\ phase' = [phase EXCEPT ![t] = "settled"]
          /\ answer[t] \in Good /\ results' = [results EXCEPT ![t] = answer[t]]
          /\ UNCHANGED plan
      BY <2>3 DEF SettleGood
    <3>2. begun' = begun /\ t \in Graph!Running
      BY <3>1 DEF Inv, TypeOK, PhaseInv, Graph!Running
    <3>3. Graph!Conclude(t)
      BY <3>1, <3>2 DEF Graph!Conclude
    <3>4. QED
      BY <3>3 DEF Graph!Next
  <2>4. CASE Deleted(t)
    BY <2>4 DEF Deleted, Graph!vars
  <2>5. QED
    BY <1>4, <2>1, <2>2, <2>3, <2>4
       DEF TaskStep, Answers, Settles, ExecuteReturns, ExecuteThrows, AttestationFails, PublishReturns
<1>5. CASE UNCHANGED vars \/ Terminated
  BY <1>5 DEF vars, Terminated, Graph!vars
<1>6. QED
  BY <1>1, <1>2, <1>3, <1>4, <1>5 DEF Next, LoopStep

\* Queue, counters and promises do what TaskGraph promises: every step of the
\* scheduler starts one task, concludes one, fails one with all its downstream, gives
\* up, or changes nothing a caller can see.
THEOREM SchedulerImplementsTaskGraph == Spec => ImplementsTaskGraph
<1>1. Init => Graph!Init
  BY GraphNames DEF Init, Graph!Init
<1>2. QED
  BY <1>1, GraphStep, Invariance, PTL DEF Spec, ImplementsTaskGraph, Graph!Spec
=============================================================================
